------------------------------- MODULE RegAlloc -------------------------------
(***************************************************************************)
(* SimpleAllocator and the translation of quadruples to x86, for the body  *)
(* of one function: what the code generator records (which register holds  *)
(* which name, where a spilled temporary lives, how far the stack has      *)
(* grown) side by side with what the emitted instructions do to the        *)
(* registers, the stack frame and esp.                                     *)
(*                                                                         *)
(* Data is abstracted to its identity: a register or a stack cell holds    *)
(* Tok(n), the current value of the variable or temporary n, or Junk, any  *)
(* other bits.  When n is given a new value every older copy of it becomes *)
(* Junk.  The code is right as long as each operand a quadruple reads is   *)
(* the current value of the name the quadruple mentions.                   *)
(*                                                                         *)
(* The emitted code runs in the order it is emitted.  A jump changes       *)
(* nothing: at a label every register is free, no temporary is alive, and  *)
(* the frame is back to its header, whichever block control comes from.    *)
(***************************************************************************)
EXTENDS Integers, Sequences

CONSTANTS Var,            \* variables, parameters, the result of the function
          Locals,         \* cells of the frame below ebp before any spill
          Place,          \* Place[v]: the cell v denotes (aliases share one)
          Temp,           \* temporaries of the function ("~t1", "~ret1", ...)
          SelfAssign,     \* programs assign a variable to itself
          ComputedBounds, \* programs loop to a bound that is an expression
          MaxArgs,        \* bound on the arguments of a call
          MaxSpills,      \* bound on the cells a block spills temporaries to
          Imm, Junk, Free \* immediate operand, arbitrary bits, free register

ASSUME PlaceAssumption == Locals \in Nat /\ Place \in [Var -> 1..Locals]
ASSUME NamesAssumption ==
    /\ Var \cap Temp = {}
    /\ {Imm, Junk, Free} \cap (Var \cup Temp) = {}
    /\ Imm # Junk /\ Imm # Free /\ Junk # Free
    /\ (1..Locals) \cap (Temp \cup {Imm, Junk}) = {}
ASSUME ProgramsAssumption ==
    SelfAssign \in BOOLEAN /\ ComputedBounds \in BOOLEAN /\ MaxArgs \in Nat /\ MaxSpills \in Nat

Name == Var \cup Temp
Operand == Name \cup {Imm}

Reg == {"eax", "ecx", "edx", "esi", "edi"}       \* regs[N]; ebx is addr()'s
Rank == [eax |-> 1, ecx |-> 2, edx |-> 3, esi |-> 4, edi |-> 5]

Tok(o) == IF o \in Var THEN Place[o] ELSE o      \* the value of operand o
Contents == (1..Locals) \cup Temp \cup {Imm, Junk}

VARIABLES
    m,          \* the code generator and the machine, see below
    avail,      \* temporaries whose value is still to be read, newest last
    mul,        \* those of them a multiplication or a division has produced
    bounds,     \* temporaries the enclosing for loops end with
    args        \* arguments passed of the call being generated, else NoCall

vars == <<m, avail, mul, bounds, args>>

(***************************************************************************)
(* m.rec    the register map (used[r] of the code is m.rec[r] # Free)      *)
(* m.slot   the cell of each name the run-time environment knows, else 0   *)
(* m.dist   the distance from ebp the generator believes esp is at         *)
(* m.cpu, m.mem, m.esp   the machine that runs what has been emitted: cell *)
(*          c of mem is [ebp-4c], and esp counts cells below ebp           *)
(* m.right  every operand read so far was the current value of its name    *)
(***************************************************************************)

-------------------------------------------------------------------------------
(* The allocator.  Each operator is one member function: it takes the      *)
(* state before the call and gives the state after it.                     *)

Cached(s, n) == \E r \in Reg : s.rec[r] = n                 \* exist(n) != ""
Where(s, n) == CHOOSE r \in Reg : s.rec[r] = n              \* exist(n)

Release(s, r) == [s EXCEPT !.rec[r] = Free]

Put(f, c, v) == [x \in DOMAIN f \cup {c} |-> IF x = c THEN v ELSE f[x]]

\* Mutant of Store: the cell is recorded before the stack grows.
StoreBeforeGrowing(s, n) ==
    IF ~Cached(s, n) THEN s
    ELSE LET r == Where(s, n) IN
         IF s.slot[n] = 0
         THEN Release([s EXCEPT !.dist = @ + 1,
                                !.slot[n] = s.dist,
                                !.esp = @ + 1,
                                !.mem = Put(@, s.esp + 1, s.cpu[r])], r)
         ELSE Release([s EXCEPT !.mem = Put(@, s.slot[n], s.cpu[r])], r)

\* store(n): a temporary the environment does not know gets a new cell at the
\* top of the stack, which [esp] addresses; any other name has its cell.
Store(s, n) ==
    IF ~Cached(s, n) THEN s
    ELSE LET r == Where(s, n) IN
         IF s.slot[n] = 0
         THEN Release([s EXCEPT !.dist = @ + 1,
                                !.slot[n] = s.dist + 1,
                                !.esp = @ + 1,
                                !.mem = Put(@, s.esp + 1, s.cpu[r])], r)
         ELSE Release([s EXCEPT !.mem = Put(@, s.slot[n], s.cpu[r])], r)

Spill(s, r) == IF s.rec[r] = Free THEN s ELSE Release(Store(s, s.rec[r]), r)

SpillAll(s) == Spill(Spill(Spill(Spill(Spill(s, "eax"), "ecx"), "edx"), "esi"), "edi")

\* Mutant of Remap: the register is taken without spilling it.
RemapNoSpill(s, r, n) == [s EXCEPT !.rec[r] = n]

Remap(s, r, n) == [Spill(s, r) EXCEPT !.rec[r] = n]

\* alloc(n): the register n already has, else the first free one, else a
\* register rand() picks.
FreeRegs(s) == {r \in Reg : s.rec[r] = Free}
AllocReg(s, n, victim) ==
    IF Cached(s, n) THEN Where(s, n)
    ELSE IF FreeRegs(s) # {}
         THEN CHOOSE r \in FreeRegs(s) : \A q \in FreeRegs(s) : Rank[r] <= Rank[q]
         ELSE victim
Alloc(s, n, victim) ==
    IF Cached(s, n) THEN s ELSE Remap(s, AllocReg(s, n, victim), n)

\* mov r, [cell of n], when the environment knows n
Fetch(s, n, r) == IF s.slot[n] = 0 THEN s ELSE [s EXCEPT !.cpu[r] = s.mem[s.slot[n]]]

\* load(n)
Load(s, n, victim) ==
    IF Cached(s, n) THEN s
    ELSE Fetch(Alloc(s, n, victim), n, AllocReg(s, n, victim))

\* Mutant of LoadInto: the register the value came from is not released.
LoadIntoNoRelease(s, n, target) ==
    IF ~Cached(s, n) THEN Fetch(Remap(s, target, n), n, target)
    ELSE IF Where(s, n) = target THEN s
    ELSE LET now == Where(s, n)
             s1 == Remap(s, target, n)
         IN [s1 EXCEPT !.cpu[target] = s1.cpu[now]]

\* load(n, target): a value already in another register moves.
LoadInto(s, n, target) ==
    IF ~Cached(s, n) THEN Fetch(Remap(s, target, n), n, target)
    ELSE IF Where(s, n) = target THEN s
    ELSE LET now == Where(s, n)
             s1 == Remap(s, target, n)
         IN Release([s1 EXCEPT !.cpu[target] = s1.cpu[now]], now)

\* What the text of an operand, an immediate or locate(n), denotes.
Read(s, o) ==
    IF o = Imm THEN Imm
    ELSE IF Cached(s, o) THEN s.cpu[Where(s, o)]
    ELSE IF s.slot[o] = 0 THEN Junk
    ELSE s.mem[s.slot[o]]

-------------------------------------------------------------------------------
(* The instructions around those the allocator emits.                      *)

\* An instruction reads operand o, or register r as the value of o.
See(s, o) == [s EXCEPT !.right = @ /\ Read(s, o) = Tok(o)]
SeeIn(s, o, r) == [s EXCEPT !.right = @ /\ (o = Imm \/ s.cpu[r] = Tok(o))]
ToReg(s, o, r) == IF o = Imm THEN s ELSE LoadInto(s, o, r)

Trash(s, r) == [s EXCEPT !.cpu[r] = Junk]

Fade(f, stale) == [x \in DOMAIN f |-> IF f[x] \in stale THEN Junk ELSE f[x]]

\* n has a new value, in register r: the old one is worth nothing wherever it
\* still is.
Define(s, n, r) ==
    [s EXCEPT !.cpu = [Fade(@, {Tok(n)}) EXCEPT ![r] = Tok(n)],
              !.mem = Fade(@, {Tok(n)})]

\* A callee runs: it overwrites the registers and what lies beyond esp, and
\* gives the variables of W new values.
CallOut(s, W) ==
    LET places == {Place[v] : v \in W}
    IN [s EXCEPT !.cpu = [r \in Reg |-> Junk],
                 !.mem = [c \in DOMAIN @ |-> IF c \in places THEN c
                                             ELSE IF c > s.esp \/ @[c] \in places THEN Junk
                                             ELSE @[c]]]

Push(s, k) == [s EXCEPT !.esp = @ + k]
Pop(s, k) == [s EXCEPT !.esp = @ - k]

\* Between two quadruples a register no name owns holds anything.  The code has
\* a new name for every temporary and its environment never forgets one; here a
\* name is reused once no quadruple mentions it and no register has it.  live
\* are the temporaries that quadruples still mention.
Settle(s, live) ==
    LET dead == {t \in Temp \ live : ~Cached(s, t)}
    IN [s EXCEPT !.cpu = [r \in Reg |-> IF s.rec[r] = Free THEN Junk ELSE @[r]],
                 !.mem = Fade(@, dead),
                 !.slot = [n \in Name |-> IF n \in dead THEN 0 ELSE @[n]]]

-------------------------------------------------------------------------------
(* The quadruples, one operator for each branch of pl0_x86_gen_common.     *)

\* Mutant of GenMove: the variable stays in its register, dirty.
GenMoveNoSpill(s, d, a, victim) ==
    LET s1 == See(Alloc(s, d, victim), a)
    IN Define(s1, d, Where(s1, d))

\* = d a
GenMove(s, d, a, victim) ==
    LET s1 == See(Alloc(s, d, victim), a)
        rd == Where(s1, d)
    IN Spill(Define(s1, d, rd), rd)

\* []= array i a
GenStoreElem(s, i, a) ==
    LET s1 == ToReg(ToReg(s, i, "edi"), a, "esi")
    IN SeeIn(SeeIn(s1, i, "edi"), a, "esi")

\* =[] d array i
GenLoadElem(s, d, i) ==
    LET s1 == ToReg(LoadInto(s, d, "esi"), i, "edi")
    IN Spill(Define(SeeIn(s1, i, "edi"), d, "esi"), "esi")

\* + d a b, - d a b: d is overwritten by one operand before the other is read,
\* unless it is an operand itself; x - x reads nothing.
GenAddSub(s, op, d, a, b, victim) ==
    LET s1 == Load(s, d, victim)
        rd == Where(s1, d)
        first == IF op = "+" /\ a = Imm THEN b ELSE a
        second == IF first = a THEN b ELSE a
        s2 == IF op = "-" /\ a = b THEN s1
              ELSE IF d \in {a, b} THEN See(See(s1, a), b)
              ELSE See(Trash(See(s1, first), rd), second)
    IN Define(s2, d, rd)

\* Mutant of GenMul: imul overwrites edx, which is not spilled.
GenMulKeepEdx(s, d, a, b) ==
    LET s1 == See(Spill(s, "eax"), a)
        s2 == See(Trash(s1, "eax"), b)
    IN Define(Remap(Trash(s2, "edx"), "eax", d), d, "eax")

\* * d a b
GenMul(s, d, a, b) ==
    LET s1 == See(Spill(Spill(s, "eax"), "edx"), a)
        s2 == See(Trash(s1, "eax"), b)
    IN Define(Remap(Trash(s2, "edx"), "eax", d), d, "eax")

\* / d a b and % d a b: the quotient is left in eax, the remainder in edx.
GenDivMod(s, d, a, b, result) ==
    LET s1 == Trash(Spill(Spill(Spill(s, "eax"), "ecx"), "edx"), "edx")
        s2 == ToReg(Trash(See(s1, a), "eax"), b, "ecx")
        s3 == Trash(Trash(SeeIn(s2, b, "ecx"), "eax"), "edx")
    IN Define(Remap(s3, result, d), d, result)

\* read v: scanf gets the address of v.
GenRead(s, v) == Pop(CallOut(Push(Store(SpillAll(s), v), 2), {v}), 2)

\* write_e a, and write_s when a is immediate
GenWrite(s, a) == Pop(CallOut(Push(See(SpillAll(s), a), 2), {}), 2)

\* call: an argument by value is pushed unless a register has it; one by
\* reference pushes the address of a variable, or of element a of an array.
GenByValue(s, a) == IF a # Imm /\ Cached(s, a) THEN s ELSE Push(See(s, a), 1)
GenByRef(s, v) == Push(Store(s, v), 1)
GenElemByRef(s, a) ==
    LET s1 == ToReg(s, a, "edi")
    IN Push(SeeIn(IF a = Imm THEN s1 ELSE Release(s1, "edi"), a, "edi"), 1)
\* Mutant of GenCall: the callee has popped the arguments already.
GenCallPopTwice(s, W, ret, n) ==
    LET s1 == CallOut(s, W)
    IN Pop(IF ret = Imm THEN s1 ELSE Define(Remap(s1, "eax", ret), ret, "eax"), 2 * n)

GenCall(s, W, ret, n) ==
    LET s1 == CallOut(s, W)
    IN Pop(IF ret = Imm THEN s1 ELSE Define(Remap(s1, "eax", ret), ret, "eax"), n)

\* cmp a b, then the goto that tests it; old.back() is the depth at the label
\* the block starts with.
Old == Locals
\* Mutant of Rewind: dist is reset without the add esp.
RewindNoAdd(s) == [s EXCEPT !.dist = Old]
Rewind(s) == [s EXCEPT !.dist = Old, !.esp = @ - (s.dist - Old)]
GenCmp(s, a, b) ==
    LET s1 == ToReg(SpillAll(s), a, "esi")
        s2 == ToReg(IF a = Imm THEN s1 ELSE Release(s1, "esi"), b, "edi")
        s3 == IF b = Imm THEN s2 ELSE Release(s2, "edi")
    IN Rewind(SeeIn(SeeIn(s3, a, "esi"), b, "edi"))
GenGoto(s) == Rewind(SpillAll(s))

\* loadret: the result of the function is read from its cell.
GenLoadRet(s, v) ==
    LET s1 == SpillAll(s)
    IN [s1 EXCEPT !.right = @ /\ s1.mem[s1.slot[v]] = Tok(v)]

Header(right) ==
    [rec   |-> [r \in Reg |-> Free],
     slot  |-> [n \in Name |-> IF n \in Var THEN Place[n] ELSE 0],
     dist  |-> Locals,
     cpu   |-> [r \in Reg |-> Junk],
     mem   |-> [c \in 1..Locals+MaxSpills+5 |-> IF c <= Locals THEN c ELSE Junk],
     esp   |-> Locals,
     right |-> right]

-------------------------------------------------------------------------------
(* The programs: what order pl0_tac_gen.cpp can emit quadruples in.  A     *)
(* temporary is read once after it is defined, within its basic block,     *)
(* except that sums and products accumulate in one ("+ t t x", "* t t x")  *)
(* and that the index of an element passed by reference is read again.     *)
NoCall == -1

Init ==
    /\ m = Header(TRUE)
    /\ avail = <<>> /\ mul = {} /\ bounds = {}
    /\ args = NoCall

Live(stack) == {stack[i] : i \in 1..Len(stack)}

\* The operands of the next quadruple: a variable, an immediate, or the newest
\* temporary; and the temporaries left when o is read for the last time.
Top(stack) == Var \cup {Imm} \cup (IF stack = <<>> THEN {} ELSE {stack[Len(stack)]})
Take(stack, o) == IF o \in Temp THEN SubSeq(stack, 1, Len(stack) - 1) ELSE stack

\* The destinations of a quadruple whose first operand is a: a new temporary,
\* or a itself when it is one of acc, which accumulate.
Unused == {t \in Temp \ (Live(avail) \cup bounds) : ~Cached(m, t)}
Fresh == CHOOSE t \in Unused : TRUE
Destinations(a, acc) == (IF Unused = {} THEN {} ELSE {Fresh}) \cup ({a} \cap acc)

\* rand() matters only when no register is free.
Victims == IF FreeRegs(m) = {} THEN Reg ELSE {"eax"}

\* A quadruple leaves the code in state s, the temporaries of stack to read,
\* and those of products to accumulate in.
Quad(s, stack, products) ==
    /\ m' = Settle(s, Live(stack) \cup bounds)
    /\ m'.dist <= Locals + MaxSpills
    /\ avail' = stack
    /\ mul' = products \cap Live(stack)
    /\ UNCHANGED bounds

Idle == args = NoCall /\ UNCHANGED args

\* The value of an element passed by reference is not read, but its index is
\* read again.
LoadElem(byRef) ==
    /\ Idle /\ Unused # {}
    /\ \E i \in Top(avail) :
         Quad(GenLoadElem(m, Fresh, i),
              IF byRef THEN avail ELSE Append(Take(avail, i), Fresh), mul \ {i})

AddSub(op) ==
    /\ Idle
    /\ \E b \in Top(avail) : \E a \in Top(Take(avail, b)) :
         \E d \in Destinations(a, Temp), victim \in Victims :
           Quad(GenAddSub(m, op, d, a, b, victim),
                Append(Take(Take(avail, b), a), d), mul \ {d})

MulDivMod(op) ==
    /\ Idle
    /\ \E b \in Top(avail) : \E a \in Top(Take(avail, b)) :
         \E d \in Destinations(a, mul) :
           Quad(CASE op = "*" -> GenMul(m, d, a, b)
                  [] op = "/" -> GenDivMod(m, d, a, b, "eax")
                  [] op = "%" -> GenDivMod(m, d, a, b, "edx"),
                Append(Take(Take(avail, b), a), d), mul \cup {d})

\* One call quadruple: spillAll(), the arguments one by one, and the rest.
BeginCall ==
    /\ args = NoCall /\ args' = 0
    /\ Quad(SpillAll(m), avail, mul)
PassArg(kind) ==
    /\ args \in 0..MaxArgs-1 /\ args' = args + 1
    /\ \E a \in IF kind = "ref" THEN Var ELSE Top(avail) :
         Quad(CASE kind = "value" -> GenByValue(m, a)
                [] kind = "ref"   -> GenByRef(m, a)
                [] kind = "elem"  -> GenElemByRef(m, a), Take(avail, a), mul)
CallFunction(W) ==
    /\ args # NoCall /\ args' = NoCall
    /\ Unused # {}
    /\ Quad(GenCall(m, W, Fresh, args), Append(avail, Fresh), mul)
CallProcedure(W) ==
    /\ args # NoCall /\ args' = NoCall
    /\ avail = <<>>
    /\ Quad(GenCall(m, W, Imm, args), <<>>, mul)

\* The other quadruples end a statement: no temporary is left but the operands
\* they read.  One is the operands of those with one, Two of those with two.
One(stack) == {a \in Top(stack) : Take(stack, a) = <<>>}
Two == {ab \in (Var \cup {Imm} \cup Live(avail)) \X Top(avail) : ab[1] \in One(Take(avail, ab[2]))}

Move(d) ==
    /\ Idle
    /\ \E a \in One(avail), victim \in Victims :
         /\ a = d => SelfAssign
         /\ Quad(GenMove(m, d, a, victim), <<>>, {})

\* The value is computed before the index.
StoreElem ==
    /\ Idle
    /\ \E ai \in Two : Quad(GenStoreElem(m, ai[2], ai[1]), <<>>, {})

ReadVar(v) == Idle /\ avail = <<>> /\ Quad(GenRead(m, v), <<>>, {})

Write == Idle /\ \E a \in One(avail) : Quad(GenWrite(m, a), <<>>, {})

\* A block ends in state s; the next one starts with a label.  Only the bounds
\* of the loops around it are mentioned again.
NewBlock(s, ends) ==
    /\ m' = Settle(s, ends)
    /\ avail' = <<>> /\ mul' = {} /\ bounds' = ends

Branch == Idle /\ \E ab \in Two : NewBlock(GenGoto(GenCmp(m, ab[1], ab[2])), bounds)
Jump == Idle /\ avail = <<>> /\ NewBlock(GenGoto(m), bounds)

\* for v := a to b: the comparison that skips the loop, then in the block it
\* guards a copy of b when b is a temporary, and the first value of v.
ForEnter(v, copy) ==
    /\ Idle /\ v # copy
    /\ \E ab \in Two :
         LET a == ab[1]
             b == ab[2]
             s1 == GenGoto(GenCmp(m, a, b))
             s2 == IF b \in Temp THEN GenMove(s1, copy, b, "eax") ELSE s1
         IN /\ a # v
            /\ b \in Temp => ComputedBounds
            /\ NewBlock(GenGoto(GenMove(s2, v, a, "eax")), bounds \cup ({b} \cap Temp))

\* The end of the body: + v v step.
ForStep(v) ==
    /\ Idle /\ avail = <<>>
    /\ \E victim \in Victims :
         NewBlock(GenGoto(GenAddSub(m, "+", v, v, Imm, victim)), bounds)

\* After the loop v gets b itself, not the copy.  Loops that end with a
\* variable or an immediate are not recorded.
ForExit(v) ==
    /\ Idle /\ avail = <<>>
    /\ \E b \in bounds \cup (Var \ {v}) \cup {Imm} :
         NewBlock(GenGoto(GenMove(m, v, b, "eax")), bounds \ {b})

\* loadret (of a function) and endproc, then the header of another function.
Return(v) ==
    /\ Idle /\ avail = <<>>
    /\ m' = Header(IF v = Imm THEN m.right ELSE GenLoadRet(m, v).right)
    /\ avail' = <<>> /\ mul' = {} /\ bounds' = {}

Next ==
    \/ \E byRef \in BOOLEAN : LoadElem(byRef)
    \/ \E op \in {"+", "-"} : AddSub(op)
    \/ \E op \in {"*", "/", "%"} : MulDivMod(op)
    \/ BeginCall
    \/ \E kind \in {"value", "ref", "elem"} : PassArg(kind)
    \/ \E W \in SUBSET Var : CallFunction(W) \/ CallProcedure(W)
    \/ \E d \in Var : Move(d)
    \/ StoreElem
    \/ \E v \in Var : ReadVar(v)
    \/ Write
    \/ Branch
    \/ Jump
    \/ \E v, copy \in Var : ForEnter(v, copy)
    \/ \E v \in Var : ForStep(v)
    \/ \E v \in Var : ForExit(v)
    \/ \E v \in Var \cup {Imm} : Return(v)

Spec == Init /\ [][Next]_vars

-------------------------------------------------------------------------------
TypeOK ==
    /\ m.rec \in [Reg -> Name \cup {Free}]
    /\ m.slot \in [Name -> Nat]
    /\ m.cpu \in [Reg -> Contents]
    /\ DOMAIN m.mem \subseteq Nat /\ \A c \in DOMAIN m.mem : m.mem[c] \in Contents
    /\ m.dist \in Nat /\ m.esp \in Nat /\ m.right \in BOOLEAN
    /\ avail \in Seq(Temp) /\ mul \subseteq Live(avail) /\ bounds \subseteq Temp
    /\ args \in {NoCall} \cup 0..MaxArgs

\* exist() answers one register for a name: the map never gives two registers
\* to one name, so that a value is never updated in one and read in the other.
OneRegisterPerName ==
    \A q, r \in Reg : m.rec[q] = m.rec[r] /\ m.rec[q] # Free => q = r

\* Wherever locate() sends an instruction for a variable or for a temporary
\* still to be read, the current value of that name is there.
Coherent == \A n \in Var \cup Live(avail) : Read(m, n) = Tok(n)

\* The memory of a variable is current between quadruples: nested functions,
\* pointers to it and the other side of a branch read it there.  A register
\* may hold a copy of a variable, never the only current value.
VariablesInMemory == \A v \in Var : m.mem[m.slot[v]] = Tok(v)

\* The cells of the temporaries still to be read lie between the header of the
\* frame and esp, and no two of them share a cell.
TemporariesApart ==
    \A t \in Live(avail) : m.slot[t] # 0 =>
        /\ m.slot[t] \in Locals+1..m.esp
        /\ \A u \in Live(avail) : m.slot[u] = m.slot[t] => u = t

\* esp is where the generator believes it is, so the sub, add and pushes of
\* temporaries, arguments and branches always balance.
EspMatchesDist == m.esp = m.dist + (IF args = NoCall THEN 0 ELSE args)

\* Every operand of every quadruple is read as the value it should have.
OperandsRight == m.right
===============================================================================
