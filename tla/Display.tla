------------------------------- MODULE Display -------------------------------
(***************************************************************************)
(* The run-time stack of the code pl0_x86_gen emits: the display a function*)
(* prologue builds, and the addresses addr() computes through it.  Frames  *)
(* are numbered from the bottom of the stack; the number of a frame is its *)
(* ebp.  Each function has one variable and one parameter by reference,    *)
(* whose cell holds the address it was given: the number of the frame the  *)
(* argument lives in.  Main's parameter cell is never given one.           *)
(***************************************************************************)
EXTENDS Integers, Sequences

CONSTANTS Fn,           \* functions and procedures of the program
          Main,         \* the main program
          Parent,       \* Parent[f]: the function f is declared in
          Scope,        \* Scope[f]: f and the functions it is nested in
          Level,        \* runtime.depth() while f is compiled
          OuterRefs,    \* nested functions use a reference parameter of a
                        \* function around them
          Wild,         \* an address no frame has
          MaxFrames     \* bound on the number of frames

ASSUME NestingAssumption ==
    /\ Main \in Fn
    /\ Parent \in [Fn -> Fn]
    /\ Scope \in [Fn -> SUBSET Fn]
    /\ Scope[Main] = {Main}
    /\ \A f \in Fn \ {Main} : Scope[f] = {f} \cup Scope[Parent[f]]
ASSUME LevelAssumption ==
    /\ Level \in [Fn -> Nat \ {0}]
    /\ Level[Main] = 1
    /\ \A f \in Fn \ {Main} : Level[f] = Level[Parent[f]] + 1
ASSUME OtherAssumption ==
    /\ OuterRefs \in BOOLEAN /\ MaxFrames \in Nat \ {0} /\ Wild \notin Nat

VARIABLES frames,       \* function, display, and cell of the reference parameter
          hit           \* the last name used, and the address it was used at

vars == <<frames, hit>>

Address == Nat \cup {Wild}
Ebp == Len(frames)      \* frame pointer of the running function
Here == frames[Ebp]

-------------------------------------------------------------------------------
\* addr(): a name of the running function is addressed from ebp, a name of a
\* function around it from entry d of the display.  A reference parameter is
\* dereferenced; for one of an outer function the offset of its cell is then
\* added to the address once more.  (The first two forms are the mutants of
\* Addr: no dereference; the offset added once more for variables too.)
AddrNoDeref(h, kind) == IF h = Here.fn THEN Ebp ELSE Here.disp[Level[h]]

AddrOffsetTwice(h, kind) ==
    IF h # Here.fn THEN Wild ELSE IF kind = "var" THEN Ebp ELSE Here.ref

Addr(h, kind) ==
    IF h = Here.fn
    THEN IF kind = "var" THEN Ebp ELSE Here.ref
    ELSE LET ebx == Here.disp[Level[h]]
         IN IF kind = "var" THEN ebx ELSE Wild

\* The prologue of g: the entries below its own level are copied from the
\* display of the caller, its own is its ebp.
\* (Mutants: the loop starts at the saved ebp; the caller's ebp is pushed last.)
PrologueFromSavedEbp(g) ==
    [k \in 1..Level[g] |->
        IF k = Level[g] THEN Ebp + 1 ELSE IF k = 1 THEN Ebp - 1 ELSE Here.disp[k - 1]]

PrologueCallerLast(g) ==
    [k \in 1..Level[g] |-> IF k < Level[g] THEN Here.disp[k] ELSE Ebp]

Prologue(g) ==
    [k \in 1..Level[g] |-> IF k < Level[g] THEN Here.disp[k] ELSE Ebp + 1]

\* The names a program uses.
Names == {n \in Scope[Here.fn] \X {"var", "ref"} :
            n[2] = "ref" => n[1] # Main /\ (n[1] = Here.fn \/ OuterRefs)}

Init ==
    /\ frames = <<[fn |-> Main, disp |-> <<1>>, ref |-> 0]>>
    /\ hit = [fn |-> Main, kind |-> "var", at |-> 1]

\* call g with one argument by reference, up to the end of g's prologue
Call(g, h, kind) ==
    /\ g # Main /\ Ebp < MaxFrames
    /\ Parent[g] \in Scope[Here.fn] /\ <<h, kind>> \in Names
    /\ frames' = Append(frames, [fn |-> g, disp |-> Prologue(g), ref |-> Addr(h, kind)])
    /\ hit' = [fn |-> h, kind |-> kind, at |-> Addr(h, kind)]

\* leave, ret
Return ==
    /\ Ebp > 1
    /\ frames' = SubSeq(frames, 1, Ebp - 1)
    /\ UNCHANGED hit

\* Any instruction that reads or writes the name.
Access(h, kind) ==
    /\ <<h, kind>> \in Names
    /\ hit' = [fn |-> h, kind |-> kind, at |-> Addr(h, kind)]
    /\ UNCHANGED frames

Next ==
    \/ \E g, h \in Fn, kind \in {"var", "ref"} : Call(g, h, kind)
    \/ Return
    \/ \E h \in Fn, kind \in {"var", "ref"} : Access(h, kind)

Spec == Init /\ [][Next]_vars

-------------------------------------------------------------------------------
TypeOK ==
    /\ frames \in Seq([fn : Fn, disp : Seq(Nat \ {0}), ref : Address])
    /\ hit \in [fn : Fn, kind : {"var", "ref"}, at : Address]

\* Entry k of the display of a frame is the frame of the function at level k
\* around it, and that frame has the same entries up to k: every function sees
\* the same frames as the functions it is nested in.
DisplayRight ==
    \A i \in 1..Len(frames) :
        LET f == frames[i].fn
            disp == frames[i].disp
        IN /\ Len(disp) = Level[f] /\ disp[Level[f]] = i
           /\ \A k \in 1..Level[f] :
                /\ disp[k] \in k..i
                /\ Len(frames[disp[k]].disp) = k
                /\ \A j \in 1..k : frames[disp[k]].disp[j] = disp[j]
           /\ \A h \in Scope[f] : Level[h] <= Level[f] /\ frames[disp[Level[h]]].fn = h

\* A reference parameter holds the address of a variable of an older frame that
\* is still on the stack, so no return leaves it dangling.
ReferencesAlive ==
    \A i \in 2..Len(frames) : frames[i].ref \in 1..i-1

\* The display replaces the static links.
Links ==
    [i \in 1..Len(frames) |->
        [fn  |-> frames[i].fn,
         up  |-> IF Level[frames[i].fn] = 1 THEN 0
                 ELSE frames[i].disp[Level[frames[i].fn] - 1],
         ref |-> frames[i].ref]]

Abstract == INSTANCE StaticLinks WITH acts <- Links

\* Every call links the callee to the right enclosing activation, and every
\* access and every argument by reference reaches the storage the name denotes.
ImplementsStaticLinks == Abstract!Spec
===============================================================================
