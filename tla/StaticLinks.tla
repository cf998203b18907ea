----------------------------- MODULE StaticLinks -----------------------------
(***************************************************************************)
(* What nested functions mean, whatever code implements them: an activation*)
(* is linked to the activation of the enclosing function it was called in, *)
(* and a name denotes the storage in the activation of the function that   *)
(* declares it, found by following the links.                              *)
(***************************************************************************)
EXTENDS Naturals, Sequences

CONSTANTS Fn,           \* functions and procedures of the program
          Main,         \* the main program
          Parent,       \* Parent[f]: the function f is declared in
          Scope,        \* Scope[f]: f and the functions it is nested in
          MaxFrames     \* bound on the number of activations

VARIABLES acts,         \* the activations, newest last: function, link to the
                        \* enclosing activation, activation whose variable the
                        \* reference parameter stands for
          hit           \* the last name used, and the activation whose
                        \* variable it denoted

avars == <<acts, hit>>

Top == Len(acts)

\* p is reached from i by following links.
OnChain(p, i) ==
    \E n \in 1..Top : \E path \in [1..n -> 1..Top] :
        /\ path[1] = i /\ path[n] = p
        /\ \A j \in 1..n-1 : acts[path[j]].up = path[j + 1]

\* The storage the variable, or the reference parameter, of h denotes in the
\* newest activation.
Denotes(h, kind, r) ==
    \E p \in 1..Top :
        /\ acts[p].fn = h /\ OnChain(p, Top)
        /\ r = IF kind = "var" THEN p ELSE acts[p].ref

Init ==
    /\ acts = <<[fn |-> Main, up |-> 0, ref |-> 0]>>
    /\ hit = [fn |-> Main, kind |-> "var", at |-> 1]

\* Call g, declared in a function of the caller's scope, with the variable or
\* reference parameter of h as the argument by reference.
Call(g, h, kind) ==
    /\ g # Main /\ Top < MaxFrames
    /\ {Parent[g], h} \subseteq Scope[acts[Top].fn]
    /\ \E p \in 1..Top, r \in 0..Top :
         /\ acts[p].fn = Parent[g] /\ OnChain(p, Top)
         /\ Denotes(h, kind, r)
         /\ acts' = Append(acts, [fn |-> g, up |-> p, ref |-> r])
         /\ hit' = [fn |-> h, kind |-> kind, at |-> r]

Return ==
    /\ Top > 1
    /\ acts' = SubSeq(acts, 1, Top - 1)
    /\ UNCHANGED hit

Access(h, kind) ==
    /\ h \in Scope[acts[Top].fn]
    /\ \E r \in 0..Top :
         /\ Denotes(h, kind, r)
         /\ hit' = [fn |-> h, kind |-> kind, at |-> r]
    /\ UNCHANGED acts

Next ==
    \/ \E g, h \in Fn, kind \in {"var", "ref"} : Call(g, h, kind)
    \/ Return
    \/ \E h \in Fn, kind \in {"var", "ref"} : Access(h, kind)

Spec == Init /\ [][Next]_avars
===============================================================================
