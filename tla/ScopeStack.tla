------------------------------ MODULE ScopeStack ------------------------------
(***************************************************************************)
(* What a block-structured symbol table promises, without the flat vector  *)
(* and the tag stack that pl0_env uses to keep it: a stack of scopes, each *)
(* the list of the entries declared in it, where leaving a scope restores  *)
(* exactly what was visible before it was entered.                         *)
(***************************************************************************)
EXTENDS Naturals, Sequences

CONSTANTS Entry,        \* the symbol-table records
          MaxEntries,   \* bound on the number of live entries
          MaxDepth      \* bound on the number of open scopes above the first

VARIABLE scopes         \* the open scopes, innermost last

Scopes == Seq(Seq(Entry))

Init == scopes = << <<>> >>

Enter ==
    /\ Len(scopes) <= MaxDepth
    /\ scopes' = Append(scopes, <<>>)

\* An entry is declared in the innermost scope.
Declare(e) ==
    scopes' = [scopes EXCEPT ![Len(scopes)] = Append(@, e)]

\* The innermost scope disappears with everything declared in it.
Leave ==
    /\ Len(scopes) > 1
    /\ scopes' = SubSeq(scopes, 1, Len(scopes) - 1)

Next == Enter \/ Leave \/ \E e \in Entry : Declare(e)

Spec == Init /\ [][Next]_scopes
===============================================================================
