------------------------------- MODULE MCPL0Env -------------------------------
(***************************************************************************)
(* Three identifiers, one of them also the last part of a qualified        *)
(* procedure name, in a table of at most four records and three scopes:    *)
(* enough for a name declared twice, shadowed twice and seen through a     *)
(* qualified name.                                                         *)
(***************************************************************************)
EXTENDS PL0Env

MCName == {"x", "p", "_p_x"}
MCLast == [n \in MCName |-> IF n = "_p_x" THEN "x" ELSE n]
MCData == {1, 2}
===============================================================================
