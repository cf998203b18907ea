------------------------------ MODULE MCRegAlloc ------------------------------
(***************************************************************************)
(* Two variables and four temporaries for five registers: enough to fill   *)
(* the registers and evict.  Temporaries are interchangeable; Fresh picks  *)
(* one of those that nothing mentions, which the symmetry identifies.      *)
(***************************************************************************)
EXTENDS RegAlloc, TLC

CONSTANTS x, y, t1, t2, t3, t4

MCVar == {x, y}
MCTemp == {t1, t2, t3, t4}
MCPlace == [v \in MCVar |-> IF v = x THEN 1 ELSE 2]
MCSymmetry == Permutations(MCTemp)
===============================================================================
