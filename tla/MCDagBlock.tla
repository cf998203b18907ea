------------------------------ MODULE MCDagBlock ------------------------------
(***************************************************************************)
(* Blocks of a few quadruples over interchangeable names.                  *)
(***************************************************************************)
EXTENDS DagBlock

CONSTANTS x, y, z

\* Every block of three quadruples, and those of four in which values read are
\* computed with.
MCShapes == {[kinds |-> {"move", "op", "load", "store", "read", "write", "text"}, len |-> 3],
             [kinds |-> {"op", "read"}, len |-> 4]}
ReadShapes == {[kinds |-> {"read"}, len |-> 4]}

MCThree == {x, y, z}
MCTwo == {x, y}
MCSymmetry == Permutations(Name)
===============================================================================
