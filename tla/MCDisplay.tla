------------------------------ MODULE MCDisplay ------------------------------
(***************************************************************************)
(* Main declares f and k; f declares g; g declares h.  Calls go down one   *)
(* level, sideways, up one, two or three levels, and recurse.              *)
(***************************************************************************)
EXTENDS Display

MCFn == {"main", "f", "g", "h", "k"}
MCParent == [main |-> "main", f |-> "main", k |-> "main", g |-> "f", h |-> "g"]
MCScope == [main |-> {"main"}, f |-> {"main", "f"}, k |-> {"main", "k"},
            g |-> {"main", "f", "g"}, h |-> {"main", "f", "g", "h"}]
MCLevel == [main |-> 1, f |-> 2, k |-> 2, g |-> 3, h |-> 4]
===============================================================================
