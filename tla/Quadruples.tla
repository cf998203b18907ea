------------------------------ MODULE Quadruples ------------------------------
(***************************************************************************)
(* What the quadruples of a basic block mean.  A value is the expression   *)
(* that computes it, over the values the names have when the block starts, *)
(* so that two blocks have the same effect when they leave every name the  *)
(* same expression and print and read the same in the same order.          *)
(***************************************************************************)
EXTENDS Naturals, Sequences, FiniteSets

CONSTANTS Name,     \* variables and temporaries
          Array,    \* arrays
          Zero      \* the immediate 0

ASSUME QuadruplesAssumption == Name \cap Array = {} /\ Zero \notin Name \cup Array

Value == Name \cup Array \cup {Zero}

\* A quadruple: operator, destination, and operands (Zero when it has none);
\* no tells the inputs and outputs of a block apart.
Quad(op, d, a, b, no) == [op |-> op, d |-> d, a |-> a, b |-> b, no |-> no]

\* The machine before the block: val are the values of the names, io what has
\* been read and written.
Start == [val |-> [n \in Value |-> <<"initially", n>>], io |-> <<>>]

Inputs(s) == Cardinality({i \in DOMAIN s.io : s.io[i][1] = "in"})

\* The machine after one quadruple.
Exec(s, q) ==
    CASE q.op = "="   -> [s EXCEPT !.val[q.d] = s.val[q.a]]
      [] q.op = "=[]" -> [s EXCEPT !.val[q.d] = <<"element", s.val[q.a], s.val[q.b]>>]
      [] q.op = "[]=" -> [s EXCEPT !.val[q.d] = <<"store", @, s.val[q.a], s.val[q.b]>>]
      [] q.op = "read" -> [s EXCEPT !.val[q.d] = <<"input", Inputs(s) + 1>>,
                                    !.io = Append(@, <<"in", q.no>>)]
      [] q.op = "write_e" -> [s EXCEPT !.io = Append(@, <<"out", q.no, s.val[q.d]>>)]
      [] q.op = "write_s" -> [s EXCEPT !.io = Append(@, <<"text", q.no>>)]
      [] OTHER -> [s EXCEPT !.val[q.d] = <<q.op, s.val[q.a], s.val[q.b]>>]

\* The machine after the quadruples qs, one after the other.
Run(s, qs) ==
    LET at[i \in 0..Len(qs)] == IF i = 0 THEN s ELSE Exec(at[i - 1], qs[i])
    IN at[Len(qs)]
===============================================================================
