------------------------------- MODULE DagBlock -------------------------------
(***************************************************************************)
(* BasicBlock::DAGPass: the quadruples of a block are turned into a graph  *)
(* in which equal operations on equal operands share a node (buildDAG),    *)
(* the nodes are put in an order (solveDAG), and the graph is exported as  *)
(* quadruples again (trans).  Beside it run two machines: before executes  *)
(* the block as it was, after the block that is exported.                  *)
(***************************************************************************)
EXTENDS Quadruples, SequencesExt

CONSTANTS Op,       \* the arithmetic operators
          Shapes    \* bounds on blocks: a block of a shape has statements of
                    \* shape.kinds and at most shape.len quadruples

ASSUME BlockAssumption ==
    /\ Op \cap {"leaf", "=", "=[]", "[]=", "read", "write_e", "write_s"} = {}
    /\ \A s \in Shapes : s.len \in Nat

VARIABLES
    phase,      \* "build", "order", "export"
    shape,      \* the bounds on this block
    graph,      \* G, record and IOBuf, see below
    len,        \* quadruples of the block so far
    seen,       \* names they mention
    rebound,    \* one of them gave a name mentioned before it a new value
    shared,     \* one of them was given the node of an earlier one
    nodes,      \* t_nodes: the nodes not ordered yet, with their fathers
    stack,      \* the nodes ordered
    before,     \* the machine after the block
    after       \* the machine after what has been exported

vars == <<phase, shape, graph, len, seen, rebound, shared, nodes, stack, before, after>>

(***************************************************************************)
(* graph.G       the nodes: operator ("leaf" for a leaf), operand nodes (0 *)
(*               for none), number of fathers, the value the node is named *)
(*               after and the values it stands for.  The second operand   *)
(*               of a read or a write is its position in the block.        *)
(* graph.record  the node of each name and immediate mentioned             *)
(* graph.IOBuf   positions of the strings to print                         *)
(* A Value* of the code is a name and the position of the quadruple that   *)
(* mentions it.                                                            *)
(***************************************************************************)
Ptr(n, p) == [name |-> n, at |-> p]

Node(op, item, l, r) == [op |-> op, item |-> item, items |-> <<>>, lhs |-> l, rhs |-> r, fa |-> 0]
Leaf(node) == node.op = "leaf"

-------------------------------------------------------------------------------
(* The graph.  Each operator takes the graph before the call and gives the *)
(* graph after it.                                                         *)

\* findNode(v): the node of v, and the graph with it.
Find(g, v) == IF v.name \in DOMAIN g.record THEN g.record[v.name] ELSE Len(g.G) + 1
WithNode(g, v) ==
    IF v.name \in DOMAIN g.record THEN g ELSE [g EXCEPT !.G = Append(@, Node("leaf", v, 0, 0))]

\* A list of values without those named n.  (A function, not SelectSeq, which
\* the prover cannot open.)
Without(items, n) ==
    LET kept[i \in 0..Len(items)] ==
            IF i = 0 THEN <<>>
            ELSE IF items[i].name = n THEN kept[i - 1] ELSE Append(kept[i - 1], items[i])
    IN kept[Len(items)]

\* setMap(v, n): v is taken from the node it had and given to n.
\* (Mutant: v is not taken from the node it had.)
SetMapKeep(g, v, n) ==
    IF v.name \in DOMAIN g.record /\ g.record[v.name] = n THEN g
    ELSE [g EXCEPT !.record = [x \in DOMAIN @ \cup {v.name} |-> IF x = v.name THEN n ELSE @[x]],
                   !.G = [@ EXCEPT ![n].items = Append(@, v)]]

SetMap(g, v, n) ==
    IF v.name \in DOMAIN g.record /\ g.record[v.name] = n THEN g
    ELSE [g EXCEPT
            !.record = [x \in DOMAIN @ \cup {v.name} |-> IF x = v.name THEN n ELSE @[x]],
            !.G = [k \in DOMAIN @ |->
                LET kept == IF v.name \in DOMAIN g.record /\ g.record[v.name] = k
                            THEN Without(@[k].items, v.name)
                            ELSE @[k].items
                IN [@[k] EXCEPT !.items = IF k = n THEN Append(kept, v) ELSE kept]]]

\* An operand is found and recorded.
Use(g, v) == SetMap(WithNode(g, v), v, Find(g, v))

AddFather(G, k) == [G EXCEPT ![k].fa = @ + 1]

\* findNode(op, v, l, r): the first node with this operation, else a new one.
\* (Mutant: the second operand is not compared.)
SameLeft(g, op, l, r) == {k \in DOMAIN g.G : g.G[k].op = op /\ g.G[k].lhs = l}

Same(g, op, l, r) == {k \in DOMAIN g.G : g.G[k].op = op /\ g.G[k].lhs = l /\ g.G[k].rhs = r}
FindOp(g, op, l, r) ==
    IF Same(g, op, l, r) = {} THEN Len(g.G) + 1 ELSE Min(Same(g, op, l, r))
WithOp(g, op, v, l, r) ==
    IF Same(g, op, l, r) # {} THEN g
    ELSE [g EXCEPT !.G = AddFather(AddFather(Append(@, Node(op, v, l, r)), l), r)]

\* The branch of buildDAG for operations, array accesses and assignments.
Operation(g, q, p) ==
    LET l == Find(g, Ptr(q.a, p))
        g1 == Use(g, Ptr(q.a, p))
        r == Find(g1, Ptr(q.b, p))
        g2 == Use(g1, Ptr(q.b, p))
    IN [graph |-> SetMap(WithOp(g2, q.op, Ptr(q.d, p), l, r), Ptr(q.d, p), FindOp(g2, q.op, l, r)),
        hit |-> Same(g2, q.op, l, r) # {}]

\* The branches for read and write_e: always a new node.
\* (Mutant: the node read or written gets no father.)
InOutNoFather(g, op, v, item, p) ==
    LET g1 == WithNode(g, v) IN [g1 EXCEPT !.G = Append(@, Node(op, item, Find(g, v), p))]

InOut(g, op, v, item, p) ==
    LET k == Find(g, v)
        g1 == WithNode(g, v)
    IN [g1 EXCEPT !.G = AddFather(Append(@, Node(op, item, k, p)), k)]
ReadNode(g, v, p) == LET g1 == InOut(g, "read", v, v, p) IN SetMap(g1, v, Len(g1.G))
WriteNode(g, v, p) == InOut(g, "write_e", v, Ptr("~write_e", p), p)

-------------------------------------------------------------------------------
(* Building.                                                               *)

Empty == [G |-> <<>>, record |-> [x \in {} |-> 0], IOBuf |-> <<>>]

Init ==
    /\ phase = "build" /\ shape \in Shapes /\ graph = Empty
    /\ len = 0 /\ seen = {} /\ rebound = FALSE /\ shared = FALSE
    /\ nodes = <<>> /\ stack = <<>>
    /\ before = Start /\ after = Start

\* One iteration for each quadruple of qs, giving graph g; news says a name
\* mentioned before it has a new value, hit that a node is shared.
Add(g, qs, news, hit) ==
    /\ phase = "build" /\ len + Len(qs) <= shape.len
    /\ rebound' = (rebound \/ news) /\ shared' = (shared \/ hit)
    /\ graph' = g
    /\ len' = len + Len(qs)
    /\ seen' = seen \cup {q.d : q \in Range(qs)} \cup {q.a : q \in Range(qs)}
                    \cup {q.b : q \in Range(qs)}
    /\ before' = Run(before, qs)
    /\ UNCHANGED <<phase, shape, nodes, stack, after>>

AddOperation(op, d, a, b) ==
    LET q == Quad(op, d, a, b, len + 1)
        built == Operation(graph, q, len + 1)
    IN Add(built.graph, <<q>>, d \in seen \cup {a, b} \/ op = "[]=", built.hit)

Move == "move" \in shape.kinds /\ \E d \in Name, a \in Name \cup {Zero} : AddOperation("=", d, a, Zero)
Arithmetic == "op" \in shape.kinds /\ \E op \in Op, d, a, b \in Name : AddOperation(op, d, a, b)
LoadElem == "load" \in shape.kinds /\ \E d, i \in Name, t \in Array : AddOperation("=[]", d, t, i)
StoreElem == "store" \in shape.kinds /\ \E i, a \in Name, t \in Array : AddOperation("[]=", t, i, a)

\* A read statement: "= x 0", "read x".
ReadVar ==
    /\ "read" \in shape.kinds
    /\ \E x \in Name :
         LET q1 == Quad("=", x, Zero, Zero, len + 1)
             q2 == Quad("read", x, Zero, Zero, len + 2)
             built == Operation(graph, q1, len + 1)
         IN Add(ReadNode(built.graph, Ptr(x, len + 2), len + 2), <<q1, q2>>, TRUE, built.hit)

Write ==
    /\ "write" \in shape.kinds
    /\ \E x \in Name \cup {Zero} :
         Add(WriteNode(graph, Ptr(x, len + 1), len + 1),
             <<Quad("write_e", x, Zero, Zero, len + 1)>>, FALSE, FALSE)

WriteText ==
    /\ "text" \in shape.kinds
    /\ Add([graph EXCEPT !.IOBuf = Append(@, len + 1)],
           <<Quad("write_s", Zero, Zero, Zero, len + 1)>>, FALSE, FALSE)

\* The quadruple that ends the block is reached.
EndBuild ==
    /\ phase = "build" /\ phase' = "order"
    /\ nodes' = [k \in DOMAIN graph.G |-> [no |-> k, fa |-> graph.G[k].fa]]
    /\ UNCHANGED <<shape, graph, len, seen, rebound, shared, stack, before, after>>

-------------------------------------------------------------------------------
(* Ordering: solveDAG takes the last node without fathers, and its         *)
(* operands lose one.  They are looked up by position in what is left.     *)

LessFather(t, k) == [t EXCEPT ![k].fa = @ - 1]

Ready == {k \in DOMAIN nodes : nodes[k].fa = 0}

\* The operands lose a father each, but not the position of a read or a write.
LessFathers(t, node) ==
    IF Leaf(node) THEN t
    ELSE IF node.op \in {"read", "write_e"} THEN LessFather(t, node.lhs)
    ELSE LessFather(LessFather(t, node.lhs), node.rhs)

Pick ==
    /\ phase = "order" /\ Ready # {}
    /\ LET k == Max(Ready)
       IN /\ stack' = Append(stack, nodes[k].no)
          /\ nodes' = RemoveAt(LessFathers(nodes, graph.G[nodes[k].no]), k)
    /\ UNCHANGED <<phase, shape, graph, len, seen, rebound, shared, before, after>>

\* No node left, or a circle found.
EndOrder ==
    /\ phase = "order" /\ Ready = {}
    /\ phase' = "export"
    /\ UNCHANGED <<shape, graph, len, seen, rebound, shared, nodes, stack, before, after>>

-------------------------------------------------------------------------------
(* Exporting: the nodes in reverse of the order they were taken in.        *)

\* The strings to print before position p: those in front of the first that is
\* not before it.
DueLen(p) ==
    LET late == {i \in DOMAIN graph.IOBuf : graph.IOBuf[i] >= p}
    IN IF late = {} THEN Len(graph.IOBuf) ELSE Min(late) - 1
Due(p) == SubSeq(graph.IOBuf, 1, DueLen(p))
NotDue(p) == SubSeq(graph.IOBuf, DueLen(p) + 1, Len(graph.IOBuf))
Texts(ps) == [i \in DOMAIN ps |-> Quad("write_s", Zero, Zero, Zero, ps[i])]

\* trans(n), then a copy for each other value the node stands for.
NameOf(k) == graph.G[k].item.name
\* (Mutant of Trans: a read does not print the strings before it.)
TransReadFirst(node) ==
    CASE Leaf(node)          -> <<>>
      [] node.op = "read"    -> <<Quad("read", NameOf(node.lhs), Zero, Zero, node.rhs)>>
      [] node.op = "write_e" -> Append(Texts(Due(node.rhs)), Quad("write_e", NameOf(node.lhs), Zero, Zero, node.rhs))
      [] OTHER -> <<Quad(node.op, node.item.name, NameOf(node.lhs),
                         IF node.op = "=" THEN Zero ELSE NameOf(node.rhs), 0)>>
Trans(node) ==
    CASE Leaf(node)          -> <<>>
      [] node.op = "read"    -> Append(Texts(Due(node.rhs)), Quad("read", NameOf(node.lhs), Zero, Zero, node.rhs))
      [] node.op = "write_e" -> Append(Texts(Due(node.rhs)), Quad("write_e", NameOf(node.lhs), Zero, Zero, node.rhs))
      [] OTHER -> <<Quad(node.op, node.item.name, NameOf(node.lhs),
                         IF node.op = "=" THEN Zero ELSE NameOf(node.rhs), 0)>>
Copies(node) ==
    LET copies[i \in 0..Len(node.items)] ==
            IF i = 0 THEN <<>>
            ELSE IF node.items[i] = node.item \/ node.items[i].name = Zero THEN copies[i - 1]
            ELSE Append(copies[i - 1], Quad("=", node.items[i].name, node.item.name, Zero, 0))
    IN copies[Len(node.items)]

Export ==
    /\ phase = "export" /\ stack # <<>>
    /\ LET node == graph.G[Last(stack)]
       IN /\ after' = Run(Run(after, Trans(node)), Copies(node))
          /\ graph' = IF node.op \in {"read", "write_e"}
                      THEN [graph EXCEPT !.IOBuf = NotDue(node.rhs)]
                      ELSE graph
    /\ stack' = Front(stack)
    /\ UNCHANGED <<phase, shape, len, seen, rebound, shared, nodes, before>>

\* The strings left are printed last, before the end of the block.
EndExport ==
    /\ phase = "export" /\ stack = <<>> /\ phase' = "end"
    /\ after' = Run(after, Texts(graph.IOBuf))
    /\ graph' = [graph EXCEPT !.IOBuf = <<>>]
    /\ UNCHANGED <<shape, len, seen, rebound, shared, nodes, stack, before>>

\* The pass goes on to the next block.
NextBlock ==
    /\ phase = "end" /\ phase' = "build" /\ shape' \in Shapes /\ graph' = Empty
    /\ len' = 0 /\ seen' = {} /\ rebound' = FALSE /\ shared' = FALSE
    /\ nodes' = <<>> /\ stack' = <<>>
    /\ before' = Start /\ after' = Start

Next ==
    \/ Move \/ Arithmetic \/ LoadElem \/ StoreElem \/ ReadVar \/ Write \/ WriteText
    \/ EndBuild \/ Pick \/ EndOrder \/ Export \/ EndExport \/ NextBlock

Spec == Init /\ [][Next]_vars
-------------------------------------------------------------------------------
Pointer == [name : Value \cup {"~write_e"}, at : Nat]

\* The types of the variables.
TypeOK ==
    /\ phase \in {"build", "order", "export", "end"} /\ shape \in Shapes
    /\ graph.G \in Seq([op : Op \cup {"leaf", "=", "=[]", "[]=", "read", "write_e"},
                        item : Pointer, items : Seq(Pointer), lhs : Nat, rhs : Nat, fa : Nat])
    /\ DOMAIN graph.record \subseteq Value
    /\ \A x \in DOMAIN graph.record : graph.record[x] \in DOMAIN graph.G
    /\ graph.IOBuf \in Seq(1..shape.len)
    /\ len \in 0..shape.len /\ seen \subseteq Value
    /\ rebound \in BOOLEAN /\ shared \in BOOLEAN
    /\ nodes \in Seq([no : Nat, fa : Nat]) /\ stack \in Seq(DOMAIN graph.G)

\* A name stands in the list of exactly one node, the one record has for it: a
\* name that moves to another node is copied from there and nowhere else.
OneNodePerName ==
    \A x \in DOMAIN graph.record, k \in DOMAIN graph.G :
        (k = graph.record[x]) <=> (\E i \in DOMAIN graph.G[k].items : graph.G[k].items[i].name = x)

\* The graph is left in the order its nodes were made, whatever they share:
\* the warning "Circle found" is never given, no node is dropped, and a node is
\* found by its position as long as it is there.
CreationOrder ==
    /\ phase = "order" =>
         /\ \A k \in DOMAIN nodes : nodes[k].no = k
         /\ nodes # <<>> => Ready # {}
         /\ \A i \in DOMAIN stack : stack[i] = Len(graph.G) + 1 - i
         /\ Len(nodes) + Len(stack) = Len(graph.G)
    /\ phase \in {"export", "end"} => nodes = <<>>

\* releaseLeaf() is called for each node to save the value of a leaf whose name
\* has moved to another node.  It looks for one that still stands for a name,
\* and there is none: it never emits a copy.
RecordOf(x) == IF x \in DOMAIN graph.record THEN graph.record[x] ELSE 1
ReleaseLeafIdle ==
    phase # "build" =>
        ~ \E k \in DOMAIN graph.G :
            /\ Leaf(graph.G[k]) /\ graph.G[k].items # <<>>
            /\ RecordOf(graph.G[k].item.name) # k

\* The exported block reads and prints in the order the block did, with the
\* strings, which no node stands for, in their places.
Trace(s) == [i \in DOMAIN s.io |-> <<s.io[i][1], s.io[i][2]>>]
InOutInOrder ==
    /\ phase = "export" => IsPrefix(Trace(after), Trace(before))
    /\ phase = "end" => Trace(after) = Trace(before)

\* The exported block leaves every name the value the block left it, and reads
\* and prints the same.
SameBehaviour == phase = "end" => after = before

\* It does so whenever the block does not both share a node and give a name it
\* has mentioned a new value: sharing alone and rebinding alone are harmless.
SameUnlessBoth == ~(rebound /\ shared) => SameBehaviour
===============================================================================
