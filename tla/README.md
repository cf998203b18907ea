# A verification project for the PL/0 compiler

`src/` is a compiler from a PL/0 dialect (integers, characters, arrays, nested
procedures and functions, parameters by value and by reference) to x86
assembly: a parser built from combinators, a translation to quadruples with the
semantic checks, an optional optimiser of basic blocks (`-O`), and a code
generator with a register allocator. The compiler is one sequential program.
What makes it hard is not concurrency but state that several passes keep in
step by convention: scopes opened and closed around declarations, registers
and stack cells that must agree with a table of names, a stack pointer that
must agree with a counter, and a display copied from frame to frame.

## The system

| part | source | state | operations | hard behaviour |
|---|---|---|---|---|
| parser combinators | `libparsec/` | the input left | sequence, choice, repetition, `mapfn` | ordered choice, repetition of empty parsers, actions on failed alternatives |
| grammar | `pl0_parser.cpp` | none | one parser per rule | order of alternatives |
| syntax tree, quadruples, symbol table | `pl0_ast.hpp`, `pl0_ast.cpp` | `pl0_env`: vector of records and tags | `push`, `tag`, `detag`, `find`, `depth` | pairing of `tag`/`detag`, shadowing, qualified names |
| semantics and quadruples | `pl0_tac_gen.cpp` | four symbol tables, label and temporary counters | one function per construct | temporaries and their life time, tables in step |
| basic blocks, DAG | `pl0_opt.cpp` | nodes, value of each name, buffered output | `buildDAG`, `solveDAG`, `releaseLeaf` | order of reads, writes, input and output |
| register allocator | `pl0_allocator.cpp`, `pl0_x86.h` | register map, cells, `dist` | `alloc`, `remap`, `load`, `spill`, `store`, `locate`, `addr` | eviction, stale copies, growth of the stack |
| code generator | `pl0_x86.cpp` | the allocator, `old`, the run-time environment | one branch per quadruple | implicit registers of `imul`/`idiv`/`call`, branches, calls |
| emitted code | (run time) | registers, stack, display | prologue, call, return, access | recursion through several levels of nesting |
| driver | `pl0c.cpp` | none | calls the passes in order | goes on after semantic errors |

`pl0c.cpp` parses a file, runs `pl0_tac_program` (semantic tables: `pl0_env`),
cuts the quadruples into blocks, runs `DAGPass` with `-O`, and calls
`pl0_x86_gen`, which keeps its own `pl0_env` (`runtime`: name, offset from
`ebp`, reference or not) shared with the allocator `manager`. A semantic error
is reported but does not stop the passes.

What makes each part correct:

- symbol table: whatever the order of declarations and scopes, `find` and
  `depth` answer what lexical scoping answers;
- allocator and code generator: every operand a quadruple reads is the current
  value of that name, memory is current where other code looks, and `esp` is
  where `dist` says;
- emitted code: a name of an enclosing function reaches the activation it was
  declared in, however deep the recursion;
- optimiser: a block computes the same values and the same input and output;
- combinators and grammar: what a parser consumes and the tree it answers are
  what its grammar says, and it always answers;
- semantics: a name means its last declaration in scope, in whichever of the
  tables that is, and the code generator finds the same object.

## Modules

| module | models | role |
|---|---|---|
| `ScopeStack` | lexical scoping | abstract: a sequence of scopes, `Enter`, `Declare`, `Leave` |
| `PL0Env` | `pl0_env` (`pl0_ast.hpp`) | `tb` and `tags` as in the code; `Push`, `Tag`, `Detag`, and `Find`, `Depth`, `DepthOf` as operators |
| `PL0EnvProofs` | | TLAPS proofs about `PL0Env` |
| `NumberFacts` | | least and greatest elements of sets of numbers, for proofs that would use induction |
| `RegAlloc` | `SimpleAllocator` and `pl0_x86_gen_common` | the generator's tables next to the machine that runs what it emits |
| `RegAllocProofs` | | TLAPS proofs about `RegAlloc` |
| `StaticLinks` | meaning of nested functions | abstract: activations with a link to the enclosing one |
| `Display` | prologue, `addr()`, call and return | the display in place of the links |
| `DisplayProofs` | | TLAPS proofs about `Display` |
| `Quadruples` | meaning of the quadruples of a block | a machine whose values are the expressions that compute them |
| `DagBlock` | `BasicBlock::DAGPass` (`pl0_opt.cpp`) | graph, order, export, next to the machine before and after |
| `DagProofs`, `ExportProofs` | | TLAPS proofs about `DagBlock`: the graph; what the exported block does |
| `Statements` | meaning of structured statements | what remains to be done, without labels and jumps |
| `Control` | `pl0_tac_*_stmt`, `pl0_block`, `pl0_x86_gen_blocks` | the three passes over a whole program, then the emitted text running |
| `Parsec` | `libparsec`: the combinators, `input_t`, `parser_t`, `ParsecT` | the stack of calls of a parser, one step between two calls |
| `ParsecMeaning` | what a parser stands for | abstract: the places where a match can end, without order or backtracking |
| `PL0Parser` | the rules of `pl0_parser.cpp` | parsers of `Parsec`, and the functions that do more than call a combinator |
| `PL0Grammar` | the comments above the rules, and `pl0_grammar.ebnf` | abstract: the syntax trees a grammar gives a sequence of tokens |
| `Tables` | the walk of `pl0_tac_gen.cpp` and the generator's environment | five instances of `PL0Env`, moved by one walk |
| `TablesProofs`, `MeaningProofs` | | TLAPS proofs about `Tables`: tags in step; what names mean |
| `MCPL0Env`, `MCRegAlloc`, `MCDisplay`, `MCDagBlock`, `MCControl`, `MCParsec`, `MCGrammar`, `MCTables` | | constants for TLC |

### PL0Env

`tb` is the vector of records and `tags` the vector of positions. A record is a
name with the part after its last `_` (the name test of `find` and
`depth(name)` accepts either) and a payload. `Push`, `Tag` and `Detag` are the
three operations with a caller; `pop()` has none. `ScopeStack` is the same
table as a sequence of sequences, and `Segments` cuts the vector at its tags.

### RegAlloc

The state `m` is one record: the register map `rec`, the cell of each name
`slot`, the believed distance `dist`, and the machine `cpu`, `mem`, `esp`.
Each member function of the allocator is an operator from the state before the
call to the state after it, each branch of `pl0_x86_gen_common` an operator
built from those in the order the code calls them, and each quadruple the front
end can emit next an action. Data is abstracted to identity: a register or a
cell holds the current value of a name, or `Junk`. A new value of a name turns
all older copies to `Junk`, a callee overwrites all registers and whatever is
beyond `esp`, and a register nobody owns holds `Junk` at the start of each
quadruple. `m.right` becomes false as soon as an instruction reads anything but
the current value of the operand it stands for.

`avail`, `mul`, `bounds` and `args` say which quadruples the front end can emit:
temporaries are read newest first and once, sums and products accumulate in the
temporary of their first term (`mul` are the temporaries of products), and
`bounds` are the ends of the enclosing loops. The order of blocks is not
followed (`Control` does that): at a label no register is owned and no temporary
is alive, so the state there is the header state whichever jump leads to it;
this is what the actions `Branch`, `Jump` and the loop actions establish, not
assume.

Three kinds of programs are left out by constants, because the code
translates them wrongly (see Findings; the first two are switched on): `SelfAssign` (`x := x`),
`ComputedBounds` (a loop whose bound is an expression), and a `Place` that is
not injective (aliased references).

### Display

Frames are numbered from the bottom of the stack; the number of a frame stands
for its `ebp`. `Prologue` copies entries 1 to level-1 of the caller's display
and adds the frame itself; `Addr` is `addr()`. `Level` is `runtime.depth()`
while the function is compiled. `StaticLinks` says what the program means: a
callee is linked to the activation of its declaring function that the caller
can see, and a name is found by following links. `OuterRefs` switches on
programs in which a nested function uses a reference parameter of an outer one
(see Findings).

### DagBlock

One block at a time: a state of phase `build` has read some quadruples into the
graph, `order` takes nodes (`solveDAG`, first loop), `export` emits them (third
loop). `record`, `G` and `IOBuf` are those of the code, node numbers start at 1,
and a `Value*` is a name with the position of the quadruple that mentions it, so
that the pointer comparison of the copies is kept. `before` is the machine of
`Quadruples` after the block as it was written, `after` the machine after what
has been exported; values are expressions, so two blocks that differ for any
input end in different states. Positions count from 1 in the block, as in the
loop of `buildDAG`. The quadruples that end a block (`cmp`, `goto`, `call`) are
copied behind it and are not part of the state. The operator of a leaf, the
empty string in the code, is written `"leaf"`; the erasing loop of `setMap` is
the recursive function `Without`, those of `trans` and of the copies `DueLen`
and `Copies`, and `LessFathers` are the `lessFa` calls for
one node taken.

The second loop of `solveDAG` calls `releaseLeaf` for every node. `releaseLeaf`
changes a leaf only if its name has moved to another node and it still stands
for some name; `ReleaseLeafIdle` says that no leaf ever does, so the loop is not
an action. That is also why a block that both shares a node and rebinds a name
may be exported wrongly: nothing saves the old value. `shared`
and `rebound` record whether a block has shared a node (a common subexpression
was found) and whether it has given a name it had mentioned a new value (a store
to an array counts); `SameUnlessBoth` speaks of the blocks that do not do both.

### Control

A program is a tree of statements and nested procedures. `TacProgram`,
`BlockPass` and `Gen` are the passes in the order of `main`; each is a recursive
operator shaped like the functions it models, the builder, the vector of blocks
and `old`/`dist` handed from call to call. Labels are numbered as `makelabel`
numbers them. An expression is a variable (no code), a computed temporary (which
may be spilled, one cell) or a function call (which ends a block); a statement
without control flow is one quadruple that grows the frame by `grow` cells, for
the temporaries spilled while it and what precedes its jump are translated.
Whether and when that happens is `RegAlloc`'s subject; here every choice is
tried. `dist` is counted upwards in cells and the display is one cell.

The text then runs from the entry of any of its functions (`Start`): `pc` and
`esp` are the processor's, the outcome of each comparison is any of less, equal,
greater, and `todo` is what `Statements` says is left, so that `FollowsProgram`
compares the code with the program instruction by instruction. A call is one
step that returns behind itself; `Display` shows what happens meanwhile.

`FairSpec` adds that the processor goes on and that loops are left (see
Fairness); `Returns` is checked under it.

### Parsec and ParsecMeaning

A parser object is a record, its operator and operands; calling it on an input
is C++ recursion, so the state is the stack of the calls that have not returned
(`stack`: the parser, where it started, its local variables) and the result last
returned (`ret`: a length, -1 for failure, and the value). An `input_t` is the
place in the text it starts at. Every `operator()` of `combinator.hpp` is one
action whose disjuncts are what it does before, between and after the calls of
its operands. A value is the sequence of what the operands gave, with a node for
every rule and every `mapfn`. A repeated character class is one step
(`CharacterRun`), since nothing else is called in it. `ParsecMeaning` gives each
parser the set of places where a match can end; there a choice is a union and a
repetition goes on as long as it likes. `Unbounded` stands for 2^31-1: a counter
stops below it, so that a loop which consumes nothing is a cycle.

### PL0Parser and PL0Grammar

Each rule of `pl0_parser.cpp` is one operator with the combinators in the order
of the code. `IdentifyStep`, `IfStep` and `ParamGroupStep` are the functions that
look at a result themselves (the keyword test, `pl0_const` and
`pl0_executable`, the optional `var` of a parameter group). A text is a sequence
of pieces: letters, digits, signs, blanks, and the words of the language, which
are runs of letters that a literal finds in one comparison; an identifier may
begin with one. `PL0Grammar` is the grammar over tokens, and `Trees(n)` the
syntax trees it gives the first n pieces. Where the code keeps less than the
grammar says (signs, brackets), the derivation keeps the same.

The last alternative of `pl0_factor` is never reached (an identifier is a call
without arguments before that), and is in the model all the same.

### Tables

`pl0_tac_gen.cpp` decides what a name means by comparing the depths at which it
is found in tables of its own for constants, variables, procedures and
functions. `part` is the position of the walk in each of the open routines, and
each action one declaration, one step of a routine's head or end, or one use of
a name in a statement; the environment of the code generator, which walks the
same routines in the same nesting, is modelled in step. The tables are
instances of `PL0Env`. `decls` is a history of the declarations in scope, from
which the properties take what a name ought to mean; a routine's declarations
are its last ones, so leaving it cuts the history. Errors do not stop the
walk, as in the code; a call through a null list of arguments stops it
(`status = "crash"`).

## Runs

| run | shows | bounds |
|---|---|---|
| `env` | the table implements `ScopeStack`; lookups are lexical | two names with and without a qualifier, at most 4 records and 4 tags: two records in one scope, an empty scope between two, shadowing in both directions |
| `registers` | the seven invariants of `RegAlloc` | 2 variables, 4 temporaries, 5 registers, at most 2 arguments and 2 spilled cells: four temporaries and a variable fill the registers, so a fifth name evicts; two spills let cells follow each other |
| `loop_bound` | the finding about the bound of a loop | as `registers`, with `ComputedBounds` |
| `display` | the display implements static links | 5 functions, 4 levels (two siblings at level 2), 5 frames: calls down one level, sideways, up one to three levels, direct and mutual recursion |
| `outer_reference` | the finding about outer reference parameters | 4 frames |
| `dag` | order of nodes, of input and output, one node per name, on all blocks; values, input and output of the exported block unless it shares a node and rebinds a name | 3 variables, an array; 3 quadruples of every kind (a read statement is two), 4 of arithmetic and read statements: `x = z + z; y = z + z` needs three names to share without rebinding, and an input between two sums needs four quadruples |
| `dag_reads` | the finding about two inputs | 2 variables, 4 quadruples |
| `control` | the code follows the program on every path, `esp` is where the generator believed it, blocks and their successors are right; a routine returns once its loops are left | about 3,200 programs: every construct with every kind of expression and relation around simple statements, constructs in constructs in constructs, procedures nested two deep; `MaxLoopDepth` 5 is the longest path of a loop in them |
| `combinators` | combinators against `ParsecMeaning`, and every application returns | every combinator over three leaf parsers, over each of those combinations and with them on either side; all texts of two letters up to length 3, where no loop repeats an empty match (`Unbounded` 5: more rounds than a text of 3 allows) |
| `grammar` | rules against `PL0Grammar`, recursion bounded by the text, and every text is answered | 11 sentences that use all rules, loosely and tightly written, and every deletion of one token and exchange of two (256 texts); `Unbounded` 3 |
| `grammar_begin_names` | the finding about names that begin with a word of the language | three texts |
| `tables` | a name means its last declaration, in the analysis and in the generator; the tables stay in step; no name is declared twice in a scope | 3 identifiers (symmetric), 2 levels of routines below main, at most 1 parameter, 6 declarations in scope: a name declared at all three levels, and two kinds of declarations at each |

`TypeOK` is a property of the runs of the modules with a proof of it or a
planned one (`env`, `display`, `registers`); elsewhere it documents the types.
Deadlock is checked in every run (a parser that has returned, and a walk that
has ended, stutter explicitly). `registers` uses the symmetry of temporaries
(`Fresh` picks one of the unused ones), `dag` that of variables and `tables` that
of identifiers; no liveness is checked in these.

### Fairness

The compiler is one thread that nothing stops, so `Parsec` and `PL0Parser`
assume `WF` of their step: a parser that is called goes on. That is all
`Terminates` and `ParserReturns` need. `Control` assumes the same of the
processor, and besides that a loop whose test is reached again and again is
left in the end, once for each depth of nesting (`SF` of `LeaveLoop`). The code
justifies that for programs that leave the variable and the bound of a loop
alone, where every round takes the variable one nearer to the bound; a program
that assigns to them may run for ever, and what `Returns` says of it is that no
other cycle is in its code. The other modules follow every program, terminating
or not, and state safety only.

The invariants of `RegAlloc` build on each other. `Coherent` (the place
`locate` sends an instruction to holds the current value) is what makes
`OperandsRight` hold at the next quadruple; `OneRegisterPerName` is what makes
"the place" unique; `VariablesInMemory` is why a call or a branch may forget the
registers, and is kept only because every branch that changes a variable ends
with a spill; `TemporariesApart` and `EspMatchesDist` are why a spilled
temporary survives until it is read.

## Findings

Programs the code treats otherwise than its documents say, each with a run that
ends in the shortest such behaviour:

- after a loop with a computed bound the loop variable gets a value that no
  longer exists, while the design notes promise the bound
  (`pl0_tac_gen.cpp:479`, run `loop_bound`);
- a reference parameter of an outer function is addressed with its offset added
  twice (`pl0_allocator.cpp:184`, run `outer_reference`);
- with `-O`, of two read statements in one block the second overwrites the
  variable of the first and its own is never written (`pl0_opt.cpp:113`, run
  `dag_reads`). Other blocks that both share a node and rebind a name go wrong
  too: `x := a + b + c; y := a + b + d` (the temporary of the shared sum is
  overwritten before its copy is made), `x := a + b; z := y; y := a + b`, and
  two stores of one value at one index of two arrays (the second becomes an
  assignment between arrays);
- a procedure named `beginx` can be declared and not called: literals do not
  look at what follows them, and the compound statement is tried before the call
  (`pl0_parser.cpp:427`, run `grammar_begin_names`). A value parameter named
  `varx` becomes the reference parameter `x` in the same way (line 302).

Met on the way, and left out of what the passing runs claim:

- `x := x` copies an unrelated register into `x` (`pl0_x86.cpp:71`):
  `OperandsRight` fails with `SelfAssign = TRUE`;
- an assignment through a reference parameter leaves the other name of the cell
  stale in its register (`pl0_allocator.cpp:24`): `OperandsRight` fails when
  `Place` gives two variables one cell;
- `pl0_param_group` adds -1 to the length of `var` and reports success when the
  rest of the group is missing (`pl0_parser.cpp:309`); the list around it still
  refuses;
- an assignment skips an inner constant and sets the outer variable of that
  name, which an expression would not read (`pl0_tac_gen.cpp:252`):
  `AssignsLastDeclared` asks nothing of a name whose last declaration is a
  constant or a procedure;
- in a nested procedure `x` the outer variable `x` is located at the record of
  the procedure's display, and an assignment overwrites the stack at an offset
  that is a level (`pl0_x86.cpp:43`): `LocatesDeclared` speaks of names last
  declared as variables;
- an assignment to a function outside its body is accepted
  (`pl0_tac_gen.cpp:252`);
- a call without arguments of a routine with parameters ends the compiler with a
  null pointer instead of the message (`pl0_tac_gen.cpp:394`, and 667): `Tables`
  stops with `status = "crash"`.

## Proofs

Each theorem holds for every value of the constants that satisfies the module's
assumptions; TLC evaluates those on every run. A theorem that needs more has it
in its statement.

`PL0EnvProofs`, for every set of names, every record and every bound:

- `EnvInvariant` and `EnvTyped`: `TypeOK` and `TagsCutTable` are inductive
  together. `push` only moves the end of the table, `tag` adds the largest tag
  there can be, and `detag` cuts at the last tag, below which every other tag
  lies.
- `EnvRefinesScopeStack`: each operation on the vector is one operation on the
  stack of scopes. The lemmas about `SubSeq` say that the pieces below the last
  tag do not change and how the last piece grows.
- `EnvScoping`: `LexicalScoping`. The code searches the whole vector backwards
  and compares positions with tags; the specification asks for the innermost
  scope that declares the name and its last declaration there. The proof takes
  the last match in the vector, shows that its segment is the innermost one with
  a match, and that its place in the segment is the last one there.

`RegAllocProofs`, for any variables and temporaries, any size of the frame, any
number of arguments, spilled cells and nested loops. `Allocation` is the
inductive invariant `IInv`; its parts, which were first checked on the constants
of `MCRegAlloc`, are:

- `Good`: no name is in two registers, a variable's cell is where its place is,
  and the cells of temporaries that are still to be read, or are in a register
  from which they could be spilled again, lie in the frame and are distinct;
- `Values`: where `locate` sends an instruction for a name, in the register that
  owns it or else in its cell, is its current value; `VarMem`: the cells of the
  variables are current. Both assume `NoAliases`, and only they;
- `Pushed`: all this holds of the frame without the arguments pushed so far, and
  while there are any, no register is owned (`begincall` has spilled them all);
- the temporaries to be read are distinct (`Distinct`), no other temporary has
  a cell or a register except the bounds of loops (`NoneOwned`), and a product
  under way is in no register but `eax` and `edx` (`InProducts`), which is what
  makes the implicit operands of `imul` and `idiv` right.

`TypeOK`, `OneRegisterPerName`, `TemporariesApart`, `EspMatchesDist`,
`Coherent`, `VariablesInMemory` and `OperandsRight` follow, one theorem each. None
of them is inductive alone: `Coherent` speaks of the temporaries to be read,
while an eviction can touch any name in a register, and `TemporariesApart` says
nothing of a temporary that has been read but is still in a register and may be
spilled into a cell. One lemma per member function of the allocator says
what it preserves (`SpillSound`, `RemapSound`, `AllocSound`, `LoadSound`,
`ToRegSound`, ...), one per branch of the generator combines those in the order of
the code (`GenAddSubSound`, `GenMulSound`, ...), and one per action adds the
front end's bookkeeping. The hypotheses are those of programs for which the
property is false in the code: `LocatedRight` and `MemoryRight` need `NoAliases`
(two reference parameters with one argument), `ReadsRight` also excludes
`x := x` and computed loop bounds (run `loop_bound`).

`DisplayProofs`, for every nesting of functions (any tree with levels, any
scopes that satisfy `NestingAssumption`) and any number of frames:

- `DisplayTyped` and `DisplayInvariant`: the inductive invariant says of each
  frame that entry k of its display is a frame whose own display has k entries,
  equal to the first k entries of this one. That is the strengthening needed:
  without the agreement of the prefixes nothing can be said of a callee that is
  declared further out than its caller, and it gives the functions of all
  entries at once.
- `ReferencesStayAlive`, when nested functions leave outer reference parameters
  alone (`OuterRefs` is FALSE; with it the property is false, run
  `outer_reference`): a reference points to a frame further down the stack.
- `DisplayRefinesStaticLinks`, under the same condition: the path that follows
  the links from the running frame is the display read backwards, so each call
  and each access of the code is one of `StaticLinks`.

`DagProofs`, for blocks of any length over any names and operators:

- `DagInvariant`: the operands of a node were made before it, its counter is the
  number of times it is an operand (`Wired`); the names in its list are those
  `record` sends to it, and a leaf has none but its own (`Named`); while nodes are
  taken, those left are the first ones, each with the number of fathers it has
  among those left (`Ordering`).
- `TakenInOrder`: the last node left has no father, so it is the one taken: the
  order is the reverse of creation, no circle is ever found, and positions in
  the vector stay the numbers of the nodes although nodes are erased from it.
- `NamesInOneNode` and `LeavesNeedNoRelease` follow from `Named`.

`ExportProofs`, for the same blocks, compares what is exported with the block as
it was written. `XInv` is the inductive invariant of all blocks, and two further
ones extend it for the blocks that are exported with the same values:

- `ExportInvariant`: `XInv` adds to `DagInvariant` where the export stands
  (`Stacked`: the stack holds the nodes not yet exported, the next one on top)
  and what is left (`Together`): the inputs and outputs of the block are those of
  `after`, then those of the nodes left, with the buffered strings in between at
  their positions. The events are compared as a set, ordered by position
  (`Follows`), and `Dated` says that positions rise with the nodes and along
  `IOBuf`; so taking the strings due in front of a node, as `trans` does, takes
  exactly those that come next.
- `ReadsAndPrintsInOrder`: at the end nothing is left, so the traces are equal.
  This holds of every block, those exported with wrong values included.
- `UnsharedInvariant`: a block that shares no node has a node for each of its
  quadruples but the strings, named after its destination, so the nodes in
  the order they were made replay the block. `SInv` names the states they go
  through (`Played`): after all nodes the state of the block, after the nodes
  exported that of `after`. Copies do nothing in such a block, since a node
  stands for no name but its own (`Own`). A name may be rebound at will.
- `NamedOnceInvariant`: in a block that gives no name a new value (and so has no
  read statement, and no store into an array) a node may stand for several names,
  and the states of the two machines differ in between. `UInv` therefore speaks
  of names: the value the block gave a node's own name is still there when the
  block ends, and every name recorded for a node has it too (`Once`); the
  names of the nodes exported have those values in `after`, as have the names no
  operation stands for (`Restored`).
- `SameWithoutBoth`: `SameUnlessBoth`, by cases. Equal values follow from either
  invariant at the end of the export; equal traces are `ReadsAndPrintsInOrder`,
  and what is printed at each position is determined (`Explained`) by one
  assignment of values to positions that explains both machines.

That neither case can be dropped is what `dag_reads` shows: a read statement
rebinds its variable, and two of them share a node.

What a recursive function computes is proved by the least counterexample
(`Least` of `NumberFacts`, from `<` being well-founded) where a proof by
induction would be natural: `Without`, and the choice of a last match.

`TablesProofs`, for every set of identifiers and every bound:

- `TablesInStep`: `InStep`. The inductive invariant `StepInv` adds `Nested`
  (which phases the routines below the top of `part` can be in: each waits in
  its list of routines, so one phase fixes how often each table was tagged) and
  `Tagged` (each list of tags is a sequence, so that an `Append` and a `SubSeq`
  change its length by one). `InStep` alone is not inductive: when a routine
  ends it says nothing about where its caller was.

`MeaningProofs`, on top of it, says what names mean in every program, one that
declares the name `main` included:

- `MeaningInvariant`: the inductive invariant `MeaningInv` is `StepInv` and, while
  no error is reported, `Meant`. `Filed` says of a table that its tags put each
  record into the scope the record itself names (`Level`), so that a table can
  be treated as a set of records: a lookup stops at the deepest record that
  matches, and `detag()` takes those of the last scope. `History` says that later
  declarations in `decls` are of the same scope or further in, that no scope
  declares a name twice, that a routine does not declare its own name, and that
  every routine being walked is declared in the one around it. `Tabled` says that
  the tables of constants and variables hold exactly the declarations of their
  sorts and those of routines one qualified record for each, except for the one
  whose parameters are being walked (`Pending`). `Placed` says what the
  generator's table holds: the variables, the displays (that of main before everything), the
  results, and within a frame the parameters first. None of the properties is inductive without them:
  they speak of the body of a routine only, and what a lookup finds there depends
  on what every tag, push and detag before it has left.
- `ReadsRight`, `AssignsRight`, `CallsRight`: the table that keeps the last
  declaration finds it at the depth of its scope, each of the others finds
  nothing or something further out, since two declarations of one name are never
  on one level. So the comparisons of depths choose right, although each function
  asks a different selection of tables.
- `OneDeclaration`: `History` keeps it; parameters are on a level of their own.
- `LocatesRight`: a lookup of a variable in the generator's table may match
  displays and results of routines of that name. The declaration of such a
  routine is one of the name as well, so the variable, declared last, is as far in
  as the routine's own frame at least; and it is not in that frame, since a
  routine has no variable of its own name. So the deepest match is the variable's.
  The display of main, and in one frame a parameter with a local declared over it,
  are told apart by their order in the table.

A program with reported errors is outside all of these except `InStep`: a
declaration that was refused is in no table, and a parameter that was refused is
in two.

What stays with TLC:

- liveness (`Returns`, `Terminates`, `ParserReturns`), which rests on fairness;
- `Control`, `Parsec` and the grammar: the passes, the statements and the
  derivations recur over trees, and TLAPS cannot prove about recursive operators.

The quadruples of a block are executed by recursive functions (`Run`, and
`Copies` for the copies of a node), as are the other loops of `DagBlock`, so that
the proofs about it can open them.

## Not modelled

- The text of instructions and operands, except what they denote; array
  contents (an array access is followed up to the registers of its index and
  value); character and integer types.
- Types, array lengths and the reference flag of arguments in the semantic
  checks: they only print a message, and change nothing else.
- The values of numbers, positions for messages and progress output of the
  parser; `chainr` and `try_choice`, which are never instantiated (neither would
  compile); the `catch` clauses of `ParsecT::parse`, since no parser throws.
- `GenKillHelper` and `ReachDefPass` of the optimiser, which do nothing.
- Reading files, printing and `-O` in `pl0c.cpp`; the printing members.
- The tests, and the vendored googletest in two copies, which are nearly all of
  the lines under `src/` and no part of the compiler.

## Plan

1. `ScopeStack`, `PL0Env`, `RegAlloc`, `StaticLinks`, `Display` with their runs,
   `PL0EnvProofs` and `DisplayProofs` (done).
2. `DagBlock`, `Control` and `Statements` with their runs (done).
3. `Tables` with its runs and `TablesProofs`; `Parsec`, `PL0Parser` and what they
   are checked against; liveness of parser and code (done).
4. `RegAllocProofs`, `DagProofs`, `EnvScoping` and the unconditional part of
   `DisplayProofs` (done).
5. `MeaningProofs`: `ReadsLastDeclared` and its relatives for every program (done).
6. `ExportProofs`: `InOutInOrder` and `SameUnlessBoth` for blocks of any length
   (done).
7. Not planned: proofs about `Control`, `Parsec` and the grammar, whose passes and
   derivations recur over trees.
