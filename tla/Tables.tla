-------------------------------- MODULE Tables --------------------------------
(***************************************************************************)
(* The walk of pl0_tac_gen.cpp over the declarations and statements of a   *)
(* program, and the five symbol tables it is made with: constants,         *)
(* variables, procedures and functions during the semantic analysis, and   *)
(* the locations of the code generator, which walks the same routines in   *)
(* the same nesting (pl0_x86_gen_blocks) and is modelled in step with the  *)
(* analysis.  Each table is a PL0Env of its own, so what a name means is   *)
(* decided by comparing depths of tables that are tagged apart.            *)
(*                                                                         *)
(* Types, array bounds and the reference flag of parameters are left out.  *)
(* A plain name is << x >>, the name "_p_q" is << Qualifier, p, q >>.      *)
(***************************************************************************)
EXTENDS Integers, Sequences

CONSTANTS Id,           \* identifiers of the program
          MaxNest,      \* bound on the nesting of routines
          MaxParams,    \* bound on the parameters of a routine
          MaxDecls      \* bound on the declarations in scope

ASSUME TablesAssumption == MaxNest \in Nat /\ MaxParams \in Nat /\ MaxDecls \in Nat

VARIABLES valtb, valtags,       \* constants
          vartb, vartags,       \* variables and parameters
          proctb, proctags,     \* procedures
          functb, functags,     \* functions
          loctb, loctags,       \* runtime: places of variables at run time
          scope,                \* the names of the routines being walked
          part,                 \* where the walk is in each of them and in main
          status,               \* "ok", "error" once one is reported, "crash"
          decls                 \* history: the declarations in scope, oldest first

tables == <<valtb, valtags, vartb, vartags, proctb, proctags, functb, functags,
            loctb, loctags>>
vars == <<tables, scope, part, status, decls>>

Qualifier == "_"
Paths == {<<"main">>} \cup UNION {[1..n -> Id] : n \in 1..MaxNest}
Name == {<<x>> : x \in Id \cup {"main"}} \cup {<<q>> \o p : q \in {Qualifier, "$fn"}, p \in Paths}
LastPart == [n \in Name |-> <<n[Len(n)]>>]
Data == [of : {<<>>} \cup Paths, sort : {"const", "var", "param", "proc", "func", "display"},
         params : 0..MaxParams]

MaxEntries == MaxDecls + 2 * (MaxNest + 1)
MaxDepth == 2 * (MaxNest + 1)

val == INSTANCE PL0Env WITH tb <- valtb, tags <- valtags, Last <- LastPart
var == INSTANCE PL0Env WITH tb <- vartb, tags <- vartags, Last <- LastPart
proc == INSTANCE PL0Env WITH tb <- proctb, tags <- proctags, Last <- LastPart
func == INSTANCE PL0Env WITH tb <- functb, tags <- functags, Last <- LastPart
loc == INSTANCE PL0Env WITH tb <- loctb, tags <- loctags, Last <- LastPart

-------------------------------------------------------------------------------
scope_name == <<Qualifier>> \o scope
fn_name == <<"$fn">> \o (IF scope = <<>> THEN <<"main">> ELSE scope)

Here == part[Len(part)]
Outer(s) == SubSeq(s, 1, Len(s) - 1)
Own(x) == scope # <<>> /\ x = scope[Len(scope)]
Move(phase) == part' = [part EXCEPT ![Len(part)].phase = phase]
Report == status' = "error"
Frame(phase, sort, n) == [phase |-> phase, sort |-> sort, params |-> n, left |-> n]

Described(sort, n) == [of |-> scope, sort |-> sort, params |-> n]
Record(name, sort, n) == [name |-> name, data |-> Described(sort, n)]

\* History: x is declared here; the declarations of a routine leave with it.
Declare(x, sort, n) ==
    /\ Len(decls) < MaxDecls
    /\ decls' = Append(decls, Record(<<x>>, sort, n))
Inside(d) == Len(d.data.of) >= Len(scope)

\* History: the declarations up to the last one of those at S.
LastOf(S) == IF S = {} THEN 0 ELSE CHOOSE i \in S : \A j \in S : j <= i
UpTo(S) == SubSeq(decls, 1, LastOf(S))

-------------------------------------------------------------------------------
\* pl0_tac_program has entered pl0_tac_prog, and pl0_x86_gen_header has made the
\* environment of main.
Init ==
    /\ valtb = <<>> /\ vartb = <<>> /\ proctb = <<>> /\ functb = <<>>
    /\ valtags = <<0, 0>> /\ vartags = <<0, 0>> /\ proctags = <<0, 0>> /\ functags = <<0, 0>>
    /\ loctags = <<0, 0>>
    /\ loctb = << [name |-> <<"$fn", "main">>,
                   data |-> [of |-> <<>>, sort |-> "display", params |-> 0]] >>
    /\ scope = <<>> /\ part = << Frame("const", "proc", 0) >>
    /\ status = "ok" /\ decls = <<>>

-------------------------------------------------------------------------------
\* pl0_tac_const_stmt, one definition.
ConstStmt(x) ==
    /\ Here.phase = "const" /\ status # "crash"
    /\ IF Own(x) \/ val!Found(<<x>>, FALSE) \/ var!Found(<<x>>, FALSE)
       THEN Report /\ UNCHANGED <<tables, decls>>
       ELSE /\ val!Push(Record(<<x>>, "const", 0))
            /\ Declare(x, "const", 0)
            /\ UNCHANGED <<vartb, vartags, proctb, proctags, functb, functags, loctb, loctags,
                           status>>
    /\ UNCHANGED <<scope, part>>

\* pl0_tac_var_stmt, one name, and x86_gen_def for its def.
VarStmt(x) ==
    /\ Here.phase \in {"const", "var"} /\ status # "crash"
    /\ Move("var")
    /\ IF Own(x) \/ val!Found(<<x>>, FALSE) \/ var!Found(<<x>>, FALSE)
       THEN Report /\ UNCHANGED <<tables, decls>>
       ELSE /\ var!Push(Record(<<x>>, "var", 0))
            /\ loc!Push(Record(<<x>>, "var", 0))
            /\ Declare(x, "var", 0)
            /\ UNCHANGED <<valtb, valtags, proctb, proctags, functb, functags, status>>
    /\ UNCHANGED scope

\* Mutant: the table of functions is not asked.
OverloadedNoFunctions(x) ==
    \/ val!Found(<<x>>, FALSE) \/ var!Found(<<x>>, FALSE) \/ proc!Found(<<x>>, FALSE)
    \/ Own(x)

Overloaded(x) ==
    \/ val!Found(<<x>>, FALSE) \/ var!Found(<<x>>, FALSE)
    \/ proc!Found(<<x>>, FALSE) \/ func!Found(<<x>>, FALSE)
    \/ Own(x)

\* pl0_tac_procedure_stmt and pl0_tac_function_stmt up to the parameters: the
\* tag of pl0_tac_param and the one of pl0_x86_gen_header.
Routine(sort, x, n) ==
    /\ Here.phase \in {"const", "var", "exec"} /\ status # "crash"
    /\ Len(scope) < MaxNest /\ Len(decls) + n < MaxDecls
    /\ IF Overloaded(x)
       THEN /\ Move("exec") /\ Report
            /\ UNCHANGED <<tables, scope, decls>>
       ELSE /\ scope' = Append(scope, x)
            /\ part' = Append([part EXCEPT ![Len(part)].phase = "exec"],
                              Frame("params", sort, n))
            /\ val!Tag /\ var!Tag /\ loc!Tag
            /\ Declare(x, sort, n)
            /\ UNCHANGED <<proctb, proctags, functb, functags, status>>

\* pl0_tac_param, one name: pushed even when it is reported.
Param(x) ==
    /\ Here.phase = "params" /\ Here.left > 0 /\ status # "crash"
    /\ status' = IF var!Found(<<x>>, FALSE) \/ Own(x) THEN "error" ELSE status
    /\ var!Push(Record(<<x>>, "param", 0))
    /\ loc!Push(Record(<<x>>, "param", 0))
    /\ Declare(x, "param", 0)
    /\ part' = [part EXCEPT ![Len(part)].left = @ - 1]
    /\ UNCHANGED <<valtb, valtags, proctb, proctags, functb, functags, scope>>

\* The routine is recorded in the table of its kind, under its qualified name.
Header ==
    LET r == [name |-> scope_name,
              data |-> [of |-> Outer(scope), sort |-> Here.sort, params |-> Here.params]]
    IN /\ Here.phase = "params" /\ Here.left = 0 /\ status # "crash"
       /\ IF Here.sort = "proc"
          THEN proc!Push(r) /\ UNCHANGED <<functb, functags>>
          ELSE func!Push(r) /\ UNCHANGED <<proctb, proctags>>
       /\ loc!Push([name |-> fn_name, data |-> Described("display", 0)])
       /\ Move("header")
       /\ UNCHANGED <<valtb, valtags, vartb, vartags, scope, status, decls>>

\* Mutant: the tables of routines get no scope for the parameters.
OpenNoTag ==
    /\ Here.phase = "header" /\ status # "crash"
    /\ IF Here.sort = "func" THEN loc!Push(Record(scope_name, "func", Here.params))
                             ELSE UNCHANGED <<loctb, loctags>>
    /\ Move("prog")
    /\ UNCHANGED <<valtb, valtags, vartb, vartags, proctb, proctags, functb, functags,
                   scope, status, decls>>

\* proctb.tag(), functb.tag(), and the def of the value a function returns.
Open ==
    /\ Here.phase = "header" /\ status # "crash"
    /\ proc!Tag /\ func!Tag
    /\ IF Here.sort = "func" THEN loc!Push(Record(scope_name, "func", Here.params))
                             ELSE UNCHANGED <<loctb, loctags>>
    /\ Move("prog")
    /\ UNCHANGED <<valtb, valtags, vartb, vartags, scope, status, decls>>

\* The tags of pl0_tac_prog.
Prog ==
    /\ Here.phase = "prog" /\ status # "crash"
    /\ val!Tag /\ var!Tag /\ proc!Tag /\ func!Tag
    /\ Move("const")
    /\ UNCHANGED <<loctb, loctags, scope, status, decls>>

\* The walk reaches the compound statement.
Compound ==
    /\ Here.phase \in {"const", "var", "exec"} /\ status # "crash"
    /\ Move("body")
    /\ UNCHANGED <<tables, scope, status, decls>>

\* The end of pl0_tac_prog.
EndProg ==
    /\ Here.phase = "body" /\ status # "crash"
    /\ val!Detag /\ var!Detag /\ proc!Detag /\ func!Detag
    /\ Move("end")
    /\ decls' = UpTo({i \in 1..Len(decls) : ~Inside(decls[i]) \/ decls[i].data.sort = "param"})
    /\ UNCHANGED <<loctb, loctags, scope, status>>

\* Mutant: runtime.detag() is missing.
EndRoutineKeepsPlaces ==
    /\ Here.phase = "end" /\ scope # <<>> /\ status # "crash"
    /\ scope' = Outer(scope)
    /\ val!Detag /\ var!Detag /\ proc!Detag /\ func!Detag
    /\ part' = Outer(part)
    /\ decls' = UpTo({i \in 1..Len(decls) : ~Inside(decls[i])})
    /\ UNCHANGED <<loctb, loctags, status>>

\* The end of the loop body of pl0_tac_procedure_stmt and pl0_tac_function_stmt,
\* and endproc or endfunc in pl0_x86_gen_common.
EndRoutine ==
    /\ Here.phase = "end" /\ scope # <<>> /\ status # "crash"
    /\ scope' = Outer(scope)
    /\ val!Detag /\ var!Detag /\ proc!Detag /\ func!Detag /\ loc!Detag
    /\ part' = Outer(part)
    /\ decls' = UpTo({i \in 1..Len(decls) : ~Inside(decls[i])})
    /\ UNCHANGED status

-------------------------------------------------------------------------------
\* What a name means where the walk is.
Undeclared == [name |-> <<>>, data |-> [of |-> <<>>, sort |-> "none", params |-> 0]]
Get(t, i) == IF i = 0 THEN Undeclared ELSE t[i]

\* Mutant: a variable wins over a function of the same name, however deep.
FactorVariable(x) ==
    LET d1 == val!DepthOf(<<x>>) d2 == var!DepthOf(<<x>>) d3 == func!DepthOf(<<x>>)
    IN IF d1 > d2 /\ d1 > d3 THEN Get(valtb, val!Find(<<x>>, TRUE))
       ELSE IF d2 >= 0 THEN Get(vartb, var!Find(<<x>>, TRUE))
       ELSE Get(functb, func!Find(<<x>>, TRUE))

\* pl0_tac_call_func with no arguments, which is how every identifier in an
\* expression is parsed.
Factor(x) ==
    LET d1 == val!DepthOf(<<x>>) d2 == var!DepthOf(<<x>>) d3 == func!DepthOf(<<x>>)
    IN IF d1 > d2 /\ d1 > d3 THEN Get(valtb, val!Find(<<x>>, TRUE))
       ELSE IF d2 > d3 THEN Get(vartb, var!Find(<<x>>, TRUE))
       ELSE Get(functb, func!Find(<<x>>, TRUE))

\* Mutant: functions are not considered.
AssignedVariable(x) == Get(vartb, var!Find(<<x>>, TRUE))

\* pl0_tac_assign_stmt: the function or the variable x := ... sets.
Assigned(x) ==
    IF func!DepthOf(<<x>>) > var!DepthOf(<<x>>)
    THEN Get(functb, func!Find(<<x>>, TRUE))
    ELSE Get(vartb, var!Find(<<x>>, TRUE))

\* Mutant: only the innermost scope is searched.
ProcedureHere(x) == Get(proctb, proc!Find(<<x>>, FALSE))

\* pl0_tac_call_proc, pl0_tac_call_func with arguments.
Procedure(x) == Get(proctb, proc!Find(<<x>>, TRUE))
Function(x) == Get(functb, func!Find(<<x>>, TRUE))

\* SimpleAllocator::addr: the place of a value named n, and how far out it is.
Located(n) == Get(loctb, loc!Find(n, TRUE))

Statement(fails, crashes) ==
    /\ Here.phase = "body" /\ status # "crash"
    /\ status' = IF crashes THEN "crash" ELSE IF fails THEN "error" ELSE status
    /\ UNCHANGED <<tables, scope, part, decls>>

Assign(x) == Statement(Assigned(x) = Undeclared, FALSE)
Identifier(x) ==
    LET f == Factor(x)
    IN Statement(f = Undeclared, f.data.sort = "func" /\ f.data.params # 0)

\* One name of a read statement; the variable of a for loop; the array of an
\* indexed factor or assignment.
UseVariable(x) == Statement(~var!Found(<<x>>, TRUE), FALSE)

\* A call with n arguments.  The place of the error of a call without any is
\* taken from its missing list of arguments.
Call(r, n) ==
    LET differs == n # r.data.params
    IN Statement(r = Undeclared \/ differs, differs /\ n = 0)
CallProc(x, n) == Call(Procedure(x), n)
CallFunc(x, n) == n > 0 /\ Call(Function(x), n)

Stopped ==
    /\ status = "crash" \/ (Here.phase = "end" /\ scope = <<>>)
    /\ UNCHANGED vars

Next ==
    \/ \E x \in Id : ConstStmt(x) \/ VarStmt(x) \/ Param(x)
    \/ \E x \in Id : Assign(x) \/ Identifier(x) \/ UseVariable(x)
    \/ \E x \in Id, sort \in {"proc", "func"}, n \in 0..MaxParams : Routine(sort, x, n)
    \/ \E x \in Id, n \in 0..MaxParams : CallProc(x, n) \/ CallFunc(x, n)
    \/ Header \/ Open \/ Prog \/ Compound \/ EndProg \/ EndRoutine \/ Stopped

Spec == Init /\ [][Next]_vars

-------------------------------------------------------------------------------
InProg == {"const", "var", "exec", "body"}
Phases == InProg \cup {"params", "header", "prog", "end"}

\* The types of the variables.
TypeOK ==
    /\ scope \in Seq(Id)
    /\ part \in Seq([phase : Phases, sort : {"proc", "func"}, params : Nat, left : Nat])
    /\ status \in {"ok", "error", "crash"}
    /\ Len(part) = Len(scope) + 1
    /\ \A t \in {valtb, vartb, proctb, functb, loctb}, i \in 1..MaxEntries :
         i <= Len(t) => t[i] \in [name : Name, data : Data]
    /\ \A i \in 1..Len(decls) : decls[i] \in [name : Name, data : Data]

\* The tables are tagged alike wherever depths found in two of them are
\* compared, and the code generator is one level deeper for every routine; a
\* detag() always answers a tag().  Code: the tag() and detag() calls of
\* pl0_tac_gen.cpp and pl0_x86.cpp.
InStep ==
    LET levels == 2 * Len(scope) + IF Here.phase \in InProg THEN 2 ELSE 1
        routines == IF Here.phase \in {"params", "header"} THEN levels - 1 ELSE levels
    IN /\ Len(valtags) = levels /\ Len(vartags) = levels
       /\ Len(proctags) = routines /\ Len(functags) = routines
       /\ Len(loctags) = Len(scope) + 2

\* Of a program with errors nothing is said.
InBody == Here.phase = "body" /\ status = "ok"

\* The last declaration of x still in scope.
Meaning(x) ==
    LET S == {i \in 1..Len(decls) : decls[i].name = <<x>>}
    IN IF S = {} THEN Undeclared ELSE decls[LastOf(S)]
Means(x, sorts) == Meaning(x).data.sort \in sorts
Variables == {"var", "param"}

\* Used in an expression, a name means its last declaration in scope, though
\* the declarations are spread over three tables.  Code: the comparison of
\* depths in pl0_tac_call_func.
ReadsLastDeclared ==
    InBody => \A x \in Id :
        ~Means(x, {"proc"}) => Factor(x).data = Meaning(x).data

\* A statement assigns the variable, or the result of the function, declared
\* last.  Code: the comparison of depths in pl0_tac_assign_stmt.
AssignsLastDeclared ==
    InBody => \A x \in Id :
        Means(x, Variables \cup {"func"}) => Assigned(x).data = Meaning(x).data

\* A call reaches the routine declared last.
CallsLastDeclared ==
    InBody => \A x \in Id :
        /\ Means(x, {"proc"}) => Procedure(x).data = Meaning(x).data
        /\ Means(x, {"func"}) => Function(x).data = Meaning(x).data

\* The code generator finds the variable the analysis meant, in the activation
\* of the routine that declares it, and the result of every function that is
\* being walked.  Code: SimpleAllocator::addr against pl0_tac_factor.
AtHome(v, n, level) == Located(n).data = v /\ loc!DepthOf(n) = level
LocatesDeclared ==
    InBody =>
        /\ \A x \in Id : Means(x, Variables) =>
             AtHome(Meaning(x).data, <<x>>, Len(Meaning(x).data.of) + 1)
        /\ \A k \in 2..Len(part) : part[k].sort = "func" =>
             loc!DepthOf(<<Qualifier>> \o SubSeq(scope, 1, k - 1)) = k

\* While no error is reported no scope declares a name twice, where the
\* parameters of a routine are a scope of their own.  Code: the validations of
\* pl0_tac_const_stmt, _var_stmt, _param, _procedure_stmt and _function_stmt.
DeclaredOnce ==
    status = "ok" => \A i, j \in 1..Len(decls) :
        /\ i # j /\ decls[i].name = decls[j].name
        /\ decls[i].data.of = decls[j].data.of
        => (decls[i].data.sort = "param") # (decls[j].data.sort = "param")
===============================================================================
