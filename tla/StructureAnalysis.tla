--------------------------- MODULE StructureAnalysis ---------------------------
(***************************************************************************)
(* From the calls of a program to its structures: the expressions are      *)
(* simplified as they are folded (folded_ssa/builder.rs), and then the     *)
(* fields read through a variable make it a pointer to a structure         *)
(* (structure_analysis.rs).                                                *)
(*                                                                         *)
(* A function has, besides what FunctionCalls lists,                       *)
(*   exprs  the expressions of its instructions, as [role, e]: the role is *)
(*          cond, value, or address when the instruction writes to *e      *)
(*   names  what the variables of the expressions are: number n is         *)
(*          <<"stack", <<offset, version>>>> or <<"global", address>>      *)
(* and a program has lines, the file of names and types the user gives,    *)
(* which is read first.                                                    *)
(***************************************************************************)
EXTENDS FunctionCalls, Expressions, UserDefs

VARIABLES
  exprs,     \* as they are simplified
  stage,     \* fold, structures; done, panic
  analyzed,  \* the functions analyze_structure has come to
  registers, \* struct_vmrs: <<function, <<offset, version>>>> -> size, or Declared
  globals,   \* global_structs: address -> size
  globalAdds \* <<address, offset>>

structVars == <<exprs, stage, analyzed, registers, globals, globalAdds>>
vars == <<userVars, callVars, structVars>>

Declared == -1
Empty    == [x \in {} |-> 0]

Init ==
  /\ CallsInit /\ UserInit(program.lines)
  /\ exprs = [f \in Functions |-> Fun(f).exprs]
  /\ stage = "fold" /\ analyzed = {}
  /\ registers = Empty /\ globals = Empty /\ globalAdds = {}

\* The constants of an expression, while fold_function turns to it: not those of
\* an address that is written.
Simplifies(x) == x.role # "address" /\ SimplifyOnce(x.e) # <<>>
SimplifyExpr(f, i) ==
  /\ calls = "done" /\ stage = "fold" /\ Simplifies(exprs[f][i])
  /\ exprs' = [exprs EXCEPT ![f][i].e = Simplified(@)]
  /\ UNCHANGED <<callVars, stage, analyzed, registers, globals, globalAdds>>
Folded ==
  /\ calls = "done" /\ stage = "fold"
  /\ \A f \in Functions : \A i \in DOMAIN exprs[f] : ~Simplifies(exprs[f][i])
  /\ stage' = "structures"
  /\ UNCHANGED <<callVars, exprs, analyzed, registers, globals, globalAdds>>
-----------------------------------------------------------------------------
(* FieldAccessCollector.                                                   *)

Parts(e) ==
  LET R[n \in 0 .. 4] ==
        IF n = 0 THEN {e}
        ELSE R[n - 1] \cup UNION {CASE x.op \in {"deref", "not", "neg"} -> {x.a}
                                    [] x.op \in Arithmetic \cup Comparisons -> {x.a, x.b}
                                    [] OTHER -> {} : x \in R[n - 1]}
  IN  R[4]
\* e is base + offset, with a small offset.
FieldSum(e) == e.op = "+" /\ e.b.op = "const" /\ e.b.n < 10
\* `as usize`
Huge       == 1000000
AsUsize(n) == IF n < 0 THEN Huge ELSE n

Derefs(e) == {<<x.a.a, AsUsize(x.a.b.n)>> : x \in {x \in Parts(e) : x.op = "deref" /\ FieldSum(x.a)}}
Adds(e)   == {<<x.a, AsUsize(x.b.n)>> : x \in {x \in Parts(e) : FieldSum(x) /\ x.a.op = "var"}}

Name(f, x)    == Fun(f).names[x.n]
OnStack(f, x) == Name(f, x)[1] = "stack"

\* <<variable, offset>>
FieldsIn(f, e) ==
  Derefs(e) \cup {a \in Adds(e) : OnStack(f, a[1]) /\ \E d \in Derefs(e) : d[1] = a[1]}

Expressions(f) == {exprs[f][i].e : i \in DOMAIN exprs[f]}
NoVariable(f)  == \E e \in Expressions(f) : \E d \in Derefs(e) : d[1].op # "var"
Fields(f)      == UNION {FieldsIn(f, e) : e \in Expressions(f)}
\* Mutant of Biggest: the field that comes first.
BiggestNot(S)  == CHOOSE n \in S : \A m \in S : n <= m
Biggest(S)     == CHOOSE n \in S : \A m \in S : m <= n
SizeOf(f, F, name) == Biggest({d[2] : d \in {d \in F : Name(f, d[1]) = name}})

\* identify_function_argument_structs_from_user_defs
IsStructPointer(ty) == ty.k = "Pointer" /\ ty.of.k = "struct"
Arguments(f) ==
  IF f \in DOMAIN functions
    THEN {i \in DOMAIN functions[f] : \E ty \in functions[f][i] : IsStructPointer(ty)}
    ELSE {}
Unread(f)    == \E i \in Arguments(f) : Looked(callees[f].parameters, i) = {}
Given(f)     == UNION {Looked(callees[f].parameters, i) : i \in Arguments(f)}

AnalyzeFunction(f) ==
  /\ stage = "structures" /\ f \notin analyzed
  /\ IF Unread(f) \/ NoVariable(f)
       THEN stage' = "panic" /\ UNCHANGED <<analyzed, registers, globals, globalAdds>>
       ELSE LET F     == Fields(f)
                local == {d \in F : OnStack(f, d[1])}
                added == globalAdds \cup
                           {<<Name(f, a[1])[2], a[2]>> :
                              a \in {a \in UNION {Adds(e) : e \in Expressions(f)} : ~OnStack(f, a[1])}}
                size  == [a \in {Name(f, d[1])[2] : d \in {d \in F : ~OnStack(f, d[1])}} |->
                            Biggest({SizeOf(f, F, <<"global", a>>)}
                                      \cup {b[2] : b \in {b \in added : b[1] = a}})]
            IN  /\ registers' = [r \in DOMAIN registers \cup {<<f, v>> : v \in Given(f)}
                                      \cup {<<f, Name(f, d[1])[2]>> : d \in local} |->
                                   CASE r[1] # f         -> registers[r]
                                     [] r[2] \in Given(f) -> Declared
                                     [] OTHER             -> SizeOf(f, F, <<"stack", r[2]>>)]
                /\ globals' = [a \in DOMAIN globals \cup DOMAIN size |->
                                 IF a \notin DOMAIN size THEN globals[a]
                                 ELSE IF a \notin DOMAIN globals THEN size[a]
                                 ELSE Biggest({globals[a], size[a]})]
                /\ globalAdds' = added
                /\ analyzed' = analyzed \cup {f}
                /\ stage' = IF analyzed' = Functions THEN "done" ELSE stage
  /\ UNCHANGED <<callVars, exprs>>
-----------------------------------------------------------------------------
Analysis ==
  \/ CallsNext /\ UNCHANGED structVars
  \/ \E f \in Functions : \E i \in DOMAIN exprs[f] : SimplifyExpr(f, i)
  \/ Folded
  \/ \E f \in Functions : AnalyzeFunction(f)
Finished == (reading = "error" \/ calls = "panic" \/ stage \in {"done", "panic"}) /\ UNCHANGED vars

Next ==
  \/ UserNext /\ UNCHANGED <<callVars, structVars>>
  \/ reading = "done" /\ Analysis /\ UNCHANGED userVars
  \/ Finished

Spec == Init /\ [][Next]_vars
-----------------------------------------------------------------------------
\* Simplification keeps what an expression means: the value, or, where it is a
\* condition, whether it holds; !!x is x there only.
Memories == [0 .. 2 -> {-1, 0, 2}]
Same(x, y, role) == IF role = "cond" THEN (x = 0) <=> (y = 0) ELSE x = y
MeaningKept ==
  [][\A f \in Functions : \A i \in DOMAIN exprs[f] : \A mem \in Memories :
       exprs'[f][i] # exprs[f][i] =>
         Same(Eval(exprs[f][i].e, mem, 0), Eval(exprs'[f][i].e, mem, 0), exprs[f][i].role)]_exprs

\* A structure has every field that is read through a pointer to it, in whichever
\* order the functions come.
StructuresHold ==
  stage = "done" =>
    \A f \in Functions : \A e \in Expressions(f) : \A d \in Derefs(e) :
      LET name == Name(f, d[1])
      IN  IF OnStack(f, d[1])
            THEN registers[<<f, name[2]>>] = Declared \/ registers[<<f, name[2]>>] >= d[2]
            ELSE globals[name[2]] >= d[2]
=============================================================================
