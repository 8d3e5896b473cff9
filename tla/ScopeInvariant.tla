--------------------------- MODULE ScopeInvariant -----------------------------
(***************************************************************************)
(* The inductive invariant of ScopeAnalyser.                               *)
(*                                                                         *)
(* The rules of the language are about the items of a program; the         *)
(* analyser knows only its stack, its tree of scopes and the Variables it  *)
(* has put into them.  The invariant says what each of the two stands for  *)
(* in the program when a pass has come to an item, in either pass.         *)
(***************************************************************************)
EXTENDS ScopeAnalyser

Items ==
  [kind : {"use", "let"}, name : Names, parameters : {<<>>}]
    \cup [kind : {"function"}, name : Names, parameters : ParameterLists]
    \cup [kind : {"if", "while", "else", "end"}, name : {NONE}, parameters : {<<>>}]

(* No item ends the top level.                                              *)
Nested(p) ==
  /\ p \in Seq(Items)
  /\ \A i \in DOMAIN p : p[i].kind \in Ends => Body(p, i) # TopScope

(* The scopes of a program, the scope around one, and the innermost function*)
(* it belongs to.                                                           *)
ScopesOf(p) == {TopScope} \cup {b \in DOMAIN p : p[b].kind \in Begins}
ScopeAround(p, s) == Max(Around(p, s + 1) \ {s})
FunctionsAround(p, i) == {b \in Around(p, i) : IsFunction(p, b)}

(* Where the pass is.                                                       *)
Position == IF status = "first" THEN Len(program) + 1 ELSE next
Active == status \in {"first", "second"}

(* A sequence has the elements of a set, in descending or ascending order.  *)
Descending(sequence, S) ==
  /\ sequence \in Seq(Nat) /\ ToSet(sequence) = S
  /\ \A j, k \in DOMAIN sequence : j < k => sequence[k] < sequence[j]
Ascending(sequence, S) ==
  /\ sequence \in Seq(Nat) /\ ToSet(sequence) = S
  /\ \A j, k \in DOMAIN sequence : j < k => sequence[j] < sequence[k]

(* The Variables of a scope when the second pass comes to item n: builtins, *)
(* all functions, the variables declared before n, and the parameters of a  *)
(* function before n.                                                       *)
BuiltinsOf(s) ==
  {NewVariable(0, name, "builtin_function", TopScope, FALSE) :
    name \in {name \in Builtins : s = TopScope}}
FunctionsOf(p, s) ==
  {NewVariable(j, p[j].name, "user_function", FunctionAround(p, j), FALSE) :
    j \in {j \in DOMAIN p : p[j].kind = "function" /\ Body(p, j) = s}}
LetsOf(p, n, s) ==
  {NewVariable(j, p[j].name, "variable", FunctionAround(p, j), FALSE) :
    j \in {j \in DOMAIN p : j < n /\ p[j].kind = "let" /\ Body(p, j) = s}}
ParameterVariables(p, n, s) ==
  {NewVariable(s, ParametersOf(p, s)[k], "variable", s, TRUE) :
    k \in {k \in DOMAIN ParametersOf(p, s) : s < n}}
DeclaredVariables(p, n, s) ==
  BuiltinsOf(s) \cup FunctionsOf(p, s) \cup LetsOf(p, n, s) \cup ParameterVariables(p, n, s)

-----------------------------------------------------------------------------
ProgramPart ==
  /\ Nested(program)
  /\ Len(program) <= MaxItems
  /\ next \in 1..(Len(program) + 1)
  /\ status = "first" => next = 1
  /\ DOMAIN resolved = {i \in DOMAIN program : i < next /\ program[i].kind = "use"}
  /\ \A i \in DOMAIN program :
       i < next /\ program[i].kind = "function" => IsInjective(program[i].parameters)

(* The stack is what is around the item, innermost first.                   *)
StackPart ==
  /\ Descending(scopes, Around(program, Position))
  /\ status = "first" => Ascending(functionStack, FunctionsAround(program, Position))

(* Every scope is inside the one around it, and inside no other.            *)
IsTree(p, ch) ==
  /\ DOMAIN ch = ScopesOf(p)
  /\ \A s \in ScopesOf(p) :
       /\ ch[s] \in Seq(ScopesOf(p) \ {TopScope})
       /\ \A c \in ToSet(ch[s]) : ScopeAround(p, c) = s
  /\ \A c \in ScopesOf(p) \ {TopScope} : \E s \in ScopesOf(p) : c \in ToSet(ch[s])

(* The outer function of a function is the innermost one around it.         *)
IsOuter(p, outer) ==
  /\ DOMAIN outer = {f \in DOMAIN p : p[f].kind = "function"}
  /\ \A f \in DOMAIN outer : outer[f] = FunctionAround(p, f)

(* Every scope has its Variables.                                           *)
AreDeclared(p, n, vs) ==
  /\ DOMAIN vs = ScopesOf(p)
  /\ \A s \in ScopesOf(p) :
       /\ vs[s] \in Seq(Variable)
       /\ NamesDiffer(vs[s])
       /\ ToSet(vs[s]) = DeclaredVariables(p, n, s)

(* Functions have no let statements in sub scopes.                          *)
LetsAreOutside(p) ==
  ~LetsInSubscopes =>
    \A i \in DOMAIN p : p[i].kind = "let" =>
      FunctionAround(p, i) \in {TopScope, Body(p, i)}

Parts ==
  /\ StackPart
  /\ IsTree(program, children)
  /\ IsOuter(program, outerFunction)
  /\ AreDeclared(program, next, variables)
  /\ LetsAreOutside(program)

Invariant ==
  /\ TypeOK
  /\ ProgramPart
  /\ ResolvesLexically
  /\ CapturesAreKnown
  /\ RejectsExactly
  /\ Active => Parts

-----------------------------------------------------------------------------
(* What a function gathers at its end, and the words of its variables.      *)

(* Both passes have added the scopes before item n to their parents.        *)
ArePushedTwice(p, n, ch) ==
  \A c \in ScopesOf(p) \ {TopScope} :
    c < n => \E j, k \in DOMAIN ch[ScopeAround(p, c)] :
               j # k /\ ch[ScopeAround(p, c)][j] = c /\ ch[ScopeAround(p, c)][k] = c

(* A function that ends has gathered its parameters and its variables. If   *)
(* it has one in a sub scope, it has gathered that twice and failed.        *)
EndedFunctions(p, n) == {f \in DOMAIN p : p[f].kind = "function" /\ f < n /\ f \notin Around(p, n)}
IsGathered(p, n, f, g) ==
  /\ g.parameters \in Seq(Variable) /\ g.locals \in Seq(Variable)
  /\ NamesDiffer(g.parameters) /\ NamesDiffer(g.locals)
  /\ ToSet(g.parameters) = ParameterVariables(p, n, f)
  /\ ToSet(g.locals) = LetsOf(p, n, f)
  /\ \A i \in DOMAIN p :
       i < n /\ p[i].kind = "let" /\ FunctionAround(p, i) = f => Body(p, i) = f
AreGathered(p, n, gatheredBy) ==
  /\ DOMAIN gatheredBy = EndedFunctions(p, n)
  /\ \A f \in DOMAIN gatheredBy : IsGathered(p, n, f, gatheredBy[f])

(* No else ends the body of a function.                                     *)
ElsesEndIfs(p) == \A i \in DOMAIN p : p[i].kind = "else" => ~IsFunction(p, Body(p, i))

SlotParts ==
  /\ ElsesEndIfs(program)
  /\ ArePushedTwice(program, next, children)
  /\ AreGathered(program, next, gathered)
  /\ status = "second" => Around(program, Len(program) + 1) = {TopScope}

SlotInvariant == Active => SlotParts
=============================================================================
