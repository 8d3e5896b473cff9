---------------------------- MODULE ScopeAnalyser ----------------------------
(***************************************************************************)
(* Scope analysis (src/scope_analyser.py, src/variable.py) and the offsets *)
(* of variables in their FunctionContexts (src/medium_level_ir.py).        *)
(*                                                                         *)
(* A program is a sequence of items: declarations, uses of names, and the  *)
(* beginnings and ends of bodies.  It is chosen item by item while the     *)
(* first pass visits it; the second pass visits the same items again.  A   *)
(* scope is named by the item that begins its body, the top scope by 0.    *)
(***************************************************************************)
EXTENDS LexicalScoping

CONSTANTS
  ParameterLists,  \* The lists of parameters of functions
  Constructs,      \* The statements whose bodies are sub scopes: "if", "while"
  LetsInSubscopes, \* TRUE: functions may have let statements in sub scopes
  NONE,            \* No name, no Variable
  MaxItems         \* Bound: items of a program

ASSUME ScopeAssumption ==
  /\ \A parameters \in ParameterLists : parameters \in Seq(Names)
  /\ Constructs \subseteq {"if", "while"}
  /\ LetsInSubscopes \in BOOLEAN
  /\ MaxItems \in Nat

VARIABLES
  program,       \* The items
  status,        \* "first", "second", "success", "error" or "assertion"
  next,          \* The item the second pass visits next
  scopes,        \* The visitor's stack of scopes, the innermost first
  functionStack, \* The functions whose bodies the first pass is in, the innermost last
  variables,     \* variables[s]: the Variables declared in scope s, in order
  children,      \* children[s]: the scopes pushed inside s, in order
  outerFunction, \* outer_function of each function
  resolved,      \* resolved_variable of each item that uses a name
  gathered,      \* [parameters, locals] of each function
  referred,      \* The Variables with referred_by_inner_functions set
  offsets        \* Offsets of Variables, in words

tree == <<variables, children>>
results == <<resolved, gathered, referred, offsets>>
vars == <<program, status, next, scopes, functionStack, tree, outerFunction, results>>

-----------------------------------------------------------------------------
(* Scopes and Variables.                                                    *)

(* A map with another entry.                                                *)
Including(map, key, value) ==
  [k \in DOMAIN map \cup {key} |-> IF k \in DOMAIN map THEN map[k] ELSE value]

ScopeType(s) ==
  CASE s = TopScope -> "top"
    [] s # TopScope /\ program[s].kind = "function" -> "function"
    [] OTHER -> "sub"

(* The scope that was innermost when s was created.                         *)
Parent(s) == CHOOSE p \in DOMAIN children : s \in ToSet(children[p])

(* The innermost scope which is not a sub scope.                            *)
CurrentAllocationScope == scopes[Min({k \in DOMAIN scopes : ScopeType(scopes[k]) # "sub"})]

Variable == [item : 0..MaxItems, name : Names,
             type : {"variable", "user_function", "builtin_function"},
             allocation : 0..MaxItems, isParameter : BOOLEAN]
ASSUME NoneAssumption == NONE \notin Variable /\ NONE \notin Begins

NewVariable(i, name, type, allocation, isParameter) ==
  [item |-> i, name |-> name, type |-> type, allocation |-> allocation,
   isParameter |-> isParameter]

HasVariable(s, name) == \E v \in ToSet(variables[s]) : v.name = name
GetVariable(s, name) == CHOOSE v \in ToSet(variables[s]) : v.name = name

ResolveInFunction(scope, name) ==
  IF HasVariable(scope, name) THEN GetVariable(scope, name)
  ELSE IF HasVariable(TopScope, name) THEN GetVariable(TopScope, name) ELSE NONE
Resolve(scope, name) ==
  LET resolve[s \in DOMAIN variables] ==
        CASE HasVariable(s, name) -> GetVariable(s, name)
          [] ~HasVariable(s, name) /\ s = TopScope -> NONE
          [] OTHER -> resolve[Parent(s)]
  IN resolve[scope]

(* Both passes add the scope to the children of the innermost one.          *)
Push(s) ==
  /\ children' = [Including(children, s, <<>>) EXCEPT ![Head(scopes)] = Append(@, s)]
  /\ scopes' = <<s>> \o scopes

Pop == scopes' = Tail(scopes)

Stop(outcome) ==
  /\ status' = outcome
  /\ UNCHANGED <<next, scopes, functionStack, tree, outerFunction, results>>

-----------------------------------------------------------------------------
(* The first pass: creates the scopes, and puts the functions into them.    *)

Item(kind, name, parameters) == [kind |-> kind, name |-> name, parameters |-> parameters]

Write(item) ==
  /\ status = "first" /\ Len(program) < MaxItems
  /\ program' = Append(program, item)

OpenItem == IF Head(scopes) = TopScope THEN NONE ELSE program[Head(scopes)].kind

(* Statements without a body: the first pass declares nothing for them.     *)
FirstVisitUse(name) ==
  /\ Write(Item("use", name, <<>>))
  /\ UNCHANGED <<status, next, scopes, functionStack, tree, outerFunction, results>>

FirstVisitLet(name) ==
  /\ LetsInSubscopes \/ CurrentAllocationScope \in {Head(scopes), TopScope}
  /\ Write(Item("let", name, <<>>))
  /\ UNCHANGED <<status, next, scopes, functionStack, tree, outerFunction, results>>

FirstVisitFunction(name, parameters) ==
  LET i == Len(program) + 1
      v == NewVariable(i, name, "user_function", CurrentAllocationScope, FALSE)
  IN /\ Write(Item("function", name, parameters))
     /\ \/ /\ HasVariable(Head(scopes), name)
           /\ Stop("error")
        \/ /\ ~HasVariable(Head(scopes), name)
           /\ variables' = [Including(variables, i, <<>>) EXCEPT ![Head(scopes)] = Append(@, v)]
           /\ outerFunction' = Including(outerFunction, i, Last(functionStack))
           /\ functionStack' = Append(functionStack, i)
           /\ Push(i)
           /\ UNCHANGED <<status, next, results>>

FirstVisitBody(kind) ==
  LET i == Len(program) + 1
  IN /\ Write(Item(kind, NONE, <<>>))
     /\ variables' = Including(variables, i, <<>>)
     /\ Push(i)
     /\ UNCHANGED <<status, next, functionStack, outerFunction, results>>

(* Every if statement has an else body, an empty one if the source has none.*)
FirstVisitElse ==
  LET i == Len(program) + 1
  IN /\ OpenItem = "if"
     /\ Write(Item("else", NONE, <<>>))
     /\ variables' = Including(variables, i, <<>>)
     /\ children' = [Including(children, i, <<>>) EXCEPT ![scopes[2]] = Append(@, i)]
     /\ scopes' = <<i>> \o Tail(scopes)
     /\ UNCHANGED <<status, next, functionStack, outerFunction, results>>

FirstVisitEnd ==
  /\ OpenItem \in {"function", "while", "else"}
  /\ Write(Item("end", NONE, <<>>))
  /\ functionStack' = IF OpenItem = "function" THEN Front(functionStack) ELSE functionStack
  /\ Pop
  /\ UNCHANGED <<status, next, tree, outerFunction, results>>

EndFirstPass ==
  /\ status = "first" /\ scopes = <<TopScope>>
  /\ status' = "second" /\ next' = 1
  /\ UNCHANGED <<program, scopes, functionStack, tree, outerFunction, results>>

-----------------------------------------------------------------------------
(* The second pass: puts the variables into the scopes and resolves names.  *)

Visit(kinds) ==
  /\ status = "second" /\ next <= Len(program) /\ program[next].kind \in kinds
  /\ next' = next + 1
  /\ UNCHANGED <<program, functionStack, outerFunction, offsets>>

Reject(kind) ==
  /\ status = "second" /\ next <= Len(program) /\ program[next].kind = kind
  /\ Stop("error")
  /\ UNCHANGED program

(* A Variable of a function, used in the code of another function.          *)
IsReferredFromInnerScope(v) == ScopeType(v.allocation) = "function" /\ v.allocation # Head(scopes)
IsReferredByInner(v) == ScopeType(v.allocation) = "function" /\ v.allocation # CurrentAllocationScope

VisitVariableExpression ==
  LET v == Resolve(Head(scopes), program[next].name)
  IN /\ Visit({"use"})
     /\ v # NONE
     /\ resolved' = Including(resolved, next, v)
     /\ referred' = referred \cup (IF IsReferredByInner(v) THEN {v} ELSE {})
     /\ UNCHANGED <<status, scopes, tree, gathered>>

RejectUndeclared ==
  /\ Reject("use")
  /\ Resolve(Head(scopes), program[next].name) = NONE

VisitLetStatement ==
  /\ Visit({"let"})
  /\ ~HasVariable(Head(scopes), program[next].name)
  /\ variables' = [variables EXCEPT ![Head(scopes)] =
       Append(@, NewVariable(next, program[next].name, "variable", CurrentAllocationScope, FALSE))]
  /\ UNCHANGED <<status, scopes, children, resolved, gathered, referred>>

RejectLet ==
  /\ Reject("let")
  /\ HasVariable(Head(scopes), program[next].name)

(* The parameters can be added to the scope of the function.                *)
ParametersAreNew == \A p \in ToSet(program[next].parameters) : ~HasVariable(next, p)
ParametersDifferAmongThemselves == IsInjective(program[next].parameters)
ParametersDiffer ==
  /\ IsInjective(program[next].parameters)
  /\ \A p \in ToSet(program[next].parameters) : ~HasVariable(next, p)

VisitFunctionStatement ==
  LET parameters == [k \in DOMAIN program[next].parameters |->
        NewVariable(next, program[next].parameters[k], "variable", next, TRUE)]
  IN /\ Visit({"function"})
     /\ ParametersDiffer
     /\ variables' = [variables EXCEPT ![next] = @ \o parameters]
     /\ Push(next)
     /\ UNCHANGED <<status, resolved, gathered, referred>>

RejectParameters == Reject("function") /\ ~ParametersDiffer

VisitBeginBody ==
  /\ Visit({"if", "while"})
  /\ Push(next)
  /\ UNCHANGED <<status, variables, resolved, gathered, referred>>

VisitElse ==
  /\ Visit({"else"})
  /\ children' = [children EXCEPT ![scopes[2]] = Append(@, next)]
  /\ scopes' = <<next>> \o Tail(scopes)
  /\ UNCHANGED <<status, variables, resolved, gathered, referred>>

(* The elements of a sequence that are in a set, in their order; SelectSeq, *)
(* written as a recursive function.                                         *)
Selected(sequence, wanted) ==
  LET selected[n \in 0..Len(sequence)] ==
        IF n = 0 THEN <<>>
        ELSE IF sequence[n] \in wanted THEN Append(selected[n - 1], sequence[n])
        ELSE selected[n - 1]
  IN selected[Len(sequence)]

ProperVariables == {v \in Variable : v.type = "variable"}
Parameters == {v \in Variable : v.isParameter}

(* The Variables of the scope and of the scopes inside it that belong to    *)
(* the same function.                                                       *)
VariablesFromScopeChain(scope) ==
  LET chain[s \in DOMAIN children] ==
        variables[s] \o FlattenSeq([k \in DOMAIN children[s] |->
          IF ScopeType(children[s][k]) = "function" THEN <<>> ELSE chain[children[s][k]]])
  IN Selected(chain[scope], ProperVariables)

NamesDiffer(vs) == \A j, k \in DOMAIN vs : vs[j].name = vs[k].name => j = k

(* Function.addVariable asserts that the names of locals differ.            *)
VisitEnd ==
  LET s == Head(scopes)
      all == VariablesFromScopeChain(s)
      parameters == Selected(all, Parameters)
      locals == Selected(all, Variable \ Parameters)
  IN /\ Visit({"end"})
     /\ Pop
     /\ gathered' = IF ScopeType(s) = "function"
                    THEN Including(gathered, s, [parameters |-> parameters, locals |-> locals])
                    ELSE gathered
     /\ status' = IF ScopeType(s) = "function" /\ ~(NamesDiffer(parameters) /\ NamesDiffer(locals))
                  THEN "assertion" ELSE status
     /\ UNCHANGED <<tree, resolved, referred>>

-----------------------------------------------------------------------------
(* Offsets of the Variables: those of a sub scope come after those of the   *)
(* scopes around it, so scopes next to each other share words.              *)

(* The Variables that are given words when scope s is reached.              *)
AllocatedIn(s) ==
  IF ScopeType(s) = "function" THEN gathered[s].parameters \o gathered[s].locals
  ELSE Selected(variables[s], ProperVariables)

FirstOffsetFromZero(scope) == 0
FirstOffset(scope) ==
  LET first[s \in DOMAIN children] ==
        IF ScopeType(s) # "sub" THEN 0 ELSE first[Parent(s)] + Len(AllocatedIn(Parent(s)))
  IN first[scope]

IndexIn(vs, v) == CHOOSE k \in DOMAIN vs : vs[k] = v

ComputeVariableOffsets ==
  /\ status = "second" /\ next > Len(program)
  /\ status' = "success"
  /\ offsets' = [v \in UNION {ToSet(AllocatedIn(s)) : s \in DOMAIN variables} |->
       LET s == CHOOSE s \in DOMAIN variables : v \in ToSet(variables[s])
       IN FirstOffset(s) + IndexIn(AllocatedIn(s), v) - 1]
  /\ UNCHANGED <<program, next, scopes, functionStack, tree, outerFunction,
                 resolved, gathered, referred>>

(* function_param_and_local_counts                                          *)
ParamAndLocalCount(f) ==
  LET scopesOf == {s \in DOMAIN variables :
        \/ s = f
        \/ /\ ScopeType(s) = "sub"
           /\ LET owner[t \in DOMAIN variables] ==
                    IF ScopeType(t) # "sub" THEN t ELSE owner[Parent(t)]
              IN owner[s] = f}
  IN Max({FirstOffset(s) + Len(AllocatedIn(s)) : s \in scopesOf})

-----------------------------------------------------------------------------
Init ==
  /\ program = <<>>
  /\ status = "first"
  /\ next = 1
  /\ scopes = <<TopScope>>
  /\ functionStack = <<TopScope>>
  /\ variables = [s \in {TopScope} |-> [k \in 1..Len(SetToSeq(Builtins)) |->
       NewVariable(0, SetToSeq(Builtins)[k], "builtin_function", TopScope, FALSE)]]
  /\ children = [s \in {TopScope} |-> <<>>]
  /\ outerFunction = <<>>
  /\ resolved = <<>>
  /\ gathered = <<>>
  /\ referred = {}
  /\ offsets = <<>>

Next ==
  \/ \E name \in Names : FirstVisitUse(name) \/ FirstVisitLet(name)
  \/ \E name \in Names, parameters \in ParameterLists : FirstVisitFunction(name, parameters)
  \/ \E kind \in Constructs : FirstVisitBody(kind)
  \/ FirstVisitElse
  \/ FirstVisitEnd
  \/ EndFirstPass
  \/ VisitVariableExpression \/ RejectUndeclared
  \/ VisitLetStatement \/ RejectLet
  \/ VisitFunctionStatement \/ RejectParameters
  \/ VisitBeginBody \/ VisitElse \/ VisitEnd
  \/ ComputeVariableOffsets

Spec == Init /\ [][Next]_vars

-----------------------------------------------------------------------------
(* Properties.                                                              *)

(* Scopes have Variables and children, and the outcome is one of four.      *)
TypeOK ==
  /\ status \in {"first", "second", "success", "error", "assertion"}
  /\ DOMAIN variables = DOMAIN children
  /\ \A s \in DOMAIN variables :
       /\ ToSet(variables[s]) \subseteq Variable
       /\ NamesDiffer(variables[s])
       /\ ToSet(children[s]) \subseteq DOMAIN children
  /\ ToSet(scopes) \subseteq DOMAIN children
  /\ DOMAIN outerFunction \subseteq DOMAIN program
  /\ Range(resolved) \subseteq Variable
  /\ referred \subseteq Variable

(* The declaration of a Variable, as in DeclarationsIn, and its body.       *)
DeclarationOf(p, v) ==
  IF v.isParameter THEN -IndexIn(p[v.item].parameters, v.name) ELSE v.item
DeclaredIn(p, v) ==
  IF v.isParameter THEN v.item ELSE IF v.item = 0 THEN TopScope ELSE Body(p, v.item)

(* A name refers to the declaration in the innermost body around its use:   *)
(* any function of that body, also a later one, but only an earlier         *)
(* variable (Scope.resolve, after the two passes).                          *)
ResolvesLexically ==
  \A i \in DOMAIN resolved :
    Meaning(program, i) = {<<DeclaredIn(program, resolved[i]), DeclarationOf(program, resolved[i])>>}

(* The analysis rejects a program exactly if a name is declared twice in a  *)
(* body or used where it is not declared (ScopeError).  No assertion fails,  *)
(* unless a function has let statements in its sub scopes.                  *)
RejectsExactly ==
  /\ status = "success" => ~IsRedeclared(program) /\ ~IsUndeclared(program)
  /\ status = "error" => IsRedeclared(program) \/ IsUndeclared(program)
  /\ status = "assertion" => LetsInSubscopes

(* A program is accepted or rejected; shadowing is allowed in every body    *)
(* (the comment at Scope.addVariable), so no assertion fails.               *)
NoAssertionFails == status # "assertion"

(* A function and the functions around it.                                  *)
OuterFunctions(outer, function) ==
  LET chain[f \in {TopScope} \cup DOMAIN outer] ==
        IF f = TopScope THEN {f} ELSE {f} \cup chain[outer[f]]
  IN chain[function]

(* A Variable which is used in code of another function is marked as such,  *)
(* and can be reached from there: its allocation scope is on the chain of   *)
(* outer functions (the loops of __getVariableDepth and                     *)
(* __createStoreOrLoadTarget end before they run out of functions).         *)
CapturesAreKnown ==
  LET captures == {i \in DOMAIN resolved :
        ScopeType(resolved[i].allocation) = "function"
          /\ resolved[i].allocation # FunctionAround(program, i)}
  IN /\ referred = {resolved[i] : i \in captures}
     /\ \A i \in DOMAIN resolved : resolved[i].allocation \in OuterFunctions(outerFunction, FunctionAround(program, i))

(* Every function has all its variables once, parameters first; every       *)
(* variable lies within its FunctionContext; and two variables of a context *)
(* have different words if the body of one is inside the body of the other  *)
(* (Function.addVariable, computeVariableOffsets...).                       *)
SlotsDisjoint ==
  status = "success" =>
    LET declared == {i \in DOMAIN program : program[i].kind = "let"}
        inside(u, v) == DeclaredIn(program, v) \in Around(program, u.item) \cup {DeclaredIn(program, u)}
    IN /\ {v.item : v \in {v \in DOMAIN offsets : ~v.isParameter}} = declared
       /\ \A v \in DOMAIN offsets : offsets[v] \in 0..(ParamAndLocalCount(v.allocation) - 1)
       /\ \A f \in DOMAIN gathered : \A k \in DOMAIN gathered[f].parameters :
            offsets[gathered[f].parameters[k]] = k - 1
       /\ \A u, v \in DOMAIN offsets :
            u # v /\ u.allocation = v.allocation /\ inside(u, v) => offsets[u] # offsets[v]
=============================================================================
