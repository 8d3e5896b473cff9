------------------------------ MODULE Contexts -------------------------------
(***************************************************************************)
(* Functions, closures and their variables, in the interpreter and in the  *)
(* compiled code, executed side by side (src/interpreter.py,               *)
(* src/medium_level_ir.py, src/pseudo_assembler.py).                       *)
(*                                                                         *)
(* The interpreter finds a variable by its name, along the chain of the    *)
(* functions' outer contexts.  The compiled code keeps no names: it walks  *)
(* a number of outer contexts that the compiler has computed.  It creates  *)
(* a FunctionContext for every direct call, and one for every mention of a *)
(* function as a value, which all calls through that value share.          *)
(*                                                                         *)
(* The program is not fixed: a behaviour is any sequence of statements     *)
(* that the scopes allow and that the interpreter runs without an error.   *)
(***************************************************************************)
EXTENDS Integers, Sequences, SequencesExt

CONSTANTS
  Functions,      \* The functions of the program, Main among them
  Main,           \* The top level
  Outer,          \* Outer[f]: the function that encloses f
  Variables,      \* The variables (a name declared twice is two variables)
  Scope,          \* Scope[v]: the function whose scope v is allocated in
  Parameters,     \* The variables which are parameters, at most one a function
  Numbers,
  NONE,           \* No argument, no value returned, no variable assigned to
  Assigned,       \* The expressions in assignments,
  Arguments,      \* in calls,
  Returned,       \* in return statements,
  Targets,        \* and the variables that results of calls are assigned to
  UNSET,          \* A word of a FunctionContext nothing has been written to
  MaxContexts,    \* Bound: FunctionContexts created by each of the two
  MaxCalls,       \* Bound: calls in progress
  OverlappingCalls \* TRUE: a function may be called through a variable while
                   \* the FunctionContext of that variable's Function is in use

InnerFunctions == Functions \ {Main}

ASSUME ProgramAssumption ==
  /\ Main \in Functions
  /\ Outer \in [InnerFunctions -> Functions]
  /\ Scope \in [Variables -> Functions]
  /\ Parameters \subseteq {v \in Variables : Scope[v] # Main}
  /\ \A p, q \in Parameters : Scope[p] = Scope[q] => p = q
  /\ Assigned \cup Arguments \cup Returned
       \subseteq ({"number"} \X Numbers) \cup ({"variable"} \X Variables)
                  \cup ({"function"} \X InnerFunctions)
  /\ Targets \subseteq Variables
  /\ OverlappingCalls \in BOOLEAN

(* Functions are nested in each other by the text of the program.           *)
ASSUME NestingAssumption ==
  /\ IsFiniteSet(Functions)
  /\ \E level \in [Functions -> 0..Cardinality(Functions)] :
       \A g \in InnerFunctions : level[Outer[g]] < level[g]

(* The names of variables, functions and special values are all different.  *)
ASSUME NamesAssumption ==
  /\ Variables \cap Functions = {}
  /\ NONE \notin ({"number"} \X Numbers) \cup ({"variable"} \X Variables)
                  \cup ({"function"} \X InnerFunctions) \cup Variables
  /\ UNSET \notin ({"number"} \X Numbers)
                   \cup ({"function"} \X [code : InnerFunctions, context : Nat])

VARIABLES
  contexts,     \* Interpreter: FunctionContexts, [function, symbols]
  stack,        \* Interpreter: __function_context_stack, the newest first
  targets,      \* The variable that the result of each call is assigned to
  heapContexts, \* Compiled code: FunctionContexts, [function, outer, slots, result]
  frames,       \* Compiled code: its stack frames, [code, context], the newest first
  twin          \* twin[c]: the heap context of the call that context c is for

vars == <<contexts, stack, targets, heapContexts, frames, twin>>

-----------------------------------------------------------------------------
(* The program: what is visible where.                                      *)

VariablesOf(f) == {v \in Variables : Scope[v] = f}
ParametersOf(f) == {p \in Parameters : Scope[p] = f}
InnerOf(f) == {g \in InnerFunctions : Outer[g] = f}

AllocationScope(x) == IF x \in Variables THEN Scope[x] ELSE Outer[x]

Enclosing[f \in Functions] ==
  {f} \cup (IF f = Main THEN {} ELSE Enclosing[Outer[f]])

Visible(f) == {x \in Variables \cup InnerFunctions : AllocationScope(x) \in Enclosing[f]}

UNDEFINED == <<"undefined", NONE>>

-----------------------------------------------------------------------------
(* The interpreter.  A Function is its statement and the context it was     *)
(* created in.                                                              *)

RunningFunction(i) == contexts[stack[i]].function.statement

(* The context x is found in, from context c outwards; 0 if in none.        *)
FoundFrom(c, x) ==
  LET found[k \in 0..Len(contexts)] ==
        IF k = 0 \/ x \in DOMAIN contexts[k].symbols THEN k
        ELSE found[contexts[k].function.outer]
  IN found[c]

(* The variables of the top scope are looked for in the last context only.  *)
Found(i, x) ==
  FoundFrom(IF AllocationScope(x) = Main THEN Last(stack) ELSE stack[i], x)

IsBound(x) == x \in Visible(RunningFunction(1)) /\ Found(1, x) # 0

HasValue(e) == e # NONE => (e[1] = "number" \/ IsBound(e[2]))

Value(e) ==
  CASE e = NONE -> UNDEFINED
    [] e # NONE /\ e[1] = "number" -> e
    [] OTHER -> contexts[Found(1, e[2])].symbols[e[2]]

(* A let statement adds its variable to the running context; an assignment  *)
(* updates the variable where it is found.                                  *)
WithVariable(cs, i, v, value) ==
  LET c == IF Scope[v] = RunningFunction(i) THEN stack[i] ELSE Found(i, v)
  IN [cs EXCEPT ![c].symbols =
        [x \in DOMAIN @ \cup {v} |-> IF x = v THEN value ELSE @[x]]]

(* The function declarations of a body are hoisted: their Functions exist   *)
(* before its first statement runs.                                         *)
NewFunctionContext(function, c, arguments) ==
  [function |-> function,
   symbols |-> [x \in DOMAIN arguments \cup InnerOf(function.statement) |->
                  IF x \in DOMAIN arguments THEN arguments[x]
                  ELSE <<"function", [statement |-> x, outer |-> c]>>]]

-----------------------------------------------------------------------------
(* The compiled code.  A Function is its code and its FunctionContext.      *)

(* Links of the static chain from code of f to a variable of the scope s.   *)
VariableDepth(f, s) ==
  LET depth[g \in Functions] == IF g \in {s, Main} THEN 0 ELSE 1 + depth[Outer[g]]
  IN depth[f]

OuterFunctionContextOnce(context, depth) ==
  IF depth = 0 THEN context ELSE heapContexts[context].outer
OuterFunctionContext(context, depth) ==
  LET walk[d \in 0..depth] ==
        IF d = 0 THEN context ELSE heapContexts[walk[d - 1]].outer
  IN walk[depth]

(* The context that frame i reaches the variable, or the function, x in.    *)
ContextOf(i, x) ==
  OuterFunctionContext(frames[i].context, VariableDepth(frames[i].code, AllocationScope(x)))

(* A result that no return statement writes keeps the word it finds there.  *)
CreateFunctionContextInCaller(g) ==
  [function |-> g, outer |-> frames[1].context,
   slots |-> [v \in VariablesOf(g) |-> UNSET], result |-> UNSET]
CreateFunctionContextOfCallersSize(g) ==
  [function |-> g, outer |-> ContextOf(1, g),
   slots |-> [v \in VariablesOf(frames[1].code) |-> UNSET], result |-> UNSET]
CreateFunctionContext(g) ==
  [function |-> g, outer |-> ContextOf(1, g),
   slots |-> [v \in VariablesOf(g) |-> UNSET], result |-> UNSET]

(* What evaluating e adds to the heap hs, and its value.                    *)
HeapAfter(hs, e) ==
  IF e # NONE /\ e[1] = "function" THEN Append(hs, CreateFunctionContext(e[2])) ELSE hs

CompiledValue(hs, e) ==
  CASE e[1] = "number" -> e
    [] e[1] = "variable" -> heapContexts[ContextOf(1, e[2])].slots[e[2]]
    [] e[1] = "function" -> <<"function", [code |-> e[2], context |-> Len(hs) + 1]>>

StoreVariable(hs, i, v, value) == [hs EXCEPT ![ContextOf(i, v)].slots[v] = value]

AddParameter(hs, context, p, value) == [hs EXCEPT ![context].slots[p] = value]

-----------------------------------------------------------------------------
(* Statements.                                                              *)

(* A let statement of the running function, or an assignment to a variable  *)
(* that exists.  The compiler does not translate assignments to parameters  *)
(* of an outer function.                                                    *)
CanAssign(v) ==
  /\ v \in Visible(RunningFunction(1))
  /\ IsBound(v) \/ Scope[v] = RunningFunction(1)
  /\ v \in Parameters => Scope[v] = RunningFunction(1)

Assign(v, e) ==
  /\ CanAssign(v)
  /\ HasValue(e)
  /\ Len(HeapAfter(heapContexts, e)) <= MaxContexts
  /\ contexts' = WithVariable(contexts, 1, v, Value(e))
  /\ heapContexts' = StoreVariable(HeapAfter(heapContexts, e), 1, v, CompiledValue(heapContexts, e))
  /\ UNCHANGED <<stack, targets, frames, twin>>

(* The interpreter's part of a call.                                        *)
EnterFunction(function, e) ==
  LET c == Len(contexts) + 1
      p == ParametersOf(function.statement)
  IN /\ contexts' = Append(contexts,
                      NewFunctionContext(function, c, [v \in p |-> Value(e)]))
     /\ stack' = <<c>> \o stack

(* A call of the function with code g in heap context k: the argument is    *)
(* evaluated when the context exists, and written into it.                  *)
EnterCode(hs, g, k, e) ==
  /\ Len(HeapAfter(hs, e)) <= MaxContexts
  /\ heapContexts' =
       IF e = NONE THEN hs
       ELSE LET p == CHOOSE p \in ParametersOf(g) : TRUE
            IN AddParameter(HeapAfter(hs, e), k, p, CompiledValue(hs, e))
  /\ frames' = <<[code |-> g, context |-> k]>> \o frames
  /\ twin' = Append(twin, k)

(* The interpreter raises an error on a wrong number of arguments.          *)
CanCall(g, e, target) ==
  /\ Len(stack) <= MaxCalls /\ Len(contexts) < MaxContexts
  /\ HasValue(e)
  /\ (e = NONE) <=> ParametersOf(g) = {}
  /\ target # NONE => CanAssign(target)
  /\ targets' = <<target>> \o targets

CallDirect(g, e, target) ==
  /\ IsBound(g)
  /\ CanCall(g, e, target)
  /\ EnterFunction(Value(<<"function", g>>)[2], e)
  /\ EnterCode(Append(heapContexts, CreateFunctionContext(g)), g, Len(heapContexts) + 1, e)

(* Nothing refers to heap context k but a Function.                         *)
Unused(k) ==
  /\ \A i \in DOMAIN frames : frames[i].context # k
  /\ \A c \in DOMAIN heapContexts : heapContexts[c].outer # k

CallFromVariable(v, e, target) ==
  /\ IsBound(v) /\ Value(<<"variable", v>>)[1] = "function"
  /\ LET function == Value(<<"variable", v>>)[2]
         callee == CompiledValue(heapContexts, <<"variable", v>>)[2]
     IN /\ OverlappingCalls \/ Unused(callee.context)
        /\ CanCall(function.statement, e, target)
        /\ EnterFunction(function, e)
        /\ EnterCode(heapContexts, callee.code, callee.context, e)

(* A return statement, or the end of the body.  The caller reads the result *)
(* from the callee's context.                                               *)
Return(e) ==
  LET hs == HeapAfter(heapContexts, e)
      k == frames[1].context
      returned == IF e = NONE THEN hs
                  ELSE [hs EXCEPT ![k].result = CompiledValue(heapContexts, e)]
      v == Head(targets)
  IN /\ Len(stack) > 1
     /\ HasValue(e)
     /\ Len(hs) <= MaxContexts
     /\ contexts' = IF v = NONE THEN contexts ELSE WithVariable(contexts, 2, v, Value(e))
     /\ heapContexts' = IF v = NONE THEN returned
                        ELSE StoreVariable(returned, 2, v, returned[k].result)
     /\ stack' = Tail(stack)
     /\ frames' = Tail(frames)
     /\ targets' = Tail(targets)
     /\ UNCHANGED twin

-----------------------------------------------------------------------------
Init ==
  /\ contexts = <<NewFunctionContext([statement |-> Main, outer |-> 0], 1, [v \in {} |-> NONE])>>
  /\ stack = <<1>>
  /\ targets = <<>>
  /\ heapContexts = <<[function |-> Main, outer |-> 0,
                       slots |-> [v \in VariablesOf(Main) |-> UNSET], result |-> UNSET]>>
  /\ frames = <<[code |-> Main, context |-> 1]>>
  /\ twin = <<1>>

Next ==
  \/ \E v \in Variables, e \in Assigned : Assign(v, e)
  \/ \E g \in InnerFunctions, e \in Arguments \cup {NONE}, t \in Targets \cup {NONE} :
       CallDirect(g, e, t)
  \/ \E v \in Variables, e \in Arguments \cup {NONE}, t \in Targets \cup {NONE} :
       CallFromVariable(v, e, t)
  \/ \E e \in Returned \cup {NONE} : Return(e)

Spec == Init /\ [][Next]_vars

-----------------------------------------------------------------------------
(* Properties.                                                              *)

InterpreterValues ==
  ({"number"} \X Numbers) \cup {UNDEFINED}
    \cup ({"function"} \X [statement : InnerFunctions, outer : DOMAIN contexts])

HeapValues ==
  ({"number"} \X Numbers)
    \cup ({"function"} \X [code : InnerFunctions, context : DOMAIN heapContexts])

(* Every FunctionContext of the compiled code has one word for each         *)
(* parameter and local of its function, and nothing else is written to.     *)
TypeOK ==
  /\ \A c \in DOMAIN contexts :
       /\ contexts[c].function \in [statement : Functions, outer : 0..(c - 1)]
       /\ LET f == contexts[c].function.statement
          IN DOMAIN contexts[c].symbols \subseteq VariablesOf(f) \cup InnerOf(f)
       /\ \A x \in DOMAIN contexts[c].symbols : contexts[c].symbols[x] \in InterpreterValues
  /\ \A k \in DOMAIN heapContexts :
       /\ heapContexts[k].function \in Functions
       /\ heapContexts[k].outer \in 0..(k - 1)
       /\ heapContexts[k].slots \in [VariablesOf(heapContexts[k].function) -> HeapValues \cup {UNSET}]
       /\ heapContexts[k].result \in HeapValues \cup {UNSET}
  /\ Len(stack) = Len(frames) /\ Len(targets) = Len(stack) - 1
  /\ twin \in Seq(DOMAIN heapContexts) /\ Len(twin) = Len(contexts)

(* A value of the interpreter and a word of the compiled code are the same: *)
(* functions have the same code and were created in contexts of the same    *)
(* call.  Where the interpreter has no value the word may be anything.      *)
SameValue(value, word) ==
  CASE value[1] = "undefined" -> TRUE
    [] value[1] = "number" -> word = value
    [] value[1] = "function" ->
         /\ word # UNSET /\ word[1] = "function"
         /\ word[2].code = value[2].statement
         /\ heapContexts[word[2].context].outer = twin[value[2].outer]

(* Compiled code finds in every variable what the interpreter finds: in all *)
(* calls in progress, for all variables visible there that have a value,    *)
(* however calls, closures and assignments through them were interleaved    *)
(* (PseudoAssembler.__createForLoad and __createForStore against            *)
(* FunctionContext.variableValue and updateVariable).                       *)
SameValues ==
  \A i \in DOMAIN stack : \A v \in Visible(RunningFunction(i)) \cap Variables :
    Found(i, v) # 0 =>
      LET k == ContextOf(i, v)
      IN /\ heapContexts[k].function = Scope[v]
         /\ SameValue(contexts[Found(i, v)].symbols[v], heapContexts[k].slots[v])

(* The static chain: from each call in progress, the context that the       *)
(* compiled code reaches for each enclosing function is the context of that *)
(* function's call in which the closure was created, and not one of a more  *)
(* recent call (CreateFunctionContextForFunction and the interpreter's      *)
(* outer_function_context).                                                 *)
LexicalChain ==
  \A i \in DOMAIN stack :
    /\ frames[i].code = RunningFunction(i)
    /\ LET chain[c \in 0..Len(contexts)] ==
             IF c = 0 THEN {} ELSE {c} \cup chain[contexts[c].function.outer]
       IN \A c \in chain[stack[i]] :
            LET f == contexts[c].function.statement
                k == OuterFunctionContext(frames[i].context, VariableDepth(frames[i].code, f))
            IN k = twin[c] /\ heapContexts[k].function = f

(* Calls in progress have parameters and locals of their own, as            *)
(* tests/every_function_invocation_has_unique_locals.in demands.            *)
UniqueLocals ==
  \A i, j \in DOMAIN frames :
    i # j /\ VariablesOf(frames[i].code) # {} => frames[i].context # frames[j].context
=============================================================================
