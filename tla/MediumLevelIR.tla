---------------------------- MODULE MediumLevelIR ----------------------------
(***************************************************************************)
(* medium_level_ir.py: the instructions of the basic blocks, with the cache *)
(* that remembers which temporary a variable has been loaded into.          *)
(*                                                                          *)
(* An expression a + f() - b is the sequence of what it reads and calls,    *)
(* evaluated from left to right; the empty sequence is a number.            *)
(***************************************************************************)
EXTENDS ControlFlow, SequencesExt

VARIABLES
  code,     \* per block, the instructions created for it
  caches,   \* per block, variables_in_temporaries_at_end
  count     \* __temporary_count

ir_vars == <<code, caches, count>>

-----------------------------------------------------------------------------
(* An instruction uses temporaries and may set one.  "read" and "callee" are *)
(* not instructions: they mark the place where an expression takes the      *)
(* temporary as the value of the variable.                                  *)
Instruction(op, variable, from, to) ==
  [op |-> op, variable |-> variable, from |-> from, to |-> to]
Plain(op, from, to) == Instruction(op, CALL, from, to)

(* The state of the creator: the output, the cache, the count of temporaries *)
(* and the temporary of the expression computed last.                       *)
Without(cache, variable) == [v \in DOMAIN cache \ {variable} |-> cache[v]]
With(cache, variable, temporary) ==
  [v \in DOMAIN cache \cup {variable} |-> IF v = variable THEN temporary ELSE cache[v]]
EmptyCache == [v \in {} |-> 0]

NextTemporary(g) == [g EXCEPT !.value = g.count, !.count = @ + 1]

Emit(g, instructions) == [g EXCEPT !.code = @ \o instructions]

(* Instructions that set the next temporary, which is then the value.       *)
EmitInto(g, op, variable, from) ==
  Emit(NextTemporary(g), <<Instruction(op, variable, from, <<g.count>>)>>)

(* __computeIntoTemporary of a variable; op says what the value is used for. *)
ComputeVariable(g, variable, op) ==
  LET found == variable \in DOMAIN g.cache
      h == IF found THEN [g EXCEPT !.value = g.cache[variable]]
           ELSE [EmitInto(g, "load", variable, <<>>) EXCEPT !.cache = With(@, variable, g.count)]
  IN Emit(h, <<Instruction(op, variable, <<h.value>>, <<>>)>>)

(* A call inside an expression: the context of the function, the call, and  *)
(* the return value.                                                        *)
ComputeCall(g) ==
  LET h == EmitInto(g, "context", CALL, <<>>)
  IN EmitInto(Emit(h, <<Plain("call", <<h.value>>, <<>>)>>), "result", CALL, <<h.value>>)

ComputeNumber(g) == EmitInto(g, "constant", CALL, <<>>)

ComputeStep(g, step) ==
  IF step = CALL THEN ComputeCall(g) ELSE ComputeVariable(g, step, "read")

(* __accumulateAddExpressionOrMultiplyExpression                            *)
Accumulate(g, step) ==
  LET h == ComputeStep(g, step)
  IN EmitInto(h, "operate", CALL, <<g.value, h.value>>)

ComputeIntoTemporary(g, steps) ==
  LET computed[n \in 1 .. Len(steps)] ==
        IF n = 1 THEN ComputeStep(g, steps[1]) ELSE Accumulate(computed[n - 1], steps[n])
  IN IF steps = <<>> THEN ComputeNumber(g) ELSE computed[Len(steps)]

-----------------------------------------------------------------------------
(* Once a variable is stored to, the temporary that held its old value does *)
(* not hold it any more.  The faulty variant keeps the entry.  A number is  *)
(* stored without a temporary; the index of an element is computed first.   *)
Assign(g, statement) ==
  LET array == statement.variable = ELEMENT
      g1 == IF array THEN ComputeNumber(g) ELSE g
      g2 == IF statement.steps = <<>> THEN g1 ELSE ComputeIntoTemporary(g1, statement.steps)
      what == IF statement.steps = <<>> THEN <<>> ELSE <<g2.value>>
      index == IF array THEN <<g1.value>> ELSE <<>>
  IN Emit(g2, <<Instruction("store", statement.variable, what \o index, <<>>)>>)
ForAssignmentOnly(g, statement) == Assign(g, statement)
ForAssignment(g, statement) ==
  [Assign(g, statement) EXCEPT !.cache = Without(@, statement.variable)]

AddParameter(g, context, steps) ==
  LET h == ComputeIntoTemporary(g, steps)
  IN Emit(h, <<Plain("parameter", <<context, h.value>>, <<>>)>>)

(* What is emitted again before an indirect call: the code of the last      *)
(* parameter, or of the function if there is none.                          *)
EmittedSince(before, after) ==
  LET since == SubSeq(after.code, Len(before.code) + 1, Len(after.code))
      emitted[n \in 0 .. Len(since)] ==
        IF n = 0 THEN <<>>
        ELSE IF since[n].op \in {"read", "callee", "parameter"} THEN emitted[n - 1]
        ELSE Append(emitted[n - 1], since[n])
  IN emitted[Len(since)]

(* A function can modify variables: the cache is flushed after a call       *)
(* statement.  The faulty variant forgets to.                               *)
NotFlushed(g) == g
Flushed(g) == [g EXCEPT !.cache = EmptyCache]

AddParameters(g, context, parameters) ==
  LET added[n \in 0 .. Len(parameters)] ==
        IF n = 0 THEN g ELSE AddParameter(added[n - 1], context, parameters[n])
  IN added[Len(parameters)]

ForDirectCall(g, parameters) ==
  LET g1 == EmitInto(g, "context", CALL, <<>>)
      context == g1.value
  IN Emit(AddParameters(g1, context, parameters), <<Plain("call", <<context>>, <<>>)>>)

ForIndirectCall(g, callee, parameters) ==
  LET g1 == NextTemporary(g)
      context == g1.value
      g2 == ComputeVariable(g1, callee, "callee")
      function == g2.value
      g3 == Emit(g2, <<Plain("context_of", <<function>>, <<context>>)>>)
      g4 == AddParameters(g3, context, parameters)
      again == IF parameters = <<>> THEN EmittedSince(g1, g2)
               ELSE EmittedSince(AddParameters(g3, context, Front(parameters)), g4)
  IN Emit(g4, again \o <<Plain("call_indirect", <<function>>, <<>>)>>)

ForFunctionCall(g, statement) ==
  Flushed(IF statement.callee = <<>> THEN ForDirectCall(g, statement.parameters)
          ELSE ForIndirectCall(g, statement.callee[1], statement.parameters))

ForStatement(g, statement) ==
  CASE statement.kind = "assign" -> ForAssignment(g, statement)
    [] statement.kind = "call" -> ForFunctionCall(g, statement)
    [] statement.kind = "return" -> Emit(g, <<Plain("return", <<>>, <<>>)>>)

ForStatements(g, statements) ==
  LET created[n \in 0 .. Len(statements)] ==
        IF n = 0 THEN g ELSE ForStatement(created[n - 1], statements[n])
  IN created[Len(statements)]

(* A condition compares its last operand, or a number, with the rest.       *)
ForCondition(g, steps) ==
  LET single == Len(steps) <= 1
      g1 == ComputeIntoTemporary(g, IF single THEN steps ELSE Front(steps))
      g2 == ComputeIntoTemporary(g1, IF single THEN <<>> ELSE <<Last(steps)>>)
  IN Emit(g2, <<Plain("test", <<g1.value, g2.value>>, <<>>)>>)

(* The end of a block: a goto, a test, or a return unless there is one.     *)
ForBlockEnd(g, block) ==
  CASE Len(block.next) = 1 -> Emit(g, <<Plain("goto", <<>>, <<>>)>>)
    [] Len(block.next) = 2 -> ForCondition(g, block.condition)
    [] OTHER -> IF g.code # <<>> /\ Last(g.code).op = "return" THEN g
                ELSE Emit(g, <<Plain("return", <<>>, <<>>)>>)

(* The entries on which all previous blocks agree.  A block that has no     *)
(* code yet has no cache.  The faulty variant asks the first block only.    *)
FirstPrevious(previous) ==
  IF previous = <<>> \/ previous[1] > Len(caches) THEN EmptyCache ELSE caches[previous[1]]
IntersectPrevious(previous) ==
  IF previous = <<>> \/ \E i \in 1 .. Len(previous) : previous[i] > Len(caches)
  THEN EmptyCache
  ELSE LET first == caches[previous[1]]
           agreed == {v \in DOMAIN first :
                        \A i \in 1 .. Len(previous) :
                          LET other == caches[previous[i]]
                          IN v \in DOMAIN other /\ other[v] = first[v]}
       IN [v \in agreed |-> first[v]]

InitIR ==
  /\ code = <<>>
  /\ caches = <<>>
  /\ count = 0

CreateForBasicBlock ==
  /\ phase = "ir"
  /\ Len(code) < Len(blocks)
  /\ LET block == blocks[Len(code) + 1]
         g == ForStatements([code |-> <<>>, cache |-> IntersectPrevious(block.previous),
                             count |-> count, value |-> 0],
                            block.statements)
         end == ForBlockEnd(g, block)
     IN /\ code' = Append(code, end.code)
        /\ caches' = Append(caches, end.cache)
        /\ count' = end.count
  /\ UNCHANGED <<phase, cfg_vars>>

(* The visitor has reached the end of the function.                         *)
StartCreatingIR ==
  /\ phase = "cfg"
  /\ open = <<>>
  /\ phase' = "ir"
  /\ UNCHANGED <<cfg_vars, ir_vars>>

CreateStep ==
  \/ CfgStep /\ UNCHANGED ir_vars
  \/ StartCreatingIR
  \/ CreateForBasicBlock
=============================================================================
