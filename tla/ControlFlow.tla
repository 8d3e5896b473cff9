----------------------------- MODULE ControlFlow -----------------------------
(***************************************************************************)
(* cfg_creator.py: the basic blocks of one function.  The visitor meets the *)
(* statements of the function in the order of the source, so the source is  *)
(* a sequence of items chosen one by one: a simple statement, the beginning *)
(* of an if or a while, an else, an end.  An expression is the sequence of  *)
(* what its evaluation does that somebody can tell: reading a variable and  *)
(* calling a function.                                                      *)
(***************************************************************************)
EXTENDS Naturals, Sequences, FiniteSets

CONSTANTS
  Variables,        \* the variables of the function and of those around it
  CALL,             \* a step of an expression: call a function
  ELEMENT,          \* an element of an array, as the target of an assignment
  Targets,          \* what the program assigns to
  Assignments,      \* expressions the program assigns
  Conditions,       \* expressions the program branches on
  Calls,            \* the call statements of the program
  Constructs,       \* the control statements of the program
  LoopsInBranches,  \* whether it has a while statement inside an if statement
  MaxItems          \* bound: the items of the source

ASSUME ControlFlowAssumption ==
  /\ {CALL, ELEMENT} \cap Variables = {}
  /\ Targets \subseteq Variables \cup {ELEMENT}
  /\ Assignments \cup Conditions \subseteq Seq(Variables \cup {CALL})
  /\ Calls \subseteq [kind : {"call"}, callee : Seq(Variables),
                      parameters : Seq(Seq(Variables \cup {CALL}))]
  /\ Constructs \subseteq {"if", "else", "while", "return"}
  /\ LoopsInBranches \in BOOLEAN
  /\ MaxItems \in Nat

VARIABLES
  phase,              \* "cfg", "ir", "assembly" in the back end, "run", then "done"
  source,             \* the items visited so far
  open,               \* the positions of the if, else and while items around
  blocks,             \* __basic_blocks, in the order of their creation
  basic_block_stack,  \* __basic_block_stack; NONE stands for None
  next_block_stack    \* __next_block_stack

cfg_vars == <<source, open, blocks, basic_block_stack, next_block_stack>>

NONE == 0
Top(stack) == stack[Len(stack)]
Pop(stack) == SubSeq(stack, 1, Len(stack) - 1)

-----------------------------------------------------------------------------
(* BasicBlock: next is empty at the end of the function, one block, or the  *)
(* blocks of a true and of a false condition.                               *)
NewBasicBlock ==
  [statements |-> <<>>, next |-> <<>>, condition |-> <<>>, previous |-> <<>>,
   has_returned |-> FALSE]

SetNext(bs, from, to) ==
  IF to = NONE THEN [bs EXCEPT ![from].next = <<>>]
  ELSE [bs EXCEPT ![from].next = <<to>>, ![to].previous = Append(@, from)]

SetNextBranch(bs, from, condition, true_block, false_block) ==
  [bs EXCEPT ![from].next = <<true_block, false_block>>,
             ![from].condition = condition,
             ![true_block].previous = Append(@, from),
             ![false_block].previous = Append(@, from)]

CurrentBlock == Top(basic_block_stack)

(* Statements after a return statement of the same block are ignored.  The  *)
(* faulty variant visits the expressions too, and finds their calls.        *)
AddStatementAndCalls(bs, statement) ==
  IF bs[CurrentBlock].has_returned THEN bs
  ELSE IF statement.kind = "assign" /\ \E i \in 1 .. Len(statement.steps) : statement.steps[i] = CALL
  THEN [bs EXCEPT ![CurrentBlock].statements =
          @ \o <<[kind |-> "call", callee |-> <<>>, parameters |-> <<>>], statement>>]
  ELSE [bs EXCEPT ![CurrentBlock].statements = Append(@, statement)]

AddStatement(bs, statement) ==
  IF bs[CurrentBlock].has_returned THEN bs
  ELSE [bs EXCEPT ![CurrentBlock].statements = Append(@, statement)]

-----------------------------------------------------------------------------
(* There is room for the item and for what has to follow: the ends, and an   *)
(* else with a statement for an if statement that has them.                 *)
Due ==
  Len(open) + 2 * Cardinality({i \in 1 .. Len(open) :
                                 /\ source[open[i]].kind = "if"
                                 /\ source[open[i]].has_else
                                 /\ source[open[i]].else_at = 0})
Visit(item, more) ==
  /\ phase = "cfg"
  /\ Len(source) + 1 + more + Due <= MaxItems
  /\ source' = Append(source, item)
  /\ UNCHANGED phase

Here == Len(source) + 1

VisitSimpleStatement(statement) ==
  /\ Visit(statement, 0)
  /\ blocks' = AddStatement(blocks, statement)
  /\ UNCHANGED <<open, basic_block_stack, next_block_stack>>

(* A let statement too; the steps include those of the index of an element. *)
VisitAssignment ==
  \E target \in Targets, steps \in Assignments :
    VisitSimpleStatement([kind |-> "assign", variable |-> target, steps |-> steps])

VisitFunctionCall == \E call \in Calls : VisitSimpleStatement(call)

VisitReturn ==
  LET bs == [blocks EXCEPT ![CurrentBlock].next = <<>>]
      item == [kind |-> "return"]
  IN /\ "return" \in Constructs
     /\ Visit(item, 0)
     /\ blocks' = [AddStatement(bs, item) EXCEPT ![CurrentBlock].has_returned = TRUE]
     /\ UNCHANGED <<open, basic_block_stack, next_block_stack>>

(* The parse tree is complete when the visitor comes to an if statement, so *)
(* it knows whether there is an else body with statements in it.            *)
BeginIf(steps, has_else) ==
  LET if_block == Len(blocks) + 1
      else_block == IF has_else THEN if_block + 1 ELSE NONE
      after_block == if_block + (IF has_else THEN 2 ELSE 1)
      new == [n \in 1 .. after_block - Len(blocks) |-> NewBasicBlock]
      b1 == SetNext(blocks \o new, if_block, after_block)
      b2 == IF has_else THEN SetNext(b1, else_block, after_block) ELSE b1
      b3 == SetNext(b2, after_block, Top(next_block_stack))
  IN /\ "if" \in Constructs
     /\ has_else => "else" \in Constructs
     /\ Visit([kind |-> "if", steps |-> steps, has_else |-> has_else, else_at |-> 0, end_at |-> 0],
              IF has_else THEN 3 ELSE 1)
     /\ open' = Append(open, Here)
     /\ blocks' = SetNextBranch(b3, CurrentBlock, steps, if_block,
                                IF has_else THEN else_block ELSE after_block)
     /\ basic_block_stack' = Pop(basic_block_stack) \o <<after_block, else_block, if_block>>
     /\ next_block_stack' = Append(next_block_stack, after_block)

VisitIf == \E steps \in Conditions, has_else \in BOOLEAN : BeginIf(steps, has_else)

(* The end of a then body that has an else body.                            *)
VisitElse ==
  /\ phase = "cfg"
  /\ open # <<>>
  /\ LET opening == source[Top(open)]
     IN /\ opening.kind = "if"
        /\ opening.has_else
        /\ opening.else_at = 0
        /\ source' = Append([source EXCEPT ![Top(open)].else_at = Here],
                            [kind |-> "else", opened_at |-> Top(open)])
  /\ basic_block_stack' = Pop(basic_block_stack)
  /\ UNCHANGED <<phase, open, blocks, next_block_stack>>

(* The end of an if statement.  Without an else body the two callbacks at   *)
(* the end of the bodies come one after the other, and the second one pops  *)
(* the None; the faulty variant leaves it there.                            *)
StackAfterIfWithNone(has_else) == Pop(basic_block_stack)
StackAfterIf(has_else) ==
  IF has_else THEN Pop(basic_block_stack) ELSE Pop(Pop(basic_block_stack))

EndIf ==
  /\ phase = "cfg"
  /\ open # <<>>
  /\ LET opening == source[Top(open)]
     IN /\ opening.kind = "if"
        /\ opening.has_else => opening.else_at \in 1 .. Len(source) - 1
        /\ basic_block_stack' = StackAfterIf(opening.has_else)
  /\ source' = Append([source EXCEPT ![Top(open)].end_at = Here],
                      [kind |-> "end", opened_at |-> Top(open)])
  /\ open' = Pop(open)
  /\ next_block_stack' = Pop(next_block_stack)
  /\ UNCHANGED <<phase, blocks>>

(* A while statement sets next without recording the previous block.  In    *)
(* the faulty variants the function ends after the loop, and the body does  *)
(* not come back to the condition.                                          *)
BlocksOfLastWhile(steps, dummy_block, body_block, after_block) ==
  LET new == [n \in 1 .. 3 |-> NewBasicBlock]
  IN [blocks \o new EXCEPT
        ![CurrentBlock].next = <<dummy_block>>,
        ![dummy_block].next = <<body_block, after_block>>,
        ![dummy_block].condition = steps,
        ![body_block].next = <<dummy_block>>]
BlocksOfStuckWhile(steps, dummy_block, body_block, after_block) ==
  LET new == [n \in 1 .. 3 |-> NewBasicBlock]
  IN [blocks \o new EXCEPT
        ![CurrentBlock].next = <<dummy_block>>,
        ![dummy_block].next = <<body_block, after_block>>,
        ![dummy_block].condition = steps,
        ![body_block].next = <<body_block>>]
BlocksOfWhile(steps, dummy_block, body_block, after_block) ==
  LET new == [n \in 1 .. 3 |-> NewBasicBlock]
  IN [blocks \o new EXCEPT
        ![CurrentBlock].next = <<dummy_block>>,
        ![dummy_block].next = <<body_block, after_block>>,
        ![dummy_block].condition = steps,
        ![body_block].next = <<dummy_block>>,
        ![after_block].next =
          IF Top(next_block_stack) = NONE THEN <<>> ELSE <<Top(next_block_stack)>>]

VisitWhile ==
  \E steps \in Conditions :
    LET dummy_block == Len(blocks) + 1
        body_block == dummy_block + 1
        after_block == dummy_block + 2
    IN /\ "while" \in Constructs
       /\ LoopsInBranches \/ \A i \in 1 .. Len(open) : source[open[i]].kind = "while"
       /\ Visit([kind |-> "while", steps |-> steps, end_at |-> 0], 1)
       /\ open' = Append(open, Here)
       /\ blocks' = BlocksOfWhile(steps, dummy_block, body_block, after_block)
       /\ next_block_stack' = Append(next_block_stack, dummy_block)
       /\ basic_block_stack' = Pop(basic_block_stack) \o <<after_block, body_block>>

EndWhile ==
  /\ phase = "cfg"
  /\ open # <<>>
  /\ source[Top(open)].kind = "while"
  /\ source' = Append([source EXCEPT ![Top(open)].end_at = Here],
                      [kind |-> "end", opened_at |-> Top(open)])
  /\ open' = Pop(open)
  /\ basic_block_stack' = Pop(basic_block_stack)
  /\ next_block_stack' = Pop(next_block_stack)
  /\ UNCHANGED <<phase, blocks>>

InitCfg ==
  /\ phase = "cfg"
  /\ source = <<>>
  /\ open = <<>>
  /\ blocks = <<NewBasicBlock>>
  /\ basic_block_stack = <<1>>
  /\ next_block_stack = <<NONE>>

CfgStep ==
  \/ VisitAssignment
  \/ VisitFunctionCall
  \/ VisitReturn
  \/ VisitIf
  \/ VisitElse
  \/ EndIf
  \/ VisitWhile
  \/ EndWhile
=============================================================================
