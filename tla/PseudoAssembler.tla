--------------------------- MODULE PseudoAssembler ---------------------------
(***************************************************************************)
(* pseudo_assembler.py: instructions on virtual registers for each          *)
(* instruction on temporaries, and the replacement of a spilled register.   *)
(* An instruction is what it reads, what it writes, and what it does to the *)
(* real registers it names.                                                 *)
(***************************************************************************)
EXTENDS MediumLevelIR, FiniteSetsExt

CONSTANT Operators   \* the arithmetic the program does: add, multiply, divide

ASSUME OperatorsAssumption == Operators \subseteq {"add", "multiply", "divide"}

VARIABLES
  operators,   \* the operators of the operations, by the temporaries they set
  assembly,    \* the blocks of the function: next, and their instructions
  registers    \* PARegisters; see NoRegisters

pa_vars == <<operators, assembly, registers>>

-----------------------------------------------------------------------------
(* The virtual registers are numbers: first those of the temporaries, then  *)
(* the ones made by nextRegister.  A register made for a spill stands for   *)
(* the one that was spilled; not_edx are the registers with edx among their *)
(* conflicts.                                                               *)
NoRegisters(temporaries) ==
  [stands_for |-> [r \in 1 .. temporaries |-> r], not_edx |-> {}]

PAInstruction(op, reads, writes) ==
  [op |-> op, reads |-> reads, writes |-> writes, position |-> 0]
Compute(reads, writes) == PAInstruction("compute", reads, writes)
Fixed(op) == PAInstruction(op, {}, {})

(* The state of the creator: the instructions and the registers.  The n new *)
(* registers of an instruction.                                             *)
New(h, n) == Len(h.registers.stands_for) + n
Output(h, n, instructions) ==
  LET first == Len(h.registers.stands_for)
  IN [h EXCEPT !.code = @ \o instructions,
               !.registers.stands_for = @ \o [i \in 1 .. n |-> first + i]]
NotInEdx(h, register) == [h EXCEPT !.registers.not_edx = @ \cup {register}]

(* A mov, an and, a cmp.                                                    *)
TagCheck(register, copy) ==
  <<Compute({register}, {copy}), Compute({copy}, {copy}), Compute({copy}, {})>>
Untag(register) == <<Compute({register}, {register})>>
UntaggedFunctionContext(register, copy) ==
  <<Compute({}, {register})>> \o TagCheck(register, copy) \o Untag(register)

PushAllRegisters == <<Fixed("push_all")>>
PopAllRegisters == <<Fixed("pop_all")>>
Call(pushed) == PushAllRegisters \o <<Compute(pushed, {}), Fixed("call")>> \o PopAllRegisters

(* The code between the saving and the restoring of edx.                    *)
EdxSaved(setup, reads) ==
  <<Fixed("push_edx"), Fixed(setup), Compute(reads, {}), Fixed("pop_edx")>>

-----------------------------------------------------------------------------
Reg(temporary) == temporary + 1

ForLoad(h, i) ==
  LET context == New(h, 1)
  IN Output(h, 2, UntaggedFunctionContext(context, New(h, 2))
                    \o <<Compute({context}, {Reg(i.to[1])})>>)

(* The address of an element: the variable's value, the index times the     *)
(* size, both added.                                                        *)
ForStoreToElement(h, i) ==
  LET context == New(h, 1)
      address == New(h, 3)
      pointer_size == New(h, 4)
      element == New(h, 5)
      index == Reg(Last(i.from))
      what == IF Len(i.from) = 2 THEN {Reg(i.from[1])} ELSE {}
  IN NotInEdx(Output(h, 7,
       UntaggedFunctionContext(context, New(h, 2)) \o <<Compute({context}, {address})>>
         \o TagCheck(address, New(h, 6)) \o TagCheck(index, New(h, 7))
         \o <<Compute({index}, {}), Compute({}, {pointer_size})>>
         \o EdxSaved("clear_edx", {pointer_size})
         \o <<Compute({}, {element})>> \o Untag(address)
         \o <<Compute({address, element}, {element}), Compute(what \cup {element}, {})>>),
       pointer_size)

ForStore(h, i) ==
  LET context == New(h, 1)
      what == {Reg(i.from[n]) : n \in 1 .. Len(i.from)}
  IN IF i.variable = ELEMENT THEN ForStoreToElement(h, i)
     ELSE Output(h, 2, UntaggedFunctionContext(context, New(h, 2))
                         \o <<Compute({context} \cup what, {})>>)

ForConstant(h, i) == Output(h, 0, <<Compute({}, {Reg(i.to[1])})>>)

(* Multiplication asks for its second operand not to be in edx; division    *)
(* does not.                                                                *)
ForOperation(h, i) ==
  LET from1 == Reg(i.from[1])
      from2 == Reg(i.from[2])
      to == Reg(i.to[1])
      checks == TagCheck(from1, New(h, 1)) \o TagCheck(from2, New(h, 2))
      in_eax(setup) == <<Compute({from1}, {})>> \o EdxSaved(setup, {from2})
                         \o <<Compute({}, {to})>>
  IN CASE h.operators[i.to[1]] = "add" ->
            Output(h, 2, checks \o <<Compute({from1}, {to}), Compute({from2, to}, {to})>>)
       [] h.operators[i.to[1]] = "multiply" ->
            NotInEdx(Output(h, 2, checks \o in_eax("clear_edx")), from2)
       [] h.operators[i.to[1]] = "divide" -> Output(h, 2, checks \o in_eax("extend_eax"))

ForContext(h, i) ==
  LET outer == New(h, 1)
  IN Output(h, 1, <<Compute({}, {outer})>> \o Call({outer}) \o <<Compute({}, {Reg(i.to[1])})>>)

ForContextOf(h, i) ==
  LET function == New(h, 1)
  IN Output(h, 1, <<Compute({Reg(i.from[1])}, {function})>> \o Untag(function)
                    \o <<Compute({function}, {Reg(i.to[1])})>>)

ForParameter(h, i) ==
  LET context == New(h, 1)
  IN Output(h, 2, <<Compute({Reg(i.from[1])}, {context})>> \o TagCheck(context, New(h, 2))
                    \o Untag(context) \o <<Compute({Reg(i.from[2]), context}, {})>>)

ForCall(h, i) == Output(h, 0, Call({Reg(i.from[1])}))

ForIndirectCallInstruction(h, i) ==
  LET context == New(h, 1)
      address == New(h, 2)
      function == New(h, 3)
  IN Output(h, 4, <<Compute({Reg(i.from[1])}, {function})>> \o TagCheck(function, New(h, 4))
                    \o Untag(function)
                    \o <<Compute({function}, {context}), Compute({function}, {address})>>
                    \o PushAllRegisters \o <<Compute({context}, {}), Compute({address}, {}), Fixed("call")>>
                    \o PopAllRegisters)

ForResult(h, i) ==
  LET context == New(h, 1)
  IN Output(h, 1, <<Compute({Reg(i.from[1])}, {context})>> \o Untag(context)
                    \o <<Compute({context}, {Reg(i.to[1])})>>)

ForTest(h, i) == Output(h, 0, <<Compute({Reg(i.from[1]), Reg(i.from[2])}, {})>>)

ForInstruction(h, i) ==
  CASE i.op = "load" -> ForLoad(h, i)
    [] i.op = "store" -> ForStore(h, i)
    [] i.op = "constant" -> ForConstant(h, i)
    [] i.op = "operate" -> ForOperation(h, i)
    [] i.op = "context" -> ForContext(h, i)
    [] i.op = "context_of" -> ForContextOf(h, i)
    [] i.op = "parameter" -> ForParameter(h, i)
    [] i.op = "call" -> ForCall(h, i)
    [] i.op = "call_indirect" -> ForIndirectCallInstruction(h, i)
    [] i.op = "result" -> ForResult(h, i)
    [] i.op = "test" -> ForTest(h, i)
    [] i.op = "return" -> Output(h, 0, <<Fixed("return")>>)
    [] OTHER -> h

-----------------------------------------------------------------------------
(* Every block begins with its label; a prologue comes before the blocks.   *)
(* The empty epilogue, to which nothing leads, is left out.                 *)
CreateBlock(h, b) ==
  LET label == [h EXCEPT !.code = <<Fixed("label")>>]
      g == FoldLeft(ForInstruction, label, code[b])
      next == [i \in DOMAIN blocks[b].next |-> blocks[b].next[i] + 1]
  IN [g EXCEPT !.blocks = Append(@, [next |-> next, instructions |-> g.code])]

InitAssembly ==
  /\ operators = [t \in {} |-> "add"]
  /\ assembly = <<>>
  /\ registers = NoRegisters(0)

Operations ==
  {i.to[1] : i \in {j \in UNION {ToSet(code[b]) : b \in 1 .. Len(code)} : j.op = "operate"}}

CreatePseudoAssembly ==
  /\ phase = "ir"
  /\ Len(code) = Len(blocks)
  /\ phase' = "assembly"
  /\ \E ops \in [Operations -> Operators] :
       LET prologue == [next |-> <<2>>, instructions |-> <<Fixed("label")>>]
           h == FoldLeft(CreateBlock,
                         [operators |-> ops, blocks |-> <<prologue>>, code |-> <<>>,
                          registers |-> NoRegisters(count)],
                         [b \in 1 .. Len(blocks) |-> b])
       IN operators' = ops /\ assembly' = h.blocks /\ registers' = h.registers
  /\ UNCHANGED <<cfg_vars, ir_vars>>

-----------------------------------------------------------------------------
(* PseudoAssemblyBasicBlock.spill: every instruction that uses the register *)
(* gets a new one, loaded before and stored after.                          *)
Uses(i, register) == register \in i.reads \cup i.writes
Replace(set, register, by) ==
  IF register \in set THEN (set \ {register}) \cup {by} ELSE set
Replaced(i, register, new) ==
  [i EXCEPT !.reads = Replace(@, register, new), !.writes = Replace(@, register, new)]
LoadSpilled(i, register, new, position) ==
  IF register \notin i.reads THEN <<>>
  ELSE <<[PAInstruction("load_spilled", {}, {new}) EXCEPT !.position = position]>>
StoreSpilled(i, register, new, position) ==
  IF register \notin i.writes THEN <<>>
  ELSE <<[PAInstruction("store_spilled", {new}, {}) EXCEPT !.position = position]>>
SpillIn(i, register, new, position) ==
  LoadSpilled(i, register, new, position) \o <<Replaced(i, register, new)>>
    \o StoreSpilled(i, register, new, position)

(* The new register of the i-th instruction of block b, where using are the *)
(* instructions of each block that use the spilled one.                     *)
Before(using, b) == MapThenSumSet(LAMBDA c : Cardinality(using[c]), 1 .. b - 1)
NewFor(h, using, b, i) ==
  Len(h.registers.stands_for) + Before(using, b) + Cardinality({j \in using[b] : j <= i})

(* The blocks and the registers after a register is spilled to a position.  *)
Spilled(h, register, position) ==
  LET using == [b \in 1 .. Len(h.blocks) |->
                  {i \in 1 .. Len(h.blocks[b].instructions) :
                     Uses(h.blocks[b].instructions[i], register)}]
      SpillInBlock(b) ==
        FlattenSeq([i \in 1 .. Len(h.blocks[b].instructions) |->
          IF i \in using[b]
          THEN SpillIn(h.blocks[b].instructions[i], register, NewFor(h, using, b, i), position)
          ELSE <<h.blocks[b].instructions[i]>>])
      original == h.registers.stands_for[register]
  IN [h EXCEPT
        !.blocks = [b \in 1 .. Len(@) |-> [@[b] EXCEPT !.instructions = SpillInBlock(b)]],
        !.registers.stands_for =
          @ \o [n \in 1 .. Before(using, Len(h.blocks) + 1) |-> original]]
=============================================================================
