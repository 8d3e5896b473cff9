-------------------------------- MODULE Bril ---------------------------------
(***************************************************************************)
(* Bril programs and their control flow graphs (advcomp/src/cfg.py).  What *)
(* a program does when it runs is the Bril interpreter's business          *)
(* (external).                                                             *)
(***************************************************************************)
EXTENDS Integers, Sequences, SequencesExt

CONSTANT NONE

(* An instruction without arguments or labels has no "args" or "labels".    *)
Instruction(op, dest, args, value, labels) ==
  [op |-> op, dest |-> dest, args |-> args, value |-> value, labels |-> labels]

Label(l) == Instruction("label", NONE, <<>>, NONE, <<l>>)
IsLabel(instr) == instr.op = "label"
IsTerminator(instr) == instr.op \in {"jmp", "br", "ret"}
IsDefinition(instr) == instr.dest # NONE
HasArgs(instr) == instr.args # <<>>

UsedIn(instructions) == UNION {ToSet(instructions[k].args) : k \in DOMAIN instructions}
DefinedIn(instructions) == {instructions[k].dest : k \in DOMAIN instructions} \ {NONE}

-----------------------------------------------------------------------------
(* CFGCreator.process_func.                                                 *)

Block == [label |-> NONE, instructions |-> <<>>]

(* An empty block is not added; a label that comes next replaces its label. *)
AddBlockAndCreateNew(cfg) ==
  IF cfg.current.instructions = <<>> THEN cfg
  ELSE [blocks |-> Append(cfg.blocks, cfg.current), current |-> Block]

Process(cfg, instr) ==
  LET added == [cfg EXCEPT !.current.instructions = Append(@, instr)]
  IN CASE IsLabel(instr) -> [AddBlockAndCreateNew(cfg) EXCEPT !.current.label = instr.labels[1]]
       [] IsTerminator(instr) -> AddBlockAndCreateNew(added)
       [] OTHER -> added

BlocksOf(program) ==
  AddBlockAndCreateNew(FoldLeft(Process, [blocks |-> <<>>, current |-> Block], program)).blocks

LabelsOf(blocks) == {blocks[b].label : b \in DOMAIN blocks}

(* CFG.get_block raises KeyError for the label of a block that was empty.   *)
LabelIsMissing(blocks) ==
  \E b \in DOMAIN blocks : ~(ToSet(Last(blocks[b].instructions).labels) \subseteq LabelsOf(blocks))

(* CFG.connect_block: the blocks after blocks[b].                           *)
Successors(blocks, b) ==
  LET last == Last(blocks[b].instructions)
  IN CASE last.labels # <<>> ->
            [k \in DOMAIN last.labels |->
               CHOOSE c \in DOMAIN blocks : blocks[c].label = last.labels[k]]
       [] last.labels = <<>> /\ last.op = "ret" -> <<>>
       [] OTHER -> IF b < Len(blocks) THEN <<b + 1>> ELSE <<>>

Graph(blocks) == [b \in DOMAIN blocks |-> Successors(blocks, b)]

Predecessors(graph, b) == {p \in DOMAIN graph : b \in ToSet(graph[p])}

(* The instructions that CFGCreator.reconstructJSON writes.                 *)
Reconstructed(blocks) ==
  FlattenSeq([b \in DOMAIN blocks |->
    (IF blocks[b].label = NONE THEN <<>> ELSE <<Label(blocks[b].label)>>) \o blocks[b].instructions])

-----------------------------------------------------------------------------
(* The Bril interpreter, for at most "fuel" steps.                          *)

LabelAt(program, l) == SelectInSeq(program, LAMBDA instr : IsLabel(instr) /\ instr.labels[1] = l)

Machine(environment, fuel) ==
  [pc |-> 1, environment |-> environment, printed |-> <<>>, fuel |-> fuel, status |-> "running"]

Result(instr, args) ==
  CASE instr.op = "const" -> instr.value
    [] instr.op = "id" -> args[1]
    [] instr.op = "add" -> args[1] + args[2]
    [] instr.op = "sub" -> args[1] - args[2]

Target(program, m, instr, args) ==
  CASE instr.op = "jmp" -> LabelAt(program, instr.labels[1])
    [] instr.op = "br" -> LabelAt(program, instr.labels[IF args[1] # 0 THEN 1 ELSE 2])
    [] instr.op = "ret" -> Len(program) + 1
    [] OTHER -> m.pc + 1

Execute(program, m) ==
  LET instr == program[m.pc]
      args == [k \in DOMAIN instr.args |-> m.environment[instr.args[k]]]
  IN CASE m.pc > Len(program) -> [m EXCEPT !.status = "ended"]
       [] m.pc <= Len(program) /\ m.fuel = 0 -> [m EXCEPT !.status = "out of fuel"]
       [] m.pc <= Len(program) /\ m.fuel > 0 /\ ~(ToSet(instr.args) \subseteq DOMAIN m.environment) ->
            [m EXCEPT !.status = "undefined variable"]
       [] OTHER ->
            [m EXCEPT !.pc = Target(program, m, instr, args),
                      !.fuel = @ - 1,
                      !.printed = IF instr.op = "print" THEN @ \o args ELSE @,
                      !.environment = IF IsDefinition(instr)
                                      THEN (instr.dest :> Result(instr, args)) @@ @ ELSE @]

RECURSIVE RunFrom(_, _)
RunFrom(program, m) == IF m.status # "running" THEN m ELSE RunFrom(program, Execute(program, m))

Run(program, environment, fuel) == RunFrom(program, Machine(environment, fuel))
=============================================================================
