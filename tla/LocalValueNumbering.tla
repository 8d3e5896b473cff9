------------------------ MODULE LocalValueNumbering --------------------------
(***************************************************************************)
(* Local value numbering and dead code elimination of a block of a Bril    *)
(* program (advcomp/src/lvn.py, advcomp/src/dce.py).                       *)
(***************************************************************************)
EXTENDS Bril

(* Arguments of a value are rows of the table; those of a constant are its  *)
(* value.                                                                   *)
Value(op, args) ==
  [op |-> op, args |-> IF op \in {"mul", "add"} THEN SortSeq(args, <) ELSE args]

NewVariable(n) == <<"variable0", "variable1", "variable2", "variable3", "variable4">>[n + 1]

(* The state of optimizeBlock between two instructions: the rows of         *)
(* value_table are [value, home], and value_table_lookup is a function from *)
(* values to rows.                                                          *)
Numbering(instructions) ==
  [instructions |-> instructions, value_table |-> <<>>, value_table_lookup |-> <<>>,
   environment |-> <<>>, var_ix |-> 0]

Row(value, home) == [value |-> value, home |-> home]

-----------------------------------------------------------------------------
(* constructValue: a variable that the block does not know gets a row       *)
(* without a value, with the variable as its home.                          *)
WithArgument(s, arg) ==
  IF arg \in DOMAIN s.environment THEN s
  ELSE [s EXCEPT !.value_table = Append(@, Row(NONE, arg)),
                 !.environment = (arg :> (Len(s.value_table) + 1)) @@ @]

ConstructedValue(s, instr) ==
  IF instr.op = "const" THEN Value("const", <<instr.value>>)
  ELSE Value(instr.op, [k \in DOMAIN instr.args |-> s.environment[instr.args[k]]])

(* A destination that a later instruction overwrites is renamed, in the     *)
(* instructions up to and including the overwriting one.                    *)
NextDefinition(s, k) ==
  LET later == {m \in (k + 1)..Len(s.instructions) : s.instructions[m].dest = s.instructions[k].dest}
  IN IF later = {} THEN 0 ELSE CHOOSE m \in later : \A n \in later : m <= n

WithArgRenamed(instr, old, new) ==
  [instr EXCEPT !.args = [a \in DOMAIN @ |-> IF @[a] = old THEN new ELSE @[a]]]

WithDestRenamedBefore(s, k) ==
  LET next == NextDefinition(s, k)
      old == s.instructions[k].dest
      new == NewVariable(s.var_ix)
  IN IF old = NONE \/ next = 0 THEN s
     ELSE [s EXCEPT !.var_ix = @ + 1,
             !.instructions = [m \in DOMAIN @ |->
                IF m = k THEN [@[m] EXCEPT !.dest = new]
                ELSE IF m \in (k + 1)..(next - 1) THEN WithArgRenamed(@[m], old, new) ELSE @[m]]]
WithDestRenamed(s, k) ==
  LET next == NextDefinition(s, k)
      old == s.instructions[k].dest
      new == NewVariable(s.var_ix)
  IN IF old = NONE \/ next = 0 THEN s
     ELSE [s EXCEPT !.var_ix = @ + 1,
             !.instructions = [m \in DOMAIN @ |->
                IF m = k THEN [@[m] EXCEPT !.dest = new]
                ELSE IF m \in (k + 1)..next THEN WithArgRenamed(@[m], old, new) ELSE @[m]]]

(* The row of the destination: the argument's for a copy, and the row of an *)
(* equal value or a new one otherwise.                                      *)
WithRow(s, dest, value) ==
  LET isNew == value.op # "id" /\ value \notin DOMAIN s.value_table_lookup
      ix == CASE value.op = "id" -> value.args[1]
              [] value.op # "id" /\ ~isNew -> s.value_table_lookup[value]
              [] OTHER -> Len(s.value_table) + 1
  IN IF dest = NONE THEN s
     ELSE [s EXCEPT !.value_table = IF isNew THEN Append(@, Row(value, dest)) ELSE @,
                    !.value_table_lookup = IF isNew THEN (value :> ix) @@ @ ELSE @,
                    !.environment = (dest :> ix) @@ @]

-----------------------------------------------------------------------------
(* updateInstruction: a copy of a constant and an operation on constants    *)
(* become constants; otherwise the arguments become the home variables.     *)

IsConst(s, ix) == s.value_table[ix].value # NONE /\ s.value_table[ix].value.op = "const"
ConstAt(s, ix) == s.value_table[ix].value.args[1]

Folded(op, value1, value2) ==
  CASE op = "add" -> value1 + value2
    [] op = "sub" -> value1 - value2

AsConst(s, k, value) ==
  [s EXCEPT !.instructions[k] = [@ EXCEPT !.op = "const", !.value = value, !.args = <<>>]]

UpdatedInstruction(s, k, value) ==
  LET instr == s.instructions[k]
      allConst == \A a \in DOMAIN value.args : IsConst(s, value.args[a])
      folded == Folded(instr.op, ConstAt(s, value.args[1]), ConstAt(s, value.args[2]))
  IN CASE ~HasArgs(instr) -> s
       [] instr.op = "id" /\ allConst -> AsConst(s, k, ConstAt(s, value.args[1]))
       [] instr.op \in {"add", "sub"} /\ allConst ->
            [AsConst(s, k, folded) EXCEPT
               !.value_table[s.environment[instr.dest]].value = Value("const", <<folded>>)]
       [] OTHER ->
            [s EXCEPT !.instructions[k].args =
                        [a \in DOMAIN value.args |-> s.value_table[value.args[a]].home]]

NumberInstruction(s, k) ==
  LET withArguments == FoldLeft(WithArgument, s, s.instructions[k].args)
      value == ConstructedValue(withArguments, s.instructions[k])
      renamed == WithDestRenamed(withArguments, k)
  IN UpdatedInstruction(WithRow(renamed, renamed.instructions[k].dest, value), k, value)

(* optimizeBlock: the instructions in order.                                *)
NumberedBlock(block) ==
  [block EXCEPT !.instructions =
     FoldLeftDomain(NumberInstruction, Numbering(@), @).instructions]

(* constructValue asserts that everything but a constant has arguments: a   *)
(* jump has none.                                                           *)
NumberingAsserts(block) ==
  \E k \in DOMAIN block.instructions :
    block.instructions[k].op # "const" /\ ~HasArgs(block.instructions[k])

-----------------------------------------------------------------------------
(* DeadCodeEliminator.                                                      *)

WithoutInstructions(block, removed) ==
  [block EXCEPT !.instructions =
     LET kept == SetToSortSeq(DOMAIN @ \ removed, <)
     IN [n \in DOMAIN kept |-> @[kept[n]]]]

(* eliminateIfValueNotUsed: no instruction of any block uses it.            *)
UsedVariables(blocks) == UNION {UsedIn(blocks[b].instructions) : b \in DOMAIN blocks}

WithoutUnused(blocks) ==
  [b \in DOMAIN blocks |->
     WithoutInstructions(blocks[b], {k \in DOMAIN blocks[b].instructions :
       blocks[b].instructions[k].dest \notin UsedVariables(blocks) \cup {NONE}})]

(* eliminateIfAssignmentObsoletedByAnotherAssignment: the block assigns to  *)
(* it again with no use in between.                                         *)
IsObsolete(instructions, k) ==
  /\ IsDefinition(instructions[k])
  /\ \E m \in (k + 1)..Len(instructions) :
       /\ instructions[m].dest = instructions[k].dest
       /\ \A j \in (k + 1)..m : instructions[k].dest \notin ToSet(instructions[j].args)

WithoutObsolete(blocks) ==
  [b \in DOMAIN blocks |->
     WithoutInstructions(blocks[b], {k \in DOMAIN blocks[b].instructions :
       IsObsolete(blocks[b].instructions, k)})]
=============================================================================
