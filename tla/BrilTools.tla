------------------------------ MODULE BrilTools ------------------------------
(***************************************************************************)
(* The programs of advcomp/src: lvn.py and dce.py, which change a Bril     *)
(* program, and df.py and ssa.py, which analyse one (of ssa.py, the        *)
(* dominators).  The environment writes the program.                       *)
(***************************************************************************)
EXTENDS LocalValueNumbering, DataFlow

CONSTANTS
  Sources,      \* Kinds of programs: [tools, places: the instructions that may be written at each]
  Args,         \* The arguments of main
  ArgValues,    \* Their values, when the program runs
  Fuel          \* Bound: instructions executed

ASSUME BrilToolsAssumption ==
  /\ \A s \in Sources : s.tools \subseteq {"lvn", "dce", "df", "ssa"}
  /\ ArgValues \subseteq Int /\ Fuel \in Nat

VARIABLES
  source,       \* The kind of program that is written
  place,        \* The number of places written
  program,      \* The instructions of main
  tool,
  phase,        \* "write", "number", "eliminate", "analyse", "done", "assertion", "key_error"
  blocks,       \* The blocks of its CFG
  block,        \* The block that LocalValueNumbering.optimize handles next
  value,        \* What DataFlow.run computes: [in_value, out_value]
  dominators    \* dominators[b]

vars == <<source, place, program, tool, phase, blocks, block, value, dominators>>

-----------------------------------------------------------------------------
LabelsUsed == UNION {ToSet(program[k].labels) : k \in DOMAIN program}
LabelsWritten == {program[k].labels[1] : k \in {k \in DOMAIN program : IsLabel(program[k])}}

Write ==
  /\ phase = "write" /\ place < Len(source.places)
  /\ \E instructions \in source.places[place + 1] : program' = program \o instructions
  /\ place' = place + 1
  /\ UNCHANGED <<source, tool, phase, blocks, block, value, dominators>>

(* CFGCreator.process.                                                      *)
Read ==
  /\ phase = "write" /\ program # <<>> /\ LabelsUsed \subseteq LabelsWritten
  /\ tool' \in source.tools
  /\ blocks' = BlocksOf(program)
  /\ phase' = CASE LabelIsMissing(blocks') -> "key_error"
                [] ~LabelIsMissing(blocks') /\ tool' = "lvn" -> "number"
                [] ~LabelIsMissing(blocks') /\ tool' = "dce" -> "eliminate"
                [] OTHER -> "analyse"
  /\ UNCHANGED <<source, place, program, block, value, dominators>>

(* LocalValueNumbering.optimize.                                            *)
NumberBlock ==
  /\ phase = "number"
  /\ IF block > Len(blocks)
     THEN phase' = "eliminate" /\ UNCHANGED <<blocks, block>>
     ELSE IF NumberingAsserts(blocks[block])
     THEN phase' = "assertion" /\ UNCHANGED <<blocks, block>>
     ELSE /\ blocks' = [blocks EXCEPT ![block] = NumberedBlock(@)]
          /\ block' = block + 1
          /\ UNCHANGED phase
  /\ UNCHANGED <<source, place, program, tool, value, dominators>>

(* One iteration of DeadCodeEliminator.eliminate.                           *)
Eliminate ==
  /\ phase = "eliminate"
  /\ blocks' = WithoutObsolete(WithoutUnused(blocks))
  /\ phase' = IF blocks' = blocks THEN "done" ELSE phase
  /\ UNCHANGED <<source, place, program, tool, block, value, dominators>>

(* DataFlow.run.                                                            *)
AnalyseDataFlow ==
  /\ phase = "analyse" /\ tool = "df"
  /\ IF DataFlowAsserts(Graph(blocks))
     THEN phase' = "assertion" /\ UNCHANGED value
     ELSE phase' = "done" /\ value' = DataFlowOf(blocks, Args)
  /\ UNCHANGED <<source, place, program, tool, blocks, block, dominators>>

(* Dominators.computeDominators.                                            *)
ComputeDominators ==
  /\ phase = "analyse" /\ tool = "ssa"
  /\ dominators' = DominatorsOf(Graph(blocks))
  /\ phase' = "done"
  /\ UNCHANGED <<source, place, program, tool, blocks, block, value>>

-----------------------------------------------------------------------------
Init ==
  /\ source \in Sources
  /\ place = 0
  /\ program = <<>>
  /\ tool = NONE
  /\ phase = "write"
  /\ blocks = <<>>
  /\ block = 1
  /\ value = NONE
  /\ dominators = NONE

Next ==
  \/ Write \/ Read
  \/ NumberBlock \/ Eliminate
  \/ AnalyseDataFlow \/ ComputeDominators

Spec == Init /\ [][Next]_vars

-----------------------------------------------------------------------------
(* Properties.                                                              *)

(* A block reads a variable that comes from outside, and overwrites it: the *)
(* variable stays the home of its old value (lvn.py constructValue).        *)
OverwritesHome(instructions) ==
  \E k \in DOMAIN instructions :
    \E x \in ToSet(instructions[k].args) \cap DefinedIn(instructions) :
      \A j \in 1..(k - 1) : instructions[j].dest # x

(* The optimised program prints what the program prints, for all arguments, *)
(* unless value numbering loses the home of a value (lvn.py, dce.py, and    *)
(* the blocks of cfg.py).                                                   *)
SameOutput ==
  phase = "done" /\ tool \in {"lvn", "dce"} =>
    \/ tool = "lvn" /\ \E b \in DOMAIN BlocksOf(program) :
                         OverwritesHome(BlocksOf(program)[b].instructions)
    \/ \A environment \in [Args -> ArgValues] :
         LET m == Run(program, environment, Fuel)
             n == Run(Reconstructed(blocks), environment, Fuel)
         IN CASE m.status = "ended" -> n.status = "ended" /\ n.printed = m.printed
              [] m.status = "out of fuel" -> IsPrefix(m.printed, n.printed)
              [] OTHER -> TRUE

(* A variable counts as defined at the start of a block exactly when some   *)
(* path to it defines the variable; but main's arguments are forgotten when *)
(* something jumps to the first block (DefinedVariables in df.py).          *)
DefinedVariablesExact ==
  phase = "done" /\ tool = "df" =>
    LET graph == Graph(blocks)
        args == IF Predecessors(graph, 1) = {} THEN Args ELSE {}
    IN \A b \in DOMAIN blocks :
         DOMAIN value.in_value[b] =
           {x \in Args \cup UNION {DefinedIn(blocks[d].instructions) : d \in DOMAIN blocks} :
              Reaching(blocks, graph, args, b, x) # {}}

(* A definition is said to reach a block only if it does, and all are found *)
(* in a program without loops.  With loops some are missed: a definition    *)
(* that reaches a block later does not change the number of variables       *)
(* (ReachableDefinitions in df.py).                                         *)
ReachableDefinitionsSound ==
  phase = "done" /\ tool = "df" =>
    LET graph == Graph(blocks)
    IN \A b \in DOMAIN blocks : \A x \in DOMAIN value.in_value[b] :
         /\ value.in_value[b][x] \subseteq Reaching(blocks, graph, Args, b, x)
         /\ IsAcyclic(graph) => value.in_value[b][x] = Reaching(blocks, graph, Args, b, x)

(* Unless something jumps to the first block: a block is said to dominate   *)
(* another only if every path to it passes through it, and all such blocks  *)
(* are found in a program without loops or code that is not reached         *)
(* (Dominators in ssa.py).                                                  *)
DominatorsSound ==
  phase = "done" /\ tool = "ssa" /\ blocks # <<>> /\ Predecessors(Graph(blocks), 1) = {} =>
    LET graph == Graph(blocks)
        reached == ReachedFrom(graph, {1})
        dominating(b) == {d \in reached : Dominates(graph, d, b)}
    IN /\ \A b \in reached : dominators[b] \subseteq dominating(b)
       /\ IsAcyclic(graph) /\ reached = DOMAIN graph =>
            \A b \in reached : dominators[b] = dominating(b)
=============================================================================
