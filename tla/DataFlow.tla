------------------------------ MODULE DataFlow -------------------------------
(***************************************************************************)
(* Data flow analyses of a Bril program (advcomp/src/df.py) and its        *)
(* dominators (Dominators in advcomp/src/ssa.py), with what they mean.     *)
(***************************************************************************)
EXTENDS Bril, FiniteSetsExt

CONSTANT ARG        \* The definition of an argument

-----------------------------------------------------------------------------
(* DataFlow.run for ReachableDefinitions, whose values are functions from   *)
(* variables to sets of definitions; a definition is a place, <<b, k>>.     *)
(* The value of DefinedVariables is the domain of that one's, as long as    *)
(* both stop at an equal number of variables.                               *)

Merged(outs) ==
  [x \in UNION {DOMAIN out : out \in outs} |->
     UNION {out[x] : out \in {out \in outs : x \in DOMAIN out}}]

(* Without predecessors, the value from the start is kept; only the entry   *)
(* has one.                                                                 *)
InValue(s, graph, b) ==
  IF Predecessors(graph, b) = {} THEN s.in_value[b]
  ELSE Merged({s.out_value[p] : p \in Predecessors(graph, b)} \ {NONE})

LastDefinition(block, x) ==
  Max({k \in DOMAIN block.instructions : block.instructions[k].dest = x})

TransformedWithoutKill(blocks, b, in) ==
  Merged({in, [x \in DefinedIn(blocks[b].instructions) |-> {<<b, LastDefinition(blocks[b], x)>>}]})
Transformed(blocks, b, in) ==
  [x \in DefinedIn(blocks[b].instructions) |-> {<<b, LastDefinition(blocks[b], x)>>}] @@ in

(* The successors of a block are handled again if the number of variables   *)
(* of its value changed.                                                    *)
SizeOf(value) == IF value = NONE THEN -1 ELSE Cardinality(DOMAIN value)

HandledOnce(s, blocks, graph, b) ==
  LET in == InValue(s, graph, b)
      out == Transformed(blocks, b, in)
  IN [worklist |-> Tail(s.worklist),
      in_value |-> [s.in_value EXCEPT ![b] = in],
      out_value |-> [s.out_value EXCEPT ![b] = out]]
Handled(s, blocks, graph, b) ==
  LET in == InValue(s, graph, b)
      out == Transformed(blocks, b, in)
  IN [worklist |-> Tail(s.worklist)
                     \o IF SizeOf(out) # SizeOf(s.out_value[b]) THEN graph[b] ELSE <<>>,
      in_value |-> [s.in_value EXCEPT ![b] = in],
      out_value |-> [s.out_value EXCEPT ![b] = out]]

RECURSIVE DataFlowFrom(_, _, _)
DataFlowFrom(s, blocks, graph) ==
  IF s.worklist = <<>> THEN s
  ELSE DataFlowFrom(Handled(s, blocks, graph, Head(s.worklist)), blocks, graph)

(* A block other than the entry without predecessors has no value: the      *)
(* assertion of transform fails.                                            *)
DataFlowAsserts(graph) == \E b \in DOMAIN graph \ {1} : Predecessors(graph, b) = {}

DataFlowOf(blocks, args) ==
  LET graph == Graph(blocks)
  IN DataFlowFrom(
       [worklist |-> [b \in DOMAIN blocks |-> b],
        in_value |-> [b \in DOMAIN blocks |-> IF b = 1 THEN [x \in args |-> {ARG}] ELSE NONE],
        out_value |-> [b \in DOMAIN blocks |-> NONE]],
       blocks, graph)

-----------------------------------------------------------------------------
(* Dominators.computeDominators.                                            *)

DominatorsOfAnyPredecessor(graph, dominators, b) ==
  {b} \cup UNION {dominators[p] : p \in Predecessors(graph, b)}
DominatorsFromPredecessors(graph, dominators, b) ==
  LET ofPredecessors == {dominators[p] : p \in Predecessors(graph, b)}
  IN {b} \cup {d \in UNION ofPredecessors : \A D \in ofPredecessors : d \in D}

OnePass(graph, dominators) ==
  FoldLeft(LAMBDA doms, b : [doms EXCEPT ![b] = DominatorsFromPredecessors(graph, doms, b)],
           dominators, [b \in DOMAIN graph |-> b])

RECURSIVE DominatorsFrom(_, _)
DominatorsFrom(graph, dominators) ==
  LET next == OnePass(graph, dominators)
  IN IF next = dominators THEN dominators ELSE DominatorsFrom(graph, next)

DominatorsOf(graph) == DominatorsFrom(graph, [b \in DOMAIN graph |-> {b}])

-----------------------------------------------------------------------------
(* What the analyses mean, in terms of paths.                               *)

RECURSIVE ReachedFrom(_, _)
ReachedFrom(graph, S) ==
  LET more == S \cup UNION {ToSet(graph[b]) : b \in S}
  IN IF more = S THEN S ELSE ReachedFrom(graph, more)

(* The blocks that paths from S come to, where a path ends at a stop.       *)
RECURSIVE PathsEnd(_, _, _)
PathsEnd(graph, S, stops) ==
  LET more == S \cup UNION {ToSet(graph[b]) : b \in S \ stops}
  IN IF more = S THEN S ELSE PathsEnd(graph, more, stops)

Defining(blocks, x) == {b \in DOMAIN blocks : x \in DefinedIn(blocks[b].instructions)}

Reaching(blocks, graph, args, b, x) ==
  {<<d, LastDefinition(blocks[d], x)>> :
     d \in {d \in Defining(blocks, x) : b \in PathsEnd(graph, ToSet(graph[d]), Defining(blocks, x))}}
  \cup IF x \in args /\ b \in PathsEnd(graph, {1}, Defining(blocks, x)) THEN {ARG} ELSE {}

IsAcyclic(graph) == \A b \in DOMAIN graph : b \notin ReachedFrom(graph, ToSet(graph[b]))

(* d is on every path from the entry to b.                                  *)
Dominates(graph, d, b) == b \notin PathsEnd(graph, {1} \ {d}, {d}) \/ b = d
=============================================================================
