-------------------------- MODULE RegisterAllocator --------------------------
(***************************************************************************)
(* register_allocator.py: tryToAllocate, a colouring of the conflict graph. *)
(* The nodes are the live ranges in the order of their beginning, then the  *)
(* real registers.                                                          *)
(***************************************************************************)
EXTENDS Integers, Sequences, FiniteSets

CONSTANTS
  RealRegisters,   \* the registers of the machine, in the order they are tried
  NO_REGISTER

ASSUME RealRegistersAssumption ==
  /\ RealRegisters \in Seq(STRING)
  /\ \A i, j \in 1 .. Len(RealRegisters) : i # j => RealRegisters[i] # RealRegisters[j]
  /\ \A i \in 1 .. Len(RealRegisters) : RealRegisters[i] # NO_REGISTER

VARIABLES
  allocation,          \* "idle", "simplify", "select", "done" or "spill"
  nodes,               \* the virtual registers of the live ranges
  conflicts,           \* per node, the nodes it conflicts with
  simplified,          \* the nodes removed from the graph, in order
  next_node,           \* the node the loop of the simplification comes to
  assigned_register,   \* per node
  assigned_registers   \* per virtual register, once it has one

graph_vars == <<nodes, conflicts>>
allocator_vars ==
  <<allocation, graph_vars, simplified, next_node, assigned_register, assigned_registers>>

-----------------------------------------------------------------------------
K == Len(RealRegisters)
Registers == {RealRegisters[r] : r \in 1 .. K}
UnrealNodes == 1 .. Len(nodes)
Nodes == 1 .. Len(nodes) + K
Simplified == {simplified[i] : i \in 1 .. Len(simplified)}
NothingAssigned == [v \in {} |-> NO_REGISTER]

(* conflictCount of every node: those that are simplified do not count.     *)
ConflictCounts ==
  LET gone == Simplified
  IN [i \in UnrealNodes |-> Cardinality(conflicts[i] \ gone)]

(* A live range: its first and last instruction, and whose it is.           *)
LiveRange == [first : Nat, last : Nat, register : Nat]

Overlap(r1, r2) ==
  \/ r2.first >= r1.first /\ r2.first <= r1.last
  \/ r1.first >= r2.first /\ r1.first <= r2.last

(* Two ranges conflict if they overlap, and one conflicts with the real     *)
(* registers its virtual register cannot use, which are in not_in.          *)
ConflictGraph(ranges, not_in) ==
  LET n == Len(ranges)
      Forbidden(i, j) == RealRegisters[j - n] \in not_in[ranges[i].register]
  IN [i \in 1 .. n + K |->
        {j \in (1 .. n + K) \ {i} :
           \/ i <= n /\ j <= n /\ Overlap(ranges[i], ranges[j])
           \/ i <= n /\ j > n /\ Forbidden(i, j)
           \/ i > n /\ j <= n /\ Forbidden(j, i)}]

InitAllocator ==
  /\ allocation = "idle"
  /\ nodes = <<>>
  /\ conflicts = [i \in 1 .. K |-> {}]
  /\ simplified = <<>>
  /\ next_node = 1
  /\ assigned_register = RealRegisters
  /\ assigned_registers = NothingAssigned

TryToAllocate(ranges, not_in) ==
  /\ allocation = "idle"
  /\ allocation' = "simplify"
  /\ nodes' = [i \in 1 .. Len(ranges) |-> ranges[i].register]
  /\ conflicts' = ConflictGraph(ranges, not_in)
  /\ simplified' = <<>>
  /\ next_node' = 1
  /\ assigned_register' =
       [i \in 1 .. Len(ranges) + K |->
          IF i <= Len(ranges) THEN NO_REGISTER ELSE RealRegisters[i - Len(ranges)]]
  /\ assigned_registers' = NothingAssigned

-----------------------------------------------------------------------------
(* Nodes whose degree is less than the number of registers: a register can  *)
(* always be found for them.  The faulty variant is off by one.             *)
LowDegreeOrEqual(degree) == degree <= K
LowDegree(degree) == degree < K
CanSimplify ==
  LET count == ConflictCounts
  IN {i \in UnrealNodes \ Simplified : LowDegree(count[i])}

(* The loop goes round the nodes until a round has simplified none.         *)
SimplifyNode ==
  /\ allocation = "simplify"
  /\ LET can == CanSimplify
         ahead == {i \in can : next_node <= i}
         round == IF ahead = {} THEN can ELSE ahead
     IN \E i \in round :
          /\ \A j \in round : i <= j
          /\ simplified' = Append(simplified, i)
          /\ next_node' = i + 1
  /\ UNCHANGED <<allocation, graph_vars, assigned_register, assigned_registers>>

SimplifyDone ==
  /\ allocation = "simplify"
  /\ CanSimplify = {}
  /\ allocation' = IF Len(simplified) = Len(nodes) THEN "select" ELSE "spill"
  /\ UNCHANGED <<graph_vars, simplified, next_node, assigned_register, assigned_registers>>

(* findRegister: the first register that no conflicting node in the graph   *)
(* has.  The faulty variant looks at the nodes that are not in the graph.   *)
OkAmongSimplified(node, register) ==
  \A other \in conflicts[node] \cap Simplified : assigned_register[other] # register
Ok(node, register) ==
  \A other \in conflicts[node] \ Simplified : assigned_register[other] # register

FindRegister(node, r) ==
  /\ Ok(node, RealRegisters[r])
  /\ \A earlier \in 1 .. r - 1 : ~Ok(node, RealRegisters[earlier])

(* The nodes come back into the graph in the reverse order.  A virtual      *)
(* register that is several nodes is left with what the last of them got.   *)
SelectRegister ==
  /\ allocation = "select"
  /\ simplified # <<>>
  /\ LET node == simplified[Len(simplified)]
     IN \E r \in 1 .. K :
          /\ FindRegister(node, r)
          /\ assigned_register' = [assigned_register EXCEPT ![node] = RealRegisters[r]]
          /\ assigned_registers' =
               [v \in DOMAIN assigned_registers \cup {nodes[node]} |->
                  IF v = nodes[node] THEN RealRegisters[r] ELSE assigned_registers[v]]
  /\ simplified' = SubSeq(simplified, 1, Len(simplified) - 1)
  /\ UNCHANGED <<allocation, graph_vars, next_node>>

SelectDone ==
  /\ allocation = "select"
  /\ simplified = <<>>
  /\ allocation' = "done"
  /\ UNCHANGED <<graph_vars, simplified, next_node, assigned_register, assigned_registers>>

ColourStep ==
  \/ SimplifyNode
  \/ SimplifyDone
  \/ SelectRegister
  \/ SelectDone

(* The registers to spill: all with the most conflicts.  They are meant not *)
(* to conflict with each other, but what is compared with them are real     *)
(* registers, so all of them are spilled.  The faulty variant compares the   *)
(* other way round.                                                         *)
SpillLeast ==
  LET count == ConflictCounts
      HasLeast(i) == \A j \in UnrealNodes : count[i] <= count[j]
      chosen == SelectSeq([i \in UnrealNodes |-> i], HasLeast)
  IN [i \in 1 .. Len(chosen) |-> nodes[chosen[i]]]
SpillRegisters ==
  LET count == ConflictCounts
      HasMost(i) == \A j \in UnrealNodes : count[j] <= count[i]
      chosen == SelectSeq([i \in UnrealNodes |-> i], HasMost)
  IN [i \in 1 .. Len(chosen) |-> nodes[chosen[i]]]

(* The caller has spilled them, and will try again.                         *)
SpillsTaken ==
  /\ allocation = "spill"
  /\ allocation' = "idle"
  /\ UNCHANGED <<graph_vars, simplified, next_node, assigned_register, assigned_registers>>

AllocatorNext ==
  \/ \E ranges \in Seq(LiveRange), not_in \in [Nat -> SUBSET Registers] :
       TryToAllocate(ranges, not_in)
  \/ ColourStep
  \/ SpillsTaken

(* The allocator by itself, for any live ranges.                            *)
AllocatorSpec == InitAllocator /\ [][AllocatorNext]_allocator_vars

-----------------------------------------------------------------------------
(* The assertion of findRegister: there is a register for the node that     *)
(* comes back into the graph.                                               *)
RegisterIsFound ==
  allocation = "select" /\ simplified # <<>> =>
    \E r \in 1 .. K : Ok(simplified[Len(simplified)], RealRegisters[r])

(* What tryToAllocate returns is a colouring of the conflict graph: nodes   *)
(* that conflict with each other, or with a real register, do not share it. *)
ProperColouring ==
  allocation = "done" =>
    \A i \in UnrealNodes :
      /\ assigned_register[i] \in Registers
      /\ \A j \in conflicts[i] : assigned_register[i] # assigned_register[j]
=============================================================================
