----------------------- MODULE RegisterAllocatorProofs -----------------------
(***************************************************************************)
(* For any live ranges and any number of real registers: findRegister finds *)
(* a register, and what tryToAllocate returns is a colouring of the         *)
(* conflict graph.                                                          *)
(***************************************************************************)
EXTENDS RegisterAllocator, FiniteSetTheorems, SequenceTheorems, TLAPS

-----------------------------------------------------------------------------
(* The inductive invariant, part by part.                                   *)
AllocatorTypes ==
  /\ allocation \in {"idle", "simplify", "select", "done", "spill"}
  /\ nodes \in Seq(Nat)
  /\ conflicts \in [Nodes -> SUBSET Nodes]
  /\ simplified \in Seq(UnrealNodes)
  /\ assigned_register \in [Nodes -> Registers \cup {NO_REGISTER}]

(* Conflicts are mutual, and no node conflicts with itself.                 *)
MutualConflicts ==
  \A i, j \in Nodes : j \in conflicts[i] => i \in conflicts[j] /\ i # j

(* A node is simplified once, and when it was, it had fewer conflicts than  *)
(* there are registers.                                                     *)
BeforeIt(p) == {simplified[q] : q \in 1 .. p - 1}
SimplifiedOnce ==
  \A p, q \in 1 .. Len(simplified) : simplified[p] = simplified[q] => p = q
FewConflicts ==
  \A p \in 1 .. Len(simplified) :
    Cardinality(conflicts[simplified[p]] \ BeforeIt(p)) < K

(* The nodes that came back into the graph are coloured.                    *)
InGraphColoured ==
  allocation \in {"select", "done"} =>
    \A i \in UnrealNodes \ Simplified :
      /\ assigned_register[i] \in Registers
      /\ \A j \in conflicts[i] \ Simplified : assigned_register[i] # assigned_register[j]

AllComeBack == allocation = "done" => simplified = <<>>

AllocatorInvariant ==
  /\ AllocatorTypes
  /\ MutualConflicts
  /\ SimplifiedOnce
  /\ FewConflicts
  /\ InGraphColoured
  /\ AllComeBack

-----------------------------------------------------------------------------
(* The registers are distinct, none is NO_REGISTER, and there are K.        *)
LEMMA RegisterFacts ==
  /\ K \in Nat
  /\ \A r \in 1 .. K : RealRegisters[r] \in Registers
  /\ \A r \in Registers : \E i \in 1 .. K : r = RealRegisters[i]
  /\ \A i, j \in 1 .. K : RealRegisters[i] = RealRegisters[j] => i = j
  /\ NO_REGISTER \notin Registers
BY RealRegistersAssumption DEF K, Registers

LEMMA NodesFinite ==
  ASSUME AllocatorTypes
  PROVE  /\ Len(nodes) \in Nat
         /\ UnrealNodes \subseteq Nodes
         /\ IsFiniteSet(Nodes)
         /\ \A i \in Nodes : IsFiniteSet(conflicts[i])
<1>1. Len(nodes) \in Nat /\ K \in Nat
  BY RegisterFacts DEF AllocatorTypes
<1>2. UnrealNodes \subseteq Nodes
  BY <1>1 DEF UnrealNodes, Nodes
<1>3. IsFiniteSet(Nodes)
  BY <1>1, FS_Interval DEF Nodes
<1>4. \A i \in Nodes : IsFiniteSet(conflicts[i])
  BY <1>3, FS_Subset DEF AllocatorTypes
<1> QED
  BY <1>1, <1>2, <1>3, <1>4

(* Fewer conflicts than registers leave a register: otherwise each register *)
(* would be that of a conflicting node, and two of them that of the same.   *)
LEMMA RegisterLeft ==
  ASSUME AllocatorTypes, NEW node \in UnrealNodes,
         Cardinality(conflicts[node] \ Simplified) < K
  PROVE  \E r \in 1 .. K : Ok(node, RealRegisters[r])
<1> DEFINE C == conflicts[node] \ Simplified
           f == [r \in 1 .. K |-> CHOOSE other \in C : assigned_register[other] = RealRegisters[r]]
<1> SUFFICES ASSUME \A r \in 1 .. K : ~Ok(node, RealRegisters[r])
             PROVE  FALSE
  OBVIOUS
<1>1. \A r \in 1 .. K : \E other \in C : assigned_register[other] = RealRegisters[r]
  BY DEF Ok
<1>2. \A r \in 1 .. K : f[r] \in C /\ assigned_register[f[r]] = RealRegisters[r]
  BY <1>1
<1>3. f \in [1 .. K -> C]
  BY <1>2
<1>4. IsFiniteSet(C)
  <2>1. IsFiniteSet(conflicts[node])
    BY NodesFinite
  <2> QED
    BY <2>1, FS_Difference
<1>5. IsFiniteSet(1 .. K) /\ Cardinality(1 .. K) = K
  BY RegisterFacts, FS_Interval
<1>6. PICK x, y \in 1 .. K : x # y /\ f[x] = f[y]
  <2> HIDE DEF C, f
  <2>1. Cardinality(C) < Cardinality(1 .. K)
    BY <1>5 DEF C
  <2> QED
    BY <1>3, <1>4, <1>5, <2>1, FS_PigeonHole
<1>7. RealRegisters[x] = RealRegisters[y]
  BY <1>2, <1>6
<1> QED
  BY <1>6, <1>7, RegisterFacts

(* If as many nodes are simplified as there are, all are.                   *)
LEMMA AllSimplified ==
  ASSUME AllocatorTypes, SimplifiedOnce, Len(simplified) = Len(nodes)
  PROVE  UnrealNodes \ Simplified = {}
<1> SUFFICES ASSUME NEW i \in UnrealNodes, i \notin Simplified
             PROVE  FALSE
  OBVIOUS
<1> DEFINE n == Len(nodes)
           T == UnrealNodes \ {i}
<1>1. n \in Nat
  BY DEF AllocatorTypes
<1>2. IsFiniteSet(1 .. n) /\ Cardinality(1 .. n) = n
  <2> HIDE DEF n
  <2>1. IsFiniteSet(1 .. n) /\ Cardinality(1 .. n) = IF 1 > n THEN 0 ELSE n - 1 + 1
    BY <1>1, FS_Interval
  <2> QED
    BY ONLY <1>1, <2>1
<1>3. IsFiniteSet(T) /\ Cardinality(T) = n - 1
  BY <1>2, FS_RemoveElement DEF UnrealNodes
<1>4. simplified \in [1 .. n -> T]
  BY DEF AllocatorTypes, Simplified
<1>5. \E p, q \in 1 .. n : p # q /\ simplified[p] = simplified[q]
  <2> HIDE DEF T, n
  <2>1. Cardinality(T) < Cardinality(1 .. n)
    BY <1>1, <1>2, <1>3
  <2> QED
    BY <1>2, <1>3, <1>4, <2>1, FS_PigeonHole
<1> QED
  BY <1>5 DEF SimplifiedOnce

-----------------------------------------------------------------------------
LEMMA InitKeeps == InitAllocator => AllocatorInvariant
<1> SUFFICES ASSUME InitAllocator
             PROVE  AllocatorInvariant
  OBVIOUS
<1>1. /\ Len(nodes) = 0 /\ Nodes = 1 .. K /\ UnrealNodes = {}
      /\ simplified = <<>> /\ Len(simplified) = 0
  BY RegisterFacts DEF InitAllocator, Nodes, UnrealNodes
<1>2. AllocatorTypes
  <2>1. conflicts \in [Nodes -> SUBSET Nodes]
    BY <1>1 DEF InitAllocator
  <2>2. assigned_register \in [Nodes -> Registers \cup {NO_REGISTER}]
    BY <1>1, RegisterFacts, RealRegistersAssumption DEF InitAllocator, K
  <2> QED
    BY <1>1, <2>1, <2>2 DEF InitAllocator, AllocatorTypes
<1>3. MutualConflicts
  BY <1>1 DEF InitAllocator, MutualConflicts
<1> QED
  BY <1>1, <1>2, <1>3
  DEF InitAllocator, AllocatorInvariant, SimplifiedOnce, FewConflicts, InGraphColoured, AllComeBack

LEMMA TryToAllocateKeeps ==
  ASSUME AllocatorInvariant, NEW ranges \in Seq(LiveRange),
         NEW not_in \in [Nat -> SUBSET Registers], TryToAllocate(ranges, not_in)
  PROVE  AllocatorInvariant'
<1> DEFINE n == Len(ranges)
<1>1. n \in Nat /\ K \in Nat
  BY RegisterFacts
<1>2. nodes' \in Seq(Nat) /\ Len(nodes') = n
  <2>1. \A range \in LiveRange : range.register \in Nat
    BY DEF LiveRange
  <2>2. \A i \in 1 .. n : ranges[i].register \in Nat
    BY <2>1
  <2> QED
    BY <1>1, <2>2 DEF TryToAllocate
<1>3. /\ Nodes' = 1 .. n + K
      /\ UnrealNodes' = 1 .. n
      /\ simplified' = <<>> /\ Len(simplified') = 0 /\ allocation' = "simplify"
  BY <1>2 DEF TryToAllocate, Nodes, UnrealNodes, K
<1>4. conflicts' \in [Nodes' -> SUBSET Nodes']
  BY <1>3 DEF TryToAllocate, ConflictGraph
<1>5. assigned_register' \in [Nodes' -> Registers' \cup {NO_REGISTER}]
  BY <1>1, <1>3, RegisterFacts DEF TryToAllocate, Registers, K
<1>6. AllocatorTypes'
  BY <1>2, <1>3, <1>4, <1>5 DEF AllocatorTypes
<1>7. MutualConflicts'
  <2> SUFFICES ASSUME NEW i \in 1 .. n + K, NEW j \in 1 .. n + K, j \in conflicts'[i]
               PROVE  i \in conflicts'[j] /\ i # j
    BY <1>3 DEF MutualConflicts
  <2>1. \A r1, r2 : Overlap(r1, r2) => Overlap(r2, r1)
    BY DEF Overlap
  <2> QED
    BY <1>1, <2>1 DEF TryToAllocate, ConflictGraph
<1> QED
  BY <1>3, <1>6, <1>7
  DEF AllocatorInvariant, SimplifiedOnce, FewConflicts, InGraphColoured, AllComeBack

LEMMA SimplifyNodeKeeps ==
  ASSUME AllocatorInvariant, SimplifyNode
  PROVE  AllocatorInvariant'
<1>1. PICK i \in CanSimplify : simplified' = Append(simplified, i)
  BY DEF SimplifyNode
<1>2. /\ i \in UnrealNodes \ Simplified
      /\ Cardinality(conflicts[i] \ Simplified) < K
  BY <1>1 DEF CanSimplify, ConflictCounts, LowDegree
<1> DEFINE n == Len(simplified)
<1>3. /\ simplified \in Seq(UnrealNodes) /\ n \in Nat
      /\ simplified' \in Seq(UnrealNodes)
      /\ Len(simplified') = n + 1
      /\ simplified'[n + 1] = i
      /\ \A p \in 1 .. n : simplified'[p] = simplified[p]
  BY <1>1, <1>2 DEF AllocatorInvariant, AllocatorTypes
<1>4. /\ allocation = "simplify" /\ allocation' = "simplify"
      /\ UNCHANGED <<nodes, conflicts, assigned_register>>
      /\ UNCHANGED <<Nodes, UnrealNodes>>
  BY DEF SimplifyNode, graph_vars, Nodes, UnrealNodes, K
<1>5. AllocatorTypes'
  BY <1>3, <1>4 DEF AllocatorInvariant, AllocatorTypes, Registers
<1>6. MutualConflicts'
  BY <1>4 DEF AllocatorInvariant, MutualConflicts
<1>7. SimplifiedOnce'
  BY <1>2, <1>3 DEF AllocatorInvariant, SimplifiedOnce, Simplified
<1>8. FewConflicts'
  <2> SUFFICES ASSUME NEW p \in 1 .. n + 1
               PROVE  Cardinality(conflicts[simplified'[p]] \ BeforeIt(p)') < K
    BY <1>3, <1>4 DEF FewConflicts, K
  <2>1. BeforeIt(p)' = BeforeIt(p)
    BY <1>3 DEF BeforeIt
  <2>2. CASE p \in 1 .. n
    BY <1>3, <2>1, <2>2 DEF AllocatorInvariant, FewConflicts
  <2>3. CASE p = n + 1
    <3>1. BeforeIt(p) = Simplified
      BY <1>3, <2>3 DEF BeforeIt, Simplified
    <3> QED
      BY <1>2, <1>3, <2>1, <2>3, <3>1
  <2> QED
    BY <1>3, <2>2, <2>3
<1> QED
  BY <1>4, <1>5, <1>6, <1>7, <1>8 DEF AllocatorInvariant, InGraphColoured, AllComeBack

LEMMA SimplifyDoneKeeps ==
  ASSUME AllocatorInvariant, SimplifyDone
  PROVE  AllocatorInvariant'
<1>1. /\ allocation' \in {"select", "spill"}
      /\ allocation' = "select" => Len(simplified) = Len(nodes)
      /\ UNCHANGED <<nodes, conflicts, simplified, assigned_register>>
  BY DEF SimplifyDone, graph_vars
<1>2. UNCHANGED <<Nodes, UnrealNodes, Simplified>>
  BY <1>1 DEF Nodes, UnrealNodes, Simplified, K
<1>3. InGraphColoured'
  BY <1>1, <1>2, AllSimplified DEF AllocatorInvariant, InGraphColoured
<1>4. AllocatorTypes' /\ AllComeBack'
  BY <1>1, <1>2 DEF AllocatorInvariant, AllocatorTypes, AllComeBack, Registers
<1>5. MutualConflicts' /\ SimplifiedOnce'
  BY <1>1, <1>2 DEF AllocatorInvariant, MutualConflicts, SimplifiedOnce
<1>6. FewConflicts'
  BY <1>1 DEF AllocatorInvariant, FewConflicts, BeforeIt, K
<1> QED
  BY <1>3, <1>4, <1>5, <1>6 DEF AllocatorInvariant

LEMMA SelectRegisterKeeps ==
  ASSUME AllocatorInvariant, SelectRegister
  PROVE  AllocatorInvariant'
<1> DEFINE n == Len(simplified)
           node == simplified[n]
<1>1. /\ allocation = "select" /\ allocation' = "select" /\ simplified # <<>>
      /\ simplified' = SubSeq(simplified, 1, n - 1)
      /\ UNCHANGED <<nodes, conflicts>>
      /\ UNCHANGED <<Nodes, UnrealNodes>>
  BY DEF SelectRegister, graph_vars, Nodes, UnrealNodes, K
<1>2. PICK r \in 1 .. K :
        /\ Ok(node, RealRegisters[r])
        /\ assigned_register' = [assigned_register EXCEPT ![node] = RealRegisters[r]]
  BY DEF SelectRegister, FindRegister
<1>3. /\ simplified \in Seq(UnrealNodes) /\ n \in Nat /\ n > 0
      /\ simplified' \in Seq(UnrealNodes)
      /\ Len(simplified') = n - 1
      /\ \A p \in 1 .. n - 1 : simplified'[p] = simplified[p]
  <2>1. simplified \in Seq(UnrealNodes) /\ n \in Nat
    BY DEF AllocatorInvariant, AllocatorTypes
  <2>2. n > 0
    BY <1>1, <2>1
  <2>3. /\ SubSeq(simplified, 1, n - 1) \in Seq(UnrealNodes)
        /\ Len(SubSeq(simplified, 1, n - 1)) = n - 1
        /\ \A p \in 1 .. n - 1 : SubSeq(simplified, 1, n - 1)[p] = simplified[p]
    <3> HIDE DEF n
    <3>1. n = Len(simplified)
      BY DEF n
    <3> QED
      BY <2>1, <2>2, <3>1, SubSeqProperties
  <2> QED
    BY <1>1, <2>1, <2>2, <2>3
<1>4. node \in UnrealNodes /\ node \in Nodes
  BY <1>3, NodesFinite DEF AllocatorInvariant
<1>5. Simplified' = Simplified \ {node} /\ node \in Simplified
  <2>1. \A p \in 1 .. n - 1 : simplified[p] # node
    BY <1>3 DEF AllocatorInvariant, SimplifiedOnce
  <2>2. Simplified = {simplified[p] : p \in 1 .. n}
    BY DEF Simplified
  <2>3. Simplified' = {simplified[p] : p \in 1 .. n - 1}
    BY <1>3 DEF Simplified
  <2>4. \A p \in 1 .. n : p \in 1 .. n - 1 \/ p = n
    BY <1>3
  <2>5. n \in 1 .. n /\ 1 .. n - 1 \subseteq 1 .. n /\ simplified[n] = node
    BY <1>3
  <2> QED
    BY <2>1, <2>2, <2>3, <2>4, <2>5
<1>6. AllocatorTypes'
  <2>1. assigned_register' \in [Nodes -> Registers \cup {NO_REGISTER}]
    BY <1>2, RegisterFacts DEF AllocatorInvariant, AllocatorTypes
  <2> QED
    BY <1>1, <1>3, <2>1 DEF AllocatorInvariant, AllocatorTypes, Registers
<1>7. MutualConflicts'
  BY <1>1 DEF AllocatorInvariant, MutualConflicts
<1>8. SimplifiedOnce'
  BY <1>3 DEF AllocatorInvariant, SimplifiedOnce
<1>9. FewConflicts'
  <2> SUFFICES ASSUME NEW p \in 1 .. n - 1
               PROVE  Cardinality(conflicts[simplified'[p]] \ BeforeIt(p)') < K
    BY <1>1, <1>3 DEF FewConflicts, K
  <2>1. BeforeIt(p)' = BeforeIt(p)
    BY <1>3 DEF BeforeIt
  <2> QED
    BY <1>3, <2>1 DEF AllocatorInvariant, FewConflicts
<1>10. InGraphColoured'
  <2> SUFFICES ASSUME NEW i \in UnrealNodes, i \notin Simplified'
               PROVE  /\ assigned_register'[i] \in Registers
                      /\ \A j \in conflicts[i] \ Simplified' :
                           assigned_register'[i] # assigned_register'[j]
    BY <1>1 DEF InGraphColoured, Registers
  <2>1. /\ i \in Nodes /\ conflicts[i] \subseteq Nodes
        /\ assigned_register'[node] = RealRegisters[r]
        /\ \A j \in Nodes : j # node => assigned_register'[j] = assigned_register[j]
    BY <1>2, <1>4, NodesFinite DEF AllocatorInvariant, AllocatorTypes
  <2>2. node \notin conflicts[node]
    BY <1>4 DEF AllocatorInvariant, MutualConflicts
  <2>3. CASE i = node
    BY <1>2, <1>5, <2>1, <2>2, <2>3, RegisterFacts DEF Ok
  <2>4. CASE i # node
    <3>1. i \notin Simplified
      BY <1>5, <2>4
    <3>2. assigned_register[i] \in Registers
      BY <1>1, <3>1 DEF AllocatorInvariant, InGraphColoured
    <3>3. ASSUME NEW j \in conflicts[i] \ Simplified'
          PROVE  assigned_register[i] # assigned_register'[j]
      <4>1. CASE j = node
        <5>1. i \in conflicts[node]
          BY <1>4, <2>1, <4>1 DEF AllocatorInvariant, MutualConflicts
        <5> QED
          BY <1>2, <2>1, <3>1, <4>1, <5>1 DEF Ok
      <4>2. CASE j # node
        BY <1>1, <1>5, <2>1, <3>1, <4>2 DEF AllocatorInvariant, InGraphColoured
      <4> QED
        BY <4>1, <4>2
    <3> QED
      BY <2>1, <2>4, <3>2, <3>3
  <2> QED
    BY <2>3, <2>4
<1> QED
  BY <1>1, <1>6, <1>7, <1>8, <1>9, <1>10 DEF AllocatorInvariant, AllComeBack

LEMMA SelectDoneKeeps ==
  ASSUME AllocatorInvariant, SelectDone \/ SpillsTaken \/ UNCHANGED allocator_vars
  PROVE  AllocatorInvariant'
<1>1. /\ UNCHANGED <<nodes, conflicts, simplified, assigned_register>>
      /\ allocation' \in {"idle", "done", allocation}
      /\ allocation' = "done" => simplified = <<>> /\ allocation \in {"select", "done"}
  BY DEF SelectDone, SpillsTaken, allocator_vars, graph_vars, AllocatorInvariant, AllComeBack
<1>2. UNCHANGED <<Nodes, UnrealNodes, Simplified, Registers, K>>
  BY <1>1 DEF Nodes, UnrealNodes, Simplified, K, Registers
<1>3. InGraphColoured'
  BY <1>1, <1>2 DEF AllocatorInvariant, InGraphColoured
<1>4. AllocatorTypes' /\ AllComeBack'
  BY <1>1, <1>2 DEF AllocatorInvariant, AllocatorTypes, AllComeBack
<1>5. MutualConflicts' /\ SimplifiedOnce'
  BY <1>1, <1>2 DEF AllocatorInvariant, MutualConflicts, SimplifiedOnce
<1>6. FewConflicts'
  BY <1>1 DEF AllocatorInvariant, FewConflicts, BeforeIt, K
<1> QED
  BY <1>3, <1>4, <1>5, <1>6 DEF AllocatorInvariant

-----------------------------------------------------------------------------
(* The invariant holds in every state of the allocator.                     *)
THEOREM AllocatorInvariantHolds == AllocatorSpec => []AllocatorInvariant
<1>1. AllocatorInvariant /\ [AllocatorNext]_allocator_vars => AllocatorInvariant'
  BY TryToAllocateKeeps, SimplifyNodeKeeps, SimplifyDoneKeeps, SelectRegisterKeeps, SelectDoneKeeps
  DEF AllocatorNext, ColourStep
<1> QED
  BY <1>1, InitKeeps, PTL DEF AllocatorSpec

(* The assertion at the end of findRegister (register_allocator.py:53) is   *)
(* never reached.                                                           *)
THEOREM AllocatorFindsRegisters == AllocatorSpec => []RegisterIsFound
<1>1. AllocatorInvariant => RegisterIsFound
  <2> SUFFICES ASSUME AllocatorInvariant, allocation = "select", simplified # <<>>
               PROVE  \E r \in 1 .. K : Ok(simplified[Len(simplified)], RealRegisters[r])
    BY DEF RegisterIsFound
  <2> DEFINE n == Len(simplified)
             node == simplified[n]
  <2>1. n \in 1 .. Len(simplified) /\ node \in UnrealNodes /\ node \in Nodes
    BY NodesFinite DEF AllocatorInvariant, AllocatorTypes
  <2>2. Cardinality(conflicts[node] \ BeforeIt(n)) < K
    BY <2>1 DEF AllocatorInvariant, FewConflicts
  <2>3. conflicts[node] \ Simplified = conflicts[node] \ BeforeIt(n)
    <3>1. node \notin conflicts[node]
      BY <2>1 DEF AllocatorInvariant, MutualConflicts
    <3>2. Simplified = BeforeIt(n) \cup {node}
      BY <2>1 DEF Simplified, BeforeIt
    <3> QED
      BY <3>1, <3>2
  <2> QED
    BY <2>1, <2>2, <2>3, RegisterLeft DEF AllocatorInvariant
<1> QED
  BY <1>1, AllocatorInvariantHolds, PTL

(* Nodes that conflict get different registers, and none gets a real        *)
(* register it conflicts with.                                              *)
THEOREM AllocatorColours == AllocatorSpec => []ProperColouring
<1>1. AllocatorInvariant => ProperColouring
  <2> SUFFICES ASSUME AllocatorInvariant, allocation = "done"
               PROVE  ProperColouring
    BY DEF ProperColouring
  <2>1. Simplified = {}
    BY DEF AllocatorInvariant, AllComeBack, Simplified
  <2> QED
    BY <2>1 DEF AllocatorInvariant, InGraphColoured, ProperColouring
<1> QED
  BY <1>1, AllocatorInvariantHolds, PTL
=============================================================================
