----------------------------- MODULE LiveRanges -----------------------------
(***************************************************************************)
(* live_range_analyser.py: the data-flow fixpoint over the blocks of a      *)
(* function, and the instructions at which each virtual register is live.   *)
(***************************************************************************)
EXTENDS PseudoAssembler

VARIABLES
  in_set,              \* per block, the registers live at its beginning
  out_set,             \* per block, those live at its end
  block_ix,            \* the block the loop of the fixpoint comes to
  something_changed    \* whether this round of the loop has changed a set

analysis_vars == <<in_set, out_set, block_ix, something_changed>>

-----------------------------------------------------------------------------
AssemblyBlocks == 1 .. Len(assembly)
Instructions(b) == assembly[b].instructions
AllRegisters == 1 .. Len(registers.stands_for)

(* Registers an earlier instruction of the block reads, or writes.          *)
ReadBefore(b, i) == UNION {Instructions(b)[j].reads : j \in 1 .. i - 1}
WrittenBefore(b, i) == UNION {Instructions(b)[j].writes : j \in 1 .. i - 1}

(* Read without first being written; written without first being read.      *)
GenSet(b) ==
  UNION {Instructions(b)[i].reads \ WrittenBefore(b, i) : i \in 1 .. Len(Instructions(b))}
KillSet(b) ==
  UNION {Instructions(b)[i].writes \ ReadBefore(b, i + 1) : i \in 1 .. Len(Instructions(b))}

InitAnalysis ==
  /\ in_set = <<>>
  /\ out_set = <<>>
  /\ block_ix = 1
  /\ something_changed = TRUE

StartAnalysis ==
  /\ in_set' = [b \in AssemblyBlocks |-> {}]
  /\ out_set' = [b \in AssemblyBlocks |-> {}]
  /\ block_ix' = 1
  /\ something_changed' = FALSE

(* The in set is computed from the out set of the round before.             *)
NewIn(b) == GenSet(b) \cup (out_set[b] \ KillSet(b))
NewOut(b) == UNION {in_set[assembly[b].next[i]] : i \in 1 .. Len(assembly[b].next)}

AnalyseBlock ==
  /\ block_ix <= Len(assembly)
  /\ LET b == block_ix
         new_in == NewIn(b)
         new_out == NewOut(b)
     IN /\ in_set' = [in_set EXCEPT ![b] = new_in]
        /\ out_set' = [out_set EXCEPT ![b] = new_out]
        /\ something_changed' = (something_changed \/ new_in # in_set[b] \/ new_out # out_set[b])
  /\ block_ix' = block_ix + 1

NextRound ==
  /\ block_ix > Len(assembly)
  /\ something_changed
  /\ block_ix' = 1
  /\ something_changed' = FALSE
  /\ UNCHANGED <<in_set, out_set>>

Analysed == block_ix > Len(assembly) /\ ~something_changed

-----------------------------------------------------------------------------
(* The instructions of the function in the order of the blocks.             *)
Numbered ==
  FlattenSeq([b \in AssemblyBlocks |->
    [i \in 1 .. Len(Instructions(b)) |->
       [reads |-> Instructions(b)[i].reads, writes |-> Instructions(b)[i].writes,
        leaves |-> IF i = Len(Instructions(b)) THEN out_set[b] ELSE {}]]])

(* A register is live from an instruction that writes it up to the one that *)
(* reads it, and up to the end of a block it leaves; the analyser goes      *)
(* through the blocks in their order, so it is live in what lies between.   *)
(* The faulty variant begins after the instruction that writes it.          *)
LiveAfterWrite(register, numbered) ==
  LET written == {n \in 1 .. Len(numbered) : register \in numbered[n].writes}
      Since(n) == Max({1} \cup {w + 1 : w \in {v \in written : v <= n}})
  IN UNION {Since(n - 1) .. n - 1 : n \in {m \in 1 .. Len(numbered) : register \in numbered[m].reads}}
Live(register, numbered) ==
  LET written == {n \in 1 .. Len(numbered) : register \in numbered[n].writes}
      read == {n \in 1 .. Len(numbered) : register \in numbered[n].reads}
      left == {n \in 1 .. Len(numbered) : register \in numbered[n].leaves}
      Since(n) == Max({1} \cup {w \in written : w <= n})
  IN UNION ({Since(n - 1) .. n - 1 : n \in read} \cup {Since(n) .. n : n \in left})

(* computeLiveRanges: one range for each run of consecutive instructions.   *)
Runs(live, register) ==
  {[first |-> a, register |-> register,
    last |-> CHOOSE z \in live : a <= z /\ (a .. z) \subseteq live /\ z + 1 \notin live] :
   a \in {x \in live : x - 1 \notin live}}

(* The order of the ranges that begin at an instruction, and of all.        *)
RangeBefore(r1, r2) ==
  \/ r1.last < r2.last
  \/ r1.last = r2.last /\ r1.register < r2.register

ComputeLiveRanges ==
  LET numbered == Numbered
      used == UNION {numbered[n].reads \cup numbered[n].writes : n \in 1 .. Len(numbered)}
      ranges == UNION {Runs(Live(r, numbered), r) : r \in used}
      From(n) == {range \in ranges : range.first = n}
  IN FlattenSeq([n \in 1 .. Len(numbered) |-> SetToSortSeq(From(n), RangeBefore)])
=============================================================================
