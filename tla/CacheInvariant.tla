---------------------------- MODULE CacheInvariant ----------------------------
(***************************************************************************)
(* The inductive invariant of VariableCache: why a temporary that the cache *)
(* remembers still holds the value of its variable, on whatever way the     *)
(* compiled function has come to the instruction that uses it.              *)
(***************************************************************************)
EXTENDS VariableCache

-----------------------------------------------------------------------------
(* The programs for which the cache is right: no loop inside an if          *)
(* statement, and no call inside an expression that changes a variable.     *)
StepsOfProgram ==
  Assignments \cup Conditions \cup UNION {ToSet(call.parameters) : call \in Calls}
CallsAreStatements == \A steps \in StepsOfProgram : CALL \notin ToSet(steps)
IsCacheable == ~LoopsInBranches /\ (Shared = {} \/ CallsAreStatements)

-----------------------------------------------------------------------------
(* The basic blocks.                                                        *)
Steps == {steps \in Seq(Variables \cup {CALL}) : Shared = {} \/ CALL \notin ToSet(steps)}
Assigned == [kind : {"assign"}, variable : Targets, steps : Steps]
Called == [kind : {"call"}, callee : Seq(Variables), parameters : Seq(Steps)]
Statement == Assigned \cup Called \cup [kind : {"return"}]
Numbers == Nat \ {0}
BasicBlock ==
  [statements : Seq(Statement), next : Seq(Numbers), condition : Steps, previous : Seq(Numbers),
   has_returned : BOOLEAN]

(* A block without previous ones, or with one that comes later, begins with *)
(* an empty cache.  Every other one has to know all its previous blocks.    *)
HasNoCache(bs, c) ==
  bs[c].previous = <<>> \/ \E i \in DOMAIN bs[c].previous : bs[c].previous[i] >= c
KnowsPrevious(bs, c) ==
  \A b \in DOMAIN bs : c \in ToSet(bs[b].next) => b \in ToSet(bs[c].previous)
AreConnected(bs) ==
  /\ bs \in Seq(BasicBlock) /\ bs # <<>>
  /\ \A b \in DOMAIN bs : Len(bs[b].next) \in 0..2 /\ ToSet(bs[b].next) \subseteq DOMAIN bs
  /\ \A c \in DOMAIN bs : HasNoCache(bs, c) \/ KnowsPrevious(bs, c)

(* The items around the visitor.                                            *)
If ==
  {item \in [kind : {"if"}, steps : Conditions, has_else : BOOLEAN, else_at : Nat, end_at : Nat] :
     item.else_at # 0 => item.has_else}
While == [kind : {"while"}, steps : Conditions, end_at : Nat]
Items == Statement \cup If \cup While \cup [kind : {"else", "end"}, opened_at : Nat]
OpenItems ==
  /\ open \in Seq(DOMAIN source)
  /\ \A i \in DOMAIN open : source[open[i]] \in If \cup While
  /\ \A i, j \in DOMAIN open : i < j => open[i] < open[j]

(* Each leaves the block after it on the stack; an if statement whose then  *)
(* body is being visited leaves its else block too, or None.                *)
Around == [i \in 1..Len(open) |-> source[open[i]]]
IsInThenBody(item) == item.kind = "if" /\ item.else_at = 0
Width(item) == IF IsInThenBody(item) THEN 2 ELSE 1
IsNoneOf(item) == IsInThenBody(item) /\ ~item.has_else
IsDepth(depth, items, stack) ==
  /\ depth \in [1..(Len(items) + 1) -> 1..Len(stack)]
  /\ depth[1] = 1 /\ depth[Len(items) + 1] = Len(stack)
  /\ \A i, j \in 1..(Len(items) + 1) : i < j => depth[i] < depth[j]
  /\ \A i \in 1..Len(items) : depth[i + 1] = depth[i] + Width(items[i])
  /\ \A j \in 1..Len(stack) :
       stack[j] = NONE => \E i \in 1..Len(items) : j = depth[i] + 1 /\ IsNoneOf(items[i])
HasDepths(items, stack) ==
  \E depth \in [1..(Len(items) + 1) -> 1..Len(stack)] : IsDepth(depth, items, stack)
BlockStack ==
  /\ basic_block_stack \in Seq(0..Len(blocks))
  /\ HasDepths(Around, basic_block_stack)

(* What comes after the body of a while statement has no cache.             *)
NextBlocks ==
  /\ next_block_stack \in Seq(0..Len(blocks))
  /\ Len(next_block_stack) = Len(open) + 1
  /\ next_block_stack[1] = NONE
  /\ \A i \in DOMAIN open :
       /\ next_block_stack[i + 1] # NONE
       /\ Around[i].kind = "while" => HasNoCache(blocks, next_block_stack[i + 1])

CfgPart ==
  /\ source \in Seq(Items)
  /\ AreConnected(blocks) /\ OpenItems /\ BlockStack /\ NextBlocks

-----------------------------------------------------------------------------
(* The instructions.                                                        *)
Marks == {"read", "callee"}
Calling == {"call", "call_indirect"}
Jumps == {"goto", "test"}
Ops == {"load", "read", "store", "return"} \cup Calling \cup Jumps \cup Silent
Temporaries == Seq(Nat)
Operands == Variables \cup {CALL, ELEMENT}
IRInstruction == [op : Ops, variable : Operands, from : Temporaries, to : Temporaries]

(* What makes a temporary no longer hold the value of the variable.         *)
Kills(x, v, t) ==
  \/ x.op = "load" /\ x.to[1] = t /\ x.variable # v
  \/ x.op \in Calling /\ v \in Shared
  \/ x.op = "store" /\ x.variable = v
Sets(x, v, t) == x.op = "load" /\ x.variable = v /\ x.to[1] = t

(* Before instruction i, temporary t holds the value of v: it did so at the *)
(* beginning, or has been loaded, and nothing since has changed that.       *)
Holds(known, instructions, i, v, t) ==
  \E j \in 0..(i - 1) :
    /\ IF j = 0 THEN <<v, t>> \in known ELSE Sets(instructions[j], v, t)
    /\ \A k \in (j + 1)..(i - 1) : ~Kills(instructions[k], v, t)

Cache == UNION {[D -> Nat] : D \in SUBSET Variables}
Pairs(cache) == {<<v, cache[v]>> : v \in DOMAIN cache}

(* The instructions use what holds and set temporaries below the count.     *)
AreSound(known, instructions, n) ==
  \A i \in DOMAIN instructions :
    LET x == instructions[i]
    IN /\ x.op \in Marks =>
            /\ x.variable \in Variables /\ x.from[1] \in 0..(n - 1)
            /\ Holds(known, instructions, i, x.variable, x.from[1])
       /\ x.op = "load" => x.variable \in Variables /\ x.to[1] \in 0..(n - 1)
IsTrueAtEnd(known, instructions, cache, n) ==
  \A v \in DOMAIN cache :
    cache[v] \in 0..(n - 1) /\ Holds(known, instructions, Len(instructions) + 1, v, cache[v])

(* What is true at the beginning of a block.                                *)
KnownBefore(b) ==
  LET previous == ToSet(blocks[b].previous)
  IN IF previous = {} \/ \E p \in previous : p >= b THEN {}
     ELSE {pair \in Pairs(caches[blocks[b].previous[1]]) :
             \A p \in previous : pair \in Pairs(caches[p])}

(* A block ends with a jump to the next blocks, or with a return.           *)
Ends(instructions, next) ==
  /\ Len(instructions) # 0 /\ instructions[Len(instructions)].op \in Jumps \cup {"return"}
  /\ \A i \in DOMAIN instructions :
       /\ instructions[i].op \in Jumps => i = Len(instructions)
       /\ instructions[i].op = "goto" => Len(next) = 1
       /\ instructions[i].op = "test" => Len(next) = 2

IRPart ==
  /\ code \in Seq(Seq(IRInstruction)) /\ caches \in Seq(Cache)
  /\ Len(code) = Len(caches) /\ Len(code) <= Len(blocks) /\ count \in Nat
  /\ \A b \in DOMAIN code :
       /\ Ends(code[b], blocks[b].next)
       /\ AreSound(KnownBefore(b), code[b], count)
       /\ IsTrueAtEnd(KnownBefore(b), code[b], caches[b], count)

-----------------------------------------------------------------------------
(* What holds before the next instruction is so.                            *)
RunPart ==
  /\ at \in [block : DOMAIN blocks, index : Numbers]
  /\ fresh \subseteq Variables \X (0..(count - 1))
  /\ phase = "run" =>
       /\ Len(code) = Len(blocks) /\ at.index \in DOMAIN code[at.block]
       /\ \A v \in Variables, t \in 0..(count - 1) :
            Holds(KnownBefore(at.block), code[at.block], at.index, v, t) => <<v, t>> \in fresh

Invariant ==
  /\ phase \in {"cfg", "ir", "run", "done"}
  /\ phase = "cfg" => code = <<>>
  /\ phase \in {"cfg", "ir"} => at = FirstOf(1) /\ fresh = {}
  /\ CfgPart /\ IRPart /\ RunPart
=============================================================================
