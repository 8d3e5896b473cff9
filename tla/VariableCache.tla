---------------------------- MODULE VariableCache ----------------------------
(***************************************************************************)
(* The instructions that medium_level_ir.py creates for a function, running *)
(* beside the source of the function.                                       *)
(*                                                                          *)
(* The source is executed the way interpreter.py executes it.  Both take    *)
(* the same branches, and every branch may go either way.                   *)
(***************************************************************************)
EXTENDS MediumLevelIR

CONSTANT Shared   \* the variables a called function may change
ASSUME SharedAssumption == Shared \subseteq Variables

VARIABLES
  at,       \* the instruction the compiled function is at
  fresh,    \* <<variable, temporary>>: the temporary holds the variable's value
  pos,      \* the item of the source, and how much of it has been done
  done

run_vars == <<at, fresh, pos, done>>
vars == <<phase, cfg_vars, ir_vars, run_vars>>

-----------------------------------------------------------------------------
(* The two executions.                                                      *)

(* What the execution of an item does, in order.                            *)
Event(op, variable) == [op |-> op, variable |-> variable]
StepEvents(steps) ==
  [i \in 1 .. Len(steps) |->
     IF steps[i] = CALL THEN Event("call", CALL) ELSE Event("read", steps[i])]
Events(item) ==
  CASE item.kind = "assign" -> Append(StepEvents(item.steps), Event("store", item.variable))
    [] item.kind = "call" -> Append(StepEvents(FlattenSeq(item.parameters)), Event("call", CALL))
    [] item.kind = "return" -> <<Event("return", CALL)>>
    [] item.kind \in {"if", "while"} -> Append(StepEvents(item.steps), Event("test", CALL))
    [] OTHER -> <<>>

AtEnd == pos > Len(source)
Jumping == ~AtEnd /\ source[pos].kind \in {"else", "end"}
Expected == IF AtEnd THEN Event("return", CALL) ELSE Events(source[pos])[done + 1]

(* From the end of a body.                                                  *)
JumpTarget ==
  LET item == source[pos]
      opening == source[item.opened_at]
  IN IF item.kind = "else" THEN opening.end_at + 1
     ELSE IF opening.kind = "while" THEN item.opened_at
     ELSE pos + 1

(* Where the source continues after a condition.                            *)
BranchTarget(outcome) ==
  LET item == source[pos]
  IN IF outcome THEN pos + 1
     ELSE IF item.kind = "if" /\ item.has_else THEN item.else_at + 1
     ELSE item.end_at + 1

Current == code[at.block][at.index]
NextInstruction == [at EXCEPT !.index = @ + 1]
FirstOf(block) == [block |-> block, index |-> 1]
Stale(variables) == {f \in fresh : f[1] \in variables}

(* The source advances past an event that is not a branch.                  *)
SourceDoes ==
  IF AtEnd \/ done + 1 < Len(Events(source[pos]))
  THEN done' = done + 1 /\ UNCHANGED pos
  ELSE done' = 0 /\ pos' = pos + 1

Running == phase = "run" /\ ~Jumping
Kind == IF Current.op = "call_indirect" THEN "call" ELSE Current.op
Does(op) == Running /\ Kind = op /\ Expected = Event(op, Current.variable)
Silent == {"constant", "operate", "context", "context_of", "parameter", "result", "callee"}
OnlyRunning == UNCHANGED <<phase, cfg_vars, ir_vars>>

SourceJumps ==
  /\ phase = "run"
  /\ Jumping
  /\ pos' = JumpTarget
  /\ UNCHANGED <<at, fresh, done>> /\ OnlyRunning

RunLoad ==
  /\ Running
  /\ Current.op = "load"
  /\ fresh' = {f \in fresh : f[2] # Current.to[1]} \cup {<<Current.variable, Current.to[1]>>}
  /\ at' = NextInstruction
  /\ UNCHANGED <<pos, done>> /\ OnlyRunning

(* An instruction on temporaries that the source does not show.             *)
RunSilent ==
  /\ Running
  /\ Current.op \in Silent
  /\ at' = NextInstruction
  /\ UNCHANGED <<fresh, pos, done>> /\ OnlyRunning

RunGoto ==
  /\ Running
  /\ Current.op = "goto"
  /\ at' = FirstOf(blocks[at.block].next[1])
  /\ UNCHANGED <<fresh, pos, done>> /\ OnlyRunning

RunRead ==
  /\ Does("read")
  /\ at' = NextInstruction
  /\ SourceDoes
  /\ UNCHANGED fresh /\ OnlyRunning

RunCall ==
  /\ Does("call")
  /\ fresh' = fresh \ Stale(Shared)
  /\ at' = NextInstruction
  /\ SourceDoes
  /\ OnlyRunning

RunStore ==
  /\ Does("store")
  /\ fresh' = fresh \ Stale({Current.variable})
  /\ at' = NextInstruction
  /\ SourceDoes
  /\ OnlyRunning

RunTest ==
  /\ Does("test")
  /\ \E outcome \in BOOLEAN :
       /\ at' = FirstOf(blocks[at.block].next[IF outcome THEN 1 ELSE 2])
       /\ pos' = BranchTarget(outcome)
       /\ done' = 0
  /\ UNCHANGED fresh /\ OnlyRunning

RunReturn ==
  /\ Does("return")
  /\ phase' = "done"
  /\ UNCHANGED <<cfg_vars, ir_vars, run_vars>>

RunStep ==
  \/ SourceJumps
  \/ RunLoad
  \/ RunSilent
  \/ RunGoto
  \/ RunRead
  \/ RunCall
  \/ RunStore
  \/ RunTest
  \/ RunReturn

-----------------------------------------------------------------------------
Init ==
  /\ InitCfg
  /\ InitIR
  /\ at = FirstOf(1)
  /\ fresh = {}
  /\ pos = 1
  /\ done = 0

StartRunning ==
  /\ phase = "ir"
  /\ Len(code) = Len(blocks)
  /\ phase' = "run"
  /\ UNCHANGED <<cfg_vars, ir_vars, run_vars>>

Next ==
  \/ CreateStep /\ UNCHANGED run_vars
  \/ StartRunning
  \/ RunStep

(* The compiled function runs until it returns.                             *)
Spec == Init /\ [][Next]_vars /\ WF_vars(RunStep)

-----------------------------------------------------------------------------
AtEvent == phase = "run" /\ Kind \in {"read", "call", "store", "test", "return"}

(* The variables have their types, and the visitor leaves one block on its  *)
(* stack (cfg_creator.py:114 asserts it).                                   *)
TypeOK ==
  /\ phase \in {"cfg", "ir", "run", "done"}
  /\ \A i \in 1 .. Len(open) : source[open[i]].kind \in {"if", "while"}
  /\ \A b \in 1 .. Len(blocks) :
       /\ Len(blocks[b].next) \in 0 .. 2
       /\ \A i \in 1 .. Len(blocks[b].next) : blocks[b].next[i] \in 1 .. Len(blocks)
  /\ \A i \in 1 .. Len(basic_block_stack) : basic_block_stack[i] \in 0 .. Len(blocks)
  /\ open = <<>> => Len(basic_block_stack) = 1 /\ next_block_stack = <<NONE>>
  /\ Len(code) = Len(caches) /\ Len(code) <= Len(blocks)
  /\ fresh \subseteq Variables \X (0 .. count - 1)
  /\ at.block \in 1 .. Len(blocks)
  /\ phase = "run" => at.index \in 1 .. Len(code[at.block])

(* Whenever the compiled function takes a temporary for the value of a      *)
(* variable, the temporary holds the value the variable has now.            *)
FreshReads ==
  phase = "run" /\ Current.op \in {"read", "callee"} =>
    <<Current.variable, Current.from[1]>> \in fresh

(* The compiled function does what its source does, in the same order: it   *)
(* reads the same variables, makes the same calls and stores, goes on from  *)
(* every condition to the same statement, and returns where it does.        *)
FollowsSource ==
  Running /\ AtEvent => Expected = Event(Kind, Current.variable)

(* The compiled function does not go round without doing anything: it comes *)
(* to the next thing its source does.                                       *)
ReachesNextEvent == phase = "run" ~> (phase = "done" \/ AtEvent)

(* When a block ends, every entry of the cache it hands on is true.         *)
CacheHolds ==
  phase = "run" /\ at.index = Len(code[at.block]) /\ Current.op \in {"goto", "test"} =>
    \A v \in DOMAIN caches[at.block] : <<v, caches[at.block][v]>> \in fresh
=============================================================================
