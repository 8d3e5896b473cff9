---------------------------- MODULE RealAssembler ----------------------------
(***************************************************************************)
(* real_assembler.py: the loop that analyses, allocates and spills until    *)
(* every virtual register has a real one, and the run of the code it emits. *)
(* A location holds a value if it contains what was last written to the     *)
(* virtual register; the run tracks which values each location holds.       *)
(***************************************************************************)
EXTENDS LiveRanges, RegisterAllocator

VARIABLES
  spill_position,   \* the next position in the spill area of the frame
  machine           \* the run of the function; see Machine

vars == <<phase, cfg_vars, ir_vars, pa_vars, analysis_vars, allocator_vars,
          spill_position, machine>>

ASSUME EdxAssumption == "edx" \in Registers

-----------------------------------------------------------------------------
(* The block and the instruction that is next, what the registers and the   *)
(* spill positions hold, and what the registers on the stack held.          *)
Machine(positions) ==
  [block |-> 1, ix |-> 1,
   holds |-> [r \in Registers |-> {}],
   spills |-> [p \in 1 .. positions |-> {}],
   stack |-> [r \in Registers |-> {}]]

Init ==
  /\ InitCfg
  /\ InitIR
  /\ InitAssembly
  /\ InitAnalysis
  /\ InitAllocator
  /\ spill_position = 1
  /\ machine = Machine(0)

(* The front end, up to the code on virtual registers.                      *)
Translate ==
  /\ CreateStep \/ CreatePseudoAssembly
  /\ UNCHANGED <<analysis_vars, allocator_vars, spill_position, machine>>
  /\ phase' # "assembly" => UNCHANGED pa_vars

Analysing == phase = "assembly" /\ allocation = "idle"

Analyse ==
  /\ Analysing
  /\ \/ in_set = <<>> /\ StartAnalysis
     \/ in_set # <<>> /\ (AnalyseBlock \/ NextRound)
  /\ UNCHANGED <<phase, cfg_vars, ir_vars, pa_vars, allocator_vars, spill_position, machine>>

(* The real registers each virtual register conflicts with.                 *)
NotIn == [r \in AllRegisters |-> IF r \in registers.not_edx THEN {"edx"} ELSE {}]

Allocate ==
  /\ \/ /\ Analysing
        /\ in_set # <<>>
        /\ Analysed
        /\ TryToAllocate(ComputeLiveRanges, NotIn)
     \/ ColourStep
  /\ UNCHANGED <<phase, cfg_vars, ir_vars, pa_vars, analysis_vars, spill_position, machine>>

(* Every register to spill gets a position of its own, and all starts again. *)
(* The faulty variant counts before it takes the position.                  *)
SpillAfterCounting(g, register) ==
  [Spilled(g, register, g.position + 1) EXCEPT !.position = g.position + 1]
SpillOne(g, register) ==
  [Spilled(g, register, g.position) EXCEPT !.position = g.position + 1]

Spill ==
  /\ SpillsTaken
  /\ LET h == FoldLeft(SpillOne,
                       [blocks |-> assembly, registers |-> registers, position |-> spill_position],
                       SpillRegisters)
     IN assembly' = h.blocks /\ registers' = h.registers /\ spill_position' = h.position
  /\ in_set' = <<>>
  /\ UNCHANGED <<phase, cfg_vars, ir_vars, operators, out_set, block_ix, something_changed,
                 machine>>

(* The prologue makes room for the spills.                                  *)
StartRunning ==
  /\ phase = "assembly"
  /\ allocation = "done"
  /\ phase' = "run"
  /\ machine' = Machine(spill_position)
  /\ UNCHANGED <<cfg_vars, ir_vars, pa_vars, analysis_vars, allocator_vars, spill_position>>

-----------------------------------------------------------------------------
Current == Instructions(machine.block)[machine.ix]

(* An instruction that uses a register without a live range is left out.    *)
Dead(i) == ~ (i.reads \cup i.writes \subseteq DOMAIN assigned_registers)

(* Writing a virtual register makes its old value, wherever it is, stale.   *)
Forget(m, written) ==
  [m EXCEPT !.holds = [r \in Registers |-> @[r] \ written],
            !.spills = [p \in DOMAIN @ |-> @[p] \ written],
            !.stack = [r \in Registers |-> @[r] \ written]]

Originals(set) == {registers.stands_for[r] : r \in set}

Write(m, i) ==
  LET forgotten == Forget(m, Originals(i.writes))
      Writes(real) == {r \in i.writes : assigned_registers[r] = real}
  IN [forgotten EXCEPT !.holds =
        [real \in Registers |-> IF Writes(real) = {} THEN @[real] ELSE Originals(Writes(real))]]

Lost(m, set) == [m EXCEPT !.holds = [r \in Registers |-> IF r \in set THEN {} ELSE @[r]]]

(* A callee uses every register.                                            *)
After(m, i) ==
  LET TheOne(set) == assigned_registers[CHOOSE r \in set : TRUE]
  IN CASE i.op = "push_all" -> [m EXCEPT !.stack = m.holds]
       [] i.op = "pop_all" -> [m EXCEPT !.holds = m.stack]
       [] i.op = "push_edx" -> [m EXCEPT !.stack = m.holds]
       [] i.op = "pop_edx" -> [m EXCEPT !.holds["edx"] = m.stack["edx"]]
       [] i.op \in {"clear_edx", "extend_eax"} -> Lost(m, {"edx"})
       [] i.op = "call" -> Lost(m, Registers)
       [] i.op = "load_spilled" -> [m EXCEPT !.holds[TheOne(i.writes)] = m.spills[i.position]]
       [] i.op = "store_spilled" -> [m EXCEPT !.spills[i.position] = m.holds[TheOne(i.reads)]]
       [] OTHER -> Write(m, i)

Running == phase = "run" /\ machine.ix <= Len(Instructions(machine.block))

Execute ==
  /\ Running
  /\ LET m == IF Dead(Current) THEN Forget(machine, Originals(Current.writes))
              ELSE After(machine, Current)
     IN machine' = [m EXCEPT !.ix = @ + 1]
  /\ phase' = IF Current.op = "return" THEN "done" ELSE "run"
  /\ UNCHANGED <<cfg_vars, ir_vars, pa_vars, analysis_vars, allocator_vars, spill_position>>

(* A comparison may come out either way.                                    *)
Branch ==
  /\ phase = "run"
  /\ machine.ix > Len(Instructions(machine.block))
  /\ \E n \in 1 .. Len(assembly[machine.block].next) :
       machine' = [machine EXCEPT !.block = assembly[machine.block].next[n], !.ix = 1]
  /\ UNCHANGED <<phase, cfg_vars, ir_vars, pa_vars, analysis_vars, allocator_vars, spill_position>>

Next ==
  \/ Translate
  \/ Analyse
  \/ Allocate
  \/ Spill
  \/ StartRunning
  \/ Execute
  \/ Branch

Spec == Init /\ [][Next]_vars

-----------------------------------------------------------------------------
(* Types; in the final code, every access to a spilled register is inside   *)
(* the area of spill_position words, counted from 0, that the prologue      *)
(* makes room for.                                                          *)
TypeOK ==
  /\ phase \in {"cfg", "ir", "assembly", "run", "done"}
  /\ DOMAIN assigned_registers \subseteq AllRegisters
  /\ \A r \in DOMAIN assigned_registers : assigned_registers[r] \in Registers
  /\ \A r \in Registers : machine.holds[r] \subseteq AllRegisters
  /\ phase = "run" =>
       \A b \in AssemblyBlocks : \A i \in 1 .. Len(Instructions(b)) :
         Instructions(b)[i].op \in {"load_spilled", "store_spilled"} =>
           Instructions(b)[i].position \in 0 .. spill_position - 1

(* Whatever an instruction of the final code reads, from a register or from *)
(* the spill area, is the value last written to the virtual register it was *)
(* generated for: no other live value has taken its place.                  *)
ReadsItsValue ==
  Running /\ ~Dead(Current) =>
    IF Current.op = "load_spilled"
    THEN Originals(Current.writes) \subseteq machine.spills[Current.position]
    ELSE \A r \in Current.reads :
           registers.stands_for[r] \in machine.holds[assigned_registers[r]]

(* A register that replaces a spilled one is not spilled: its range is as    *)
(* short as it can be, and would be the same again.  Every round therefore  *)
(* leaves fewer registers to spill, and the loop ends.                      *)
ReplacementsStay ==
  allocation = "spill" =>
    \A i \in 1 .. Len(SpillRegisters) : registers.stands_for[SpillRegisters[i]] = SpillRegisters[i]
=============================================================================
