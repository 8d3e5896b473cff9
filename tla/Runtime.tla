------------------------------- MODULE Runtime -------------------------------
(***************************************************************************)
(* The compiled program running on the memory manager: the frames that the  *)
(* code of real_assembler.py and pseudo_assembler.py builds, the loads and  *)
(* stores it makes, and the entry points of runtime.cpp and builtins.cpp    *)
(* it calls.  Registers are a part of the frame: they are there, pushed,    *)
(* whenever the collector runs, and the code pops them back afterwards.     *)
(***************************************************************************)
EXTENDS Memory

CONSTANTS
  ContextSlots,   \* parameters, locals and return value of a FunctionContext
  FunctionWords,  \* sizeof(Function), in words
  ArraySizes,     \* the lengths of the arrays the program creates
  SpillCounts,    \* the spill areas of the program's functions
  PlainWords,     \* the words that are not pointers into the heap the program computes
  Calls,          \* the entry points of the runtime the program calls
  StressModes     \* whether --gc-stress is given

ContextWords == HEADER_WORDS + ContextSlots
EXTERNAL == TagPointer(1)   \* a string, a return address: a pointer out of the heap

ASSUME RuntimeAssumption ==
  /\ ContextSlots \in Nat
  /\ FunctionWords \in Nat \ {0}
  /\ ArraySizes \subseteq Nat
  /\ SpillCounts \subseteq 1 .. MaxSpills
  /\ SpillCounts # {}
  /\ PlainWords \subseteq {TagInt(0), EXTERNAL}
  /\ Calls \subseteq {"context", "function", "array", "test_do_gc"}
  /\ StressModes \subseteq BOOLEAN

(* runtime_CreateMainFunctionContext uses memory_allocate_no_gc: the chunk  *)
(* has room for the context of main.                                        *)
ASSUME MainContextFits == ContextWords < ChunkWords

NoRequest == [op |-> "none", size |-> 0]

-----------------------------------------------------------------------------
(* What the compiled code knows of the objects it handles.  It follows from *)
(* the static types of the program; the history variable stands for it.     *)
Identities == {identity[a] : a \in DOMAIN identity}
IsObject(w) == HasPointerTag(w) /\ UntagPointer(w) \in DOMAIN identity
IsContext(w) == IsObject(w) /\ identity[UntagPointer(w)].kind \in {"main", "context"}
IsCallable(w) == IsObject(w) /\ identity[UntagPointer(w)].kind = "context"

NewIdentity(kind) ==
  [kind |-> kind,
   n |-> CHOOSE n \in 1 .. Cardinality(Identities) + 1 : \A i \in Identities : i.n # n]

(* The fields the code loads and those it stores into.  The header of a     *)
(* context is written by the runtime and by the prologue only.              *)
Slots(object) ==
  CASE identity[object].kind \in {"main", "context"} -> HEADER_WORDS .. ContextWords - 1
    [] identity[object].kind = "function" -> {}
    [] identity[object].kind = "array" -> 0 .. Size(object) - 1
LoadableFields(object) ==
  Slots(object) \cup (IF identity[object].kind = "array" THEN {} ELSE {OUTER})

(* Spill position 0 of a frame is never assigned (spill_position starts at  *)
(* 1), and the code leaves the word of position n at ebp - 3 - n.           *)
SpillSlots == {Top + 1 + position : position \in 1 .. SpillCount(Top) - 1}
Register(r) == Top + SpillCount(Top) + r
Registers == {Register(r) : r \in 1 .. PushedRegisters}
Bases == {b \in {Top} \cup Registers : IsObject(mem[b])}

-----------------------------------------------------------------------------
(* The code of the program.                                                 *)

OnlyMemChanges ==
  UNCHANGED <<current, other, handles, frames, pc, request, gc_count, gc_vars,
              memory_gc_stress, identity>>

SetRegister ==
  /\ pc = "program"
  /\ \E r \in Registers, w \in PlainWords : mem' = [mem EXCEPT ![r] = w]
  /\ OnlyMemChanges

LoadField ==
  /\ pc = "program"
  /\ \E r \in Registers, b \in Bases :
       LET object == UntagPointer(mem[b])
       IN \E k \in LoadableFields(object) : mem' = [mem EXCEPT ![r] = mem[object + k]]
  /\ OnlyMemChanges

(* Contexts are kept in temporaries, in outer and in Functions only.        *)
StoreField ==
  /\ pc = "program"
  /\ \E r \in Registers, b \in Bases :
       LET object == UntagPointer(mem[b])
       IN /\ ~IsContext(mem[r])
          /\ \E k \in Slots(object) : mem' = [mem EXCEPT ![object + k] = mem[r]]
  /\ OnlyMemChanges

StoreSpilled ==
  /\ pc = "program"
  /\ \E r \in Registers, s \in SpillSlots : mem' = [mem EXCEPT ![s] = mem[r]]
  /\ OnlyMemChanges

LoadSpilled ==
  /\ pc = "program"
  /\ \E r \in Registers, s \in SpillSlots : mem' = [mem EXCEPT ![r] = mem[s]]
  /\ OnlyMemChanges

(* A call of a user function: the caller's registers are pushed, and the    *)
(* prologue builds the frame above them.  The function context that is      *)
(* called belongs to one function, so its prologue always writes the same   *)
(* spill count.  ebx holds the return address; memset may leave anything    *)
(* of the caller's in the others.                                           *)
CallFunction ==
  /\ pc = "program"
  /\ \E r \in Registers, n \in SpillCounts, kept \in SUBSET (2 .. PushedRegisters) :
       LET context == UntagPointer(mem[r])
           ebp == LastWord(Top) + 1
       IN /\ IsCallable(mem[r])
          /\ mem[context + SPILL_COUNT] \in {0, n}
          /\ ebp + n + PushedRegisters < StackEnd
          /\ frames' = Append(frames, ebp)
          /\ mem' = [a \in Address |->
                       IF a = ebp THEN mem[r]
                       ELSE IF a = context + SPILL_COUNT THEN n
                       ELSE IF a \in ebp + 1 .. ebp + n THEN TagInt(0)
                       ELSE IF a \in ebp + n + 1 .. ebp + n + PushedRegisters
                            THEN IF a - ebp - n \in kept THEN mem[Register(a - ebp - n)]
                                 ELSE EXTERNAL
                       ELSE mem[a]]
  /\ UNCHANGED <<current, other, handles, pc, request, gc_count, gc_vars,
                 memory_gc_stress, identity>>

(* The epilogue.  The words of the dead frame are not read before they are  *)
(* written again; clearing them keeps equivalent states equal.              *)
Return ==
  /\ pc = "program"
  /\ Len(frames) > 1
  /\ frames' = SubSeq(frames, 1, Len(frames) - 1)
  /\ mem' = [a \in Address |-> IF a \in Top .. LastWord(Top) THEN 0 ELSE mem[a]]
  /\ UNCHANGED <<current, other, handles, pc, request, gc_count, gc_vars,
                 memory_gc_stress, identity>>

-----------------------------------------------------------------------------
(* The entry points that allocate or collect.  memory_allocate collects     *)
(* first under --gc-stress, and otherwise tries to allocate first.          *)

EnterMemoryAllocate(op, size) ==
  /\ request' = [op |-> op, size |-> size]
  /\ IF memory_gc_stress THEN StartGC
     ELSE pc' = "allocate" /\ UNCHANGED gc_vars
  /\ UNCHANGED <<current, other, frames, gc_count, memory_gc_stress, identity>>

(* The pointer parameter is kept in a TemporaryHandle.  The faulty variant  *)
(* keeps it in a plain variable of the runtime.                             *)
WithoutHandle(w) ==
  /\ handles' = {}
  /\ mem' = [mem EXCEPT ![HandleCell] = w]
WithHandle(w) ==
  /\ handles' = {HandleCell}
  /\ mem' = [mem EXCEPT ![HandleCell] = w]

CreateFunctionContext ==
  /\ pc = "program" /\ "context" \in Calls
  /\ \E b \in Bases : IsContext(mem[b]) /\ WithHandle(mem[b])
  /\ EnterMemoryAllocate("context", ContextWords)

CreateFunction ==
  /\ pc = "program" /\ "function" \in Calls
  /\ \E b \in Registers : IsCallable(mem[b]) /\ WithHandle(mem[b])
  /\ EnterMemoryAllocate("function", FunctionWords)

NewArray ==
  /\ pc = "program" /\ "array" \in Calls
  /\ \E n \in ArraySizes : EnterMemoryAllocate("array", n)
  /\ UNCHANGED <<mem, handles>>

TestDoGC ==
  /\ pc = "program" /\ "test_do_gc" \in Calls
  /\ request' = [NoRequest EXCEPT !.op = "test_do_gc"]
  /\ StartGC
  /\ UNCHANGED <<mem, current, other, handles, frames, gc_count, memory_gc_stress, identity>>

(* The fields of the new object: the pointer comes back out of the handle.  *)
InitialFields ==
  [k \in 0 .. request.size - 1 |->
     IF k = OUTER /\ request.op \in {"context", "function"} THEN mem[HandleCell] ELSE 0]

(* The allocation succeeds: the object is initialised, the handle dies, the *)
(* registers are popped and the result goes to one of them.                 *)
AllocationSucceeds ==
  /\ pc = "allocate"
  /\ Fits(request.size)
  /\ LET object == current.cursor + 2
     IN /\ \E r \in Registers :
             mem' = [MemoryWithObject(request.size, InitialFields) EXCEPT
                       ![r] = TagPointer(object), ![HandleCell] = 0]
        /\ identity' = [a \in DOMAIN identity \cup {object} |->
                          IF a = object THEN NewIdentity(request.op) ELSE identity[a]]
  /\ ReserveAtCursor(request.size)
  /\ handles' = {}
  /\ request' = NoRequest
  /\ gc_count' = 0
  /\ pc' = "program"
  /\ UNCHANGED <<other, frames, gc_vars, memory_gc_stress>>

(* It fails: another collection, or the assertion under --gc-stress.        *)
AllocationFails ==
  /\ pc = "allocate"
  /\ ~Fits(request.size)
  /\ IF memory_gc_stress THEN pc' = "out_of_memory" /\ UNCHANGED gc_vars ELSE StartGC
  /\ UNCHANGED <<mem, current, other, handles, frames, request, gc_count,
                 memory_gc_stress, identity>>

(* The loop of memory_allocate goes on while gc_count <= 1.  The faulty     *)
(* variants give up before the memory the collection freed is used, and go  *)
(* round once too often.                                                    *)
NeverTriesAgain(count) == count < 1
TriesOnceMore(count) == count <= 2
TriesAgain(count) == count <= 1

Counted(count) == count + 1

(* Where do_gc returns to.                                                  *)
AfterGC ==
  IF request.op = "test_do_gc" THEN "program"
  ELSE IF memory_gc_stress \/ TriesAgain(Counted(gc_count)) THEN "allocate"
  ELSE "out_of_memory"

FinishGC ==
  /\ SwapChunks(AfterGC)
  /\ IF AfterGC = "program" THEN request' = NoRequest /\ gc_count' = 0
     ELSE UNCHANGED request /\ gc_count' = Counted(gc_count)

-----------------------------------------------------------------------------
(* memory_init, the prologue of main, CreateMainFunctionContext.            *)
MainContext == FirstChunk + 2

Init ==
  /\ \E n \in SpillCounts :
       mem = [a \in Address |->
                IF a = MainContext - 2 THEN ContextWords
                ELSE IF a = MainContext - 1 THEN COLOR_WHITE
                ELSE IF a = MainContext + SPILL_COUNT THEN n
                ELSE IF a \in MainContext .. MainContext + ContextWords - 1 THEN 0
                ELSE IF a \in FirstChunk .. ChunkEnd(FirstChunk) - 1 THEN ZAP_WORD
                ELSE IF a = StackHigh THEN TagPointer(MainContext)
                ELSE 0]
  /\ current = [chunk |-> FirstChunk, cursor |-> MainContext + ContextWords,
                objects |-> <<MainContext>>]
  /\ other = [chunk |-> SecondChunk, cursor |-> SecondChunk, objects |-> <<>>]
  /\ handles = {}
  /\ frames = <<StackHigh>>
  /\ pc = "program"
  /\ request = NoRequest
  /\ gc_count = 0
  /\ ptrs = <<>>
  /\ walk = NoWalk
  /\ scan = NoScan
  /\ memory_gc_stress \in StressModes
  /\ identity = [a \in {MainContext} |-> [kind |-> "main", n |-> 1]]

ProgramStep ==
  \/ SetRegister
  \/ LoadField
  \/ StoreField
  \/ StoreSpilled
  \/ LoadSpilled
  \/ CallFunction
  \/ Return
  \/ CreateFunctionContext
  \/ CreateFunction
  \/ NewArray
  \/ TestDoGC

RuntimeStep ==
  \/ AllocationSucceeds
  \/ AllocationFails
  \/ GCStep
  \/ FinishGC

Next == ProgramStep \/ RuntimeStep

(* The process is single threaded: a call into the runtime keeps running    *)
(* until it returns.  The program may stop at any time.                     *)
Spec == Init /\ [][Next]_vars /\ WF_vars(RuntimeStep)

-----------------------------------------------------------------------------
Chunk == {FirstChunk, SecondChunk}
Objects(space) == {space.objects[i] : i \in 1 .. Len(space.objects)}
Collecting == pc \in {"walk", "handles", "trace", "scan"}

(* The variables range over addresses, words and phases of the code.        *)
TypeOK ==
  /\ mem \in [Address -> Int]
  /\ current \in [chunk : Chunk, cursor : Address, objects : Seq(Address)]
  /\ other \in [chunk : Chunk, cursor : Address, objects : Seq(Address)]
  /\ handles \subseteq {HandleCell}
  /\ frames \in Seq(Address)
  /\ pc \in {"program", "allocate", "out_of_memory"} \/ Collecting
  /\ gc_count \in 0 .. 2
  /\ ptrs \in Seq(Address \X Int)
  /\ memory_gc_stress \in BOOLEAN

-----------------------------------------------------------------------------
(* The room of the i-th object of a chunk, which the list and the cursor    *)
(* tell even when the size word of a moved object has been overwritten.     *)
Extent(space, i) ==
  (IF i = Len(space.objects) THEN space.cursor ELSE space.objects[i + 1] - 2)
    - space.objects[i]
Bodies(space) ==
  UNION {space.objects[i] .. space.objects[i] + Extent(space, i) - 1 :
           i \in 1 .. Len(space.objects)}

(* The objects of a chunk lie side by side in the order of its list, from   *)
(* the start of the chunk to the cursor, and the size an object records is  *)
(* its room.  The linear search of find_object, which compares with the     *)
(* next entry of the list only, relies on it.                               *)
HeapLayout ==
  \A space \in {current, other} :
    LET n == Len(space.objects)
    IN /\ n = 0 => space.cursor = space.chunk
       /\ n > 0 => space.objects[1] = space.chunk + 2
       /\ \A i \in 1 .. n :
            /\ Extent(space, i) >= 0
            /\ Color(space.objects[i]) # COLOR_MOVED => Size(space.objects[i]) = Extent(space, i)

(* The words the program can read through: the stack up to the registers of *)
(* the running function, the handle, and the bodies of the objects.         *)
Roots == (StackHigh .. LastWord(Top)) \cup handles

(* A pointer in a root or in an object, outside a collection, is the        *)
(* address of an object of the current chunk; no collection leaves behind   *)
(* a pointer to where an object used to be.                                 *)
NoDanglingPointers ==
  ~Collecting =>
    \A l \in Roots \cup Bodies(current) :
      HasPointerTag(mem[l]) /\ UntagPointer(mem[l]) \in FirstChunk .. HandleCell - 1
        => UntagPointer(mem[l]) \in Objects(current)

(* While the collector traces, every word of a root or of a copied object   *)
(* that still points into the chunk being left is accounted for: it is on   *)
(* the stack of pointers, or the scan has not come to it, or it is the word *)
(* the object being moved was found through.  What the stack holds is up to *)
(* date: nothing overwrites a location that waits on it.                    *)
WorklistComplete ==
  pc \in {"trace", "scan"} =>
    /\ \A l \in Roots \cup Bodies(other) :
         HasPointerTag(mem[l]) /\ IsInCurrentChunk(mem[l]) =>
           \/ \E i \in 1 .. Len(ptrs) : ptrs[i] = <<l, UntagPointer(mem[l])>>
           \/ l \in scan.p .. scan.end - 1
           \/ pc = "scan" /\ l = scan.location
    /\ \A i \in 1 .. Len(ptrs) : UntagPointer(mem[ptrs[i][1]]) = ptrs[i][2]

(* An object is marked moved exactly when it has one copy, and the address  *)
(* it was overwritten with is that of the copy of this very object.         *)
ForwardingConsistent ==
  /\ \A o \in Objects(current) :
       IF Color(o) = COLOR_MOVED
       THEN Size(o) \in Objects(other) /\ identity[Size(o)] = identity[o]
       ELSE \A c \in Objects(other) : identity[c] # identity[o]
  /\ \A c, d \in Objects(other) : identity[c] = identity[d] => c = d

(* The copies never need more room than the originals, so a collection      *)
(* cannot overrun the other chunk, whose end move_object does not check.    *)
CopyFits == other.cursor - other.chunk <= current.cursor - current.chunk

-----------------------------------------------------------------------------
(* The heap as the program sees it.  Moving an object, and updating one of  *)
(* several pointers to it, are invisible: the original and the copy are the *)
(* same object, whose fields are those of the copy once there is one.       *)
Value(w) == IF IsObject(w) THEN <<"object", identity[UntagPointer(w)]>> ELSE <<"word", w>>
Home(i) ==
  CHOOSE a \in DOMAIN identity :
    /\ identity[a] = i
    /\ \A b \in DOMAIN identity : identity[b] = i => b = a \/ b \in Objects(current)

GraphObjects ==
  [i \in Identities |-> [k \in 0 .. Size(Home(i)) - 1 |-> Value(mem[Home(i) + k])]]
GraphRoots == [l \in Roots |-> Value(mem[l])]

Graph == INSTANCE ObjectGraph WITH objects <- GraphObjects, roots <- GraphRoots

(* The memory manager keeps its promise to the program: it never shows it   *)
(* two objects where there was one, a changed field, a forged pointer, or a *)
(* missing object, and a collection removes every unreachable object.       *)
ImplementsObjectGraph == Graph!Spec

(* When the runtime gives up, everything in the chunk is reachable and the  *)
(* request still does not fit: no further collection would help.            *)
OutOfMemoryIsReal ==
  pc = "out_of_memory" => ~Fits(request.size) /\ Graph!Reachable = Identities

(* Every call into the runtime returns or gives up: the collector does not  *)
(* chase cycles of pointers forever.                                        *)
RequestServed == (pc # "program") ~> (pc \in {"program", "out_of_memory"})
=============================================================================
