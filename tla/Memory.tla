-------------------------------- MODULE Memory --------------------------------
(***************************************************************************)
(* runtime/memory.cpp and runtime/stack_walk.cpp: allocation from the       *)
(* current chunk, and the copying collector that moves what the stack and   *)
(* the temporary handles reach into the other chunk.  One action is one     *)
(* iteration of a loop of the collector.                                    *)
(*                                                                          *)
(* One function, mem, gives the contents of every word: the two chunks, the *)
(* cell of a TemporaryHandle and the stack.  The program and the entry      *)
(* points of the runtime that use this module are in module Runtime.        *)
(***************************************************************************)
EXTENDS Tagging, Sequences, FiniteSets

CONSTANTS
  ChunkWords,       \* CHUNK_SIZE, in words
  StackWords,       \* bound: words of stack the program may use
  MaxSpills,        \* bound: spill_count of a function
  PushedRegisters   \* pushed_register_count

ASSUME MemoryAssumption ==
  /\ ChunkWords \in Nat
  /\ MaxSpills \in 1 .. 100
  /\ PushedRegisters \in Nat \ {0}
  /\ StackWords \in Nat
  /\ 1 + MaxSpills + PushedRegisters <= StackWords

(***************************************************************************)
(* The address space.  The test for room (memory.cpp:123) counts 2 bytes    *)
(* for the header that takes 2 words, so an object can end a word after     *)
(* CHUNK_SIZE, and the model keeps that word.  Addresses below FirstChunk are outside the heap.        *)
(***************************************************************************)
FirstChunk == 32
SecondChunk == FirstChunk + ChunkWords + 1
HandleCell == SecondChunk + ChunkWords + 1
StackHigh == HandleCell + 1
StackEnd == StackHigh + StackWords
Address == FirstChunk .. StackEnd - 1

ChunkEnd(chunk) == chunk + ChunkWords

COLOR_WHITE == 0
COLOR_MOVED == 3
ZAP_WORD == 65       \* ZAP_VALUE in every byte: odd, and outside the chunks

(* Offsets in a FunctionContext; string_table and the two counts, which the *)
(* collector treats like any other word, are left out of the header.        *)
OUTER == 0
SPILL_COUNT == 1
HEADER_WORDS == 2

VARIABLES
  mem,          \* Address -> contents of the word
  current,      \* current_chunk, its cursor and current_objects
  other,        \* other_chunk, its cursor and other_objects
  handles,      \* the cells of the live TemporaryHandles
  frames,       \* the chain of saved frame pointers, main's frame first
  pc,           \* what the runtime is doing; "program" while compiled code runs
  request,      \* the call into the runtime that is being served
  gc_count,     \* collections done for the request
  ptrs,         \* the stack of <<location, pointer>> still to process
  walk,         \* stack_walk: the frame and the word it looks at
  scan,         \* move_object: the copied words still to look at
  memory_gc_stress,
  identity      \* history variable: address -> the object that lives there

gc_vars == <<ptrs, walk, scan>>
vars == <<mem, current, other, handles, frames, pc, request, gc_count, gc_vars,
          memory_gc_stress, identity>>

NoWalk == [frame |-> 0, p |-> 0]
NoScan == [p |-> 0, end |-> 0, location |-> 0, new_ptr |-> 0]

-----------------------------------------------------------------------------
(* Objects: two header words, the size (in words) and the color.  The size  *)
(* of a moved object has been replaced by its new address.                  *)
Size(object) == mem[object - 2]
Color(object) == mem[object - 1]

IsInCurrentChunk(p) ==      \* p in bytes, tagged or not
  /\ p > INT_SIZE * current.chunk
  /\ p < INT_SIZE * ChunkEnd(current.chunk)

(* Frames: the function context, the spill area, the pushed registers.      *)
FunctionContext(ebp) == UntagPointer(mem[ebp])
SpillCount(ebp) == mem[FunctionContext(ebp) + SPILL_COUNT]
LastWord(ebp) == ebp + SpillCount(ebp) + PushedRegisters
Top == frames[Len(frames)]

-----------------------------------------------------------------------------
(* Allocation.  The comparison is the code's, made in bytes.                *)
Fits(size) ==
  INT_SIZE * (current.cursor + size) + 2 < INT_SIZE * ChunkEnd(current.chunk)

(* The memory with a block of the given size and fields at the cursor.      *)
MemoryWithObject(size, fields) ==
  LET object == current.cursor + 2
  IN [a \in Address |->
        IF a = object - 2 THEN size
        ELSE IF a = object - 1 THEN COLOR_WHITE
        ELSE IF a \in object .. object + size - 1 THEN fields[a - object]
        ELSE mem[a]]

(* The object list and the cursor.  The faulty variant forgets the color    *)
(* word of the header.                                                      *)
ReserveTooLittle(size) ==
  current' = [chunk |-> current.chunk,
              cursor |-> current.cursor + size + 1,
              objects |-> Append(current.objects, current.cursor + 2)]
ReserveAtCursor(size) ==
  current' = [chunk |-> current.chunk,
              cursor |-> current.cursor + size + 2,
              objects |-> Append(current.objects, current.cursor + 2)]

-----------------------------------------------------------------------------
(* do_gc *)

StartGC ==
  /\ pc' = "walk"
  /\ walk' = [frame |-> Len(frames), p |-> Top]
  /\ UNCHANGED <<ptrs, scan>>

(* The words of a frame that become roots: the function context, which      *)
(* untag_pointer asserts to be tagged, and every other word with the        *)
(* pointer tag.                                                             *)
IsRoot(p, ebp) == p = ebp \/ HasPointerTag(mem[p])

(* ebp == stack_high ends the walk; the faulty variant stops after the      *)
(* frame of the running function.                                           *)
IsTopFrame(i) == i = Len(frames)
IsLastFrame(i) == i = 1

(* One word of the frame being walked.                                      *)
WalkWord ==
  /\ pc = "walk"
  /\ LET ebp == frames[walk.frame]
         p == walk.p
     IN /\ ptrs' = IF IsRoot(p, ebp)
                     THEN Append(ptrs, <<p, UntagPointer(mem[p])>>)
                     ELSE ptrs
        /\ \/ /\ p < LastWord(ebp)
              /\ walk' = [walk EXCEPT !.p = p + 1]
              /\ pc' = pc
           \/ /\ p = LastWord(ebp)
              /\ ~IsLastFrame(walk.frame)
              /\ walk' = [frame |-> walk.frame - 1, p |-> frames[walk.frame - 1]]
              /\ pc' = pc
           \/ /\ p = LastWord(ebp)
              /\ IsLastFrame(walk.frame)
              /\ walk' = NoWalk
              /\ pc' = "handles"
  /\ UNCHANGED <<mem, current, other, handles, frames, request, gc_count, scan,
                 memory_gc_stress, identity>>

(* The runtime never has two handles at once, so the set has one cell.      *)
RootsFromHandles ==
  /\ pc = "handles"
  /\ ptrs' = IF HandleCell \in handles
               THEN Append(ptrs, <<HandleCell, UntagPointer(mem[HandleCell])>>)
               ELSE ptrs
  /\ pc' = "trace"
  /\ UNCHANGED <<mem, current, other, handles, frames, request, gc_count, walk, scan,
                 memory_gc_stress, identity>>

-----------------------------------------------------------------------------
(* find_object: the first object at which the search of the list stops, and *)
(* what it then answers.  The offset of an interior pointer is divided by   *)
(* INT_SIZE although it is already a number of words.                       *)
SearchStops(i, ptr) ==
  \/ current.objects[i] >= ptr
  \/ i = Len(current.objects)
  \/ current.objects[i + 1] > ptr

FindObject(ptr) ==
  LET i == CHOOSE n \in 1 .. Len(current.objects) :
             /\ SearchStops(n, ptr)
             /\ \A j \in 1 .. n - 1 : ~SearchStops(j, ptr)
      object == current.objects[i]
  IN [found |-> object = ptr \/ (object < ptr /\ ptr < object + Size(object)),
      object |-> object,
      offset |-> (ptr - object) \div INT_SIZE]

(* The copy made by move_object: header and body go to the other chunk as   *)
(* they are, then the original gets its color and its forwarding address.   *)
(* The faulty variant does not mark the original as moved.                  *)
MemoryWithUnmarkedCopy(object, new_address) ==
  LET last == new_address + Size(object) - 1
  IN [a \in Address |->
        IF a \in new_address - 2 .. last THEN mem[a - new_address + object] ELSE mem[a]]

MemoryWithCopy(object, new_address) ==
  LET last == new_address + Size(object) - 1
  IN [a \in Address |->
        IF a \in new_address - 2 .. last THEN mem[a - new_address + object]
        ELSE IF a = object - 1 THEN COLOR_MOVED
        ELSE IF a = object - 2 THEN new_address
        ELSE mem[a]]

Last(s) == s[Len(s)]
Location == Last(ptrs)[1]
Pointer == Last(ptrs)[2]
PopBottom == SubSeq(ptrs, 2, Len(ptrs))   \* faulty: a queue, not a stack
Peek == ptrs                              \* faulty: the pointer is left there
Pop == SubSeq(ptrs, 1, Len(ptrs) - 1)

(* What an already moved object's pointer becomes; the faulty variant       *)
(* forgets the tag.                                                         *)
UntaggedForwardedPointer(f) == INT_SIZE * (Size(f.object) + f.offset)
ForwardedPointer(f) == TagPointer(Size(f.object) + f.offset)

(* The fields of a copy that are worth following; the faulty variant has    *)
(* the tag test inverted.                                                   *)
MustMoveInverted(w) == ~HasPointerTag(w) /\ IsInCurrentChunk(w)
MustMove(w) == HasPointerTag(w) /\ IsInCurrentChunk(w)

Tracing ==
  /\ pc = "trace"
  /\ ptrs # <<>>

(* A root that is not in the current chunk (a string, an integer that looks *)
(* like a pointer) or not in any object is dropped.                         *)
SkipPointer ==
  /\ Tracing
  /\ ~(IsInCurrentChunk(INT_SIZE * Pointer) /\ FindObject(Pointer).found)
  /\ ptrs' = Pop
  /\ UNCHANGED <<mem, current, other, handles, frames, pc, request, gc_count, walk, scan,
                 memory_gc_stress, identity>>

ForwardPointer ==
  /\ Tracing
  /\ IsInCurrentChunk(INT_SIZE * Pointer)
  /\ LET f == FindObject(Pointer)
     IN /\ f.found
        /\ Color(f.object) = COLOR_MOVED
        /\ mem' = [mem EXCEPT ![Location] = ForwardedPointer(f)]
  /\ ptrs' = Pop
  /\ UNCHANGED <<current, other, handles, frames, pc, request, gc_count, walk, scan,
                 memory_gc_stress, identity>>

MoveObject ==
  /\ Tracing
  /\ IsInCurrentChunk(INT_SIZE * Pointer)
  /\ LET f == FindObject(Pointer)
         new_address == other.cursor + 2
     IN /\ f.found
        /\ Color(f.object) # COLOR_MOVED
        /\ mem' = MemoryWithCopy(f.object, new_address)
        /\ other' = [chunk |-> other.chunk,
                     cursor |-> other.cursor + Size(f.object) + 2,
                     objects |-> Append(other.objects, new_address)]
        /\ scan' = [p |-> new_address, end |-> new_address + Size(f.object),
                    location |-> Location, new_ptr |-> TagPointer(new_address + f.offset)]
        /\ identity' = [a \in DOMAIN identity \cup {new_address} |->
                          IF a = new_address THEN identity[f.object] ELSE identity[a]]
  /\ ptrs' = Pop
  /\ pc' = "scan"
  /\ UNCHANGED <<current, handles, frames, request, gc_count, walk, memory_gc_stress>>

ScanWord ==
  /\ pc = "scan"
  /\ scan.p < scan.end
  /\ ptrs' = IF MustMove(mem[scan.p])
               THEN Append(ptrs, <<scan.p, UntagPointer(mem[scan.p])>>)
               ELSE ptrs
  /\ scan' = [scan EXCEPT !.p = @ + 1]
  /\ UNCHANGED <<mem, current, other, handles, frames, pc, request, gc_count, walk,
                 memory_gc_stress, identity>>

(* move_object returns: *new_ptr is the location the pointer was found at.  *)
ScanDone ==
  /\ pc = "scan"
  /\ scan.p = scan.end
  /\ mem' = [mem EXCEPT ![scan.location] = scan.new_ptr]
  /\ scan' = NoScan
  /\ pc' = "trace"
  /\ UNCHANGED <<current, other, handles, frames, request, gc_count, ptrs, walk,
                 memory_gc_stress, identity>>

(* The end of do_gc, parameterised by where its caller continues.           *)
SwapChunks(continue) ==
  /\ pc = "trace"
  /\ ptrs = <<>>
  /\ current' = other
  /\ other' = [chunk |-> current.chunk, cursor |-> current.chunk, objects |-> <<>>]
  /\ mem' = [a \in Address |->
               IF a \in current.chunk .. ChunkEnd(current.chunk) - 1 THEN ZAP_WORD
               ELSE mem[a]]
  /\ identity' = [a \in {b \in DOMAIN identity : \E i \in 1 .. Len(other.objects) :
                                                    b = other.objects[i]} |-> identity[a]]
  /\ pc' = continue
  /\ UNCHANGED <<handles, frames, ptrs, walk, scan, memory_gc_stress>>

GCStep ==
  \/ WalkWord
  \/ RootsFromHandles
  \/ SkipPointer
  \/ ForwardPointer
  \/ MoveObject
  \/ ScanWord
  \/ ScanDone
=============================================================================
