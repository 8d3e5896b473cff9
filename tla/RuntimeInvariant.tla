--------------------------- MODULE RuntimeInvariant ---------------------------
(***************************************************************************)
(* The inductive invariant of Runtime: what every step of the collector     *)
(* relies on and keeps.  A run checks it on small instances, and module     *)
(* RuntimeProofs proves it, under the condition NoTinyObjects, for every    *)
(* value of the constants; ForwardingProofs and RefinementProofs prove what *)
(* GraphInvariant adds about the objects as the program knows them.         *)
(***************************************************************************)
EXTENDS Runtime

(* Every object has at least two words.  An object of one word that ends    *)
(* where the chunk ends, or of none, is not IsInCurrentChunk.               *)
NoTinyObjects ==
  /\ FunctionWords >= 2
  /\ \A n \in ArraySizes : n >= 2

AllObjects == Objects(current) \cup Objects(other)
Stack == StackHigh .. LastWord(Top)
InHeap(a) == FirstChunk <= a /\ a < HandleCell
IsContextObject(o) == identity[o].kind \in {"main", "context"}

InvTypes ==
  /\ mem \in [Address -> Int]
  /\ current \in [chunk : Chunk, cursor : Int, objects : Seq(Int)]
  /\ other \in [chunk : Chunk, cursor : Int, objects : Seq(Int)]
  /\ current.chunk # other.chunk
  /\ handles \subseteq {HandleCell}
  /\ frames \in Seq(Int) /\ frames # <<>>

(* What the runtime is doing, and the request it does it for.               *)
InvControl ==
  /\ pc \in {"program", "allocate", "out_of_memory", "walk", "handles", "trace", "scan"}
  /\ pc = "program" => handles = {} /\ request = NoRequest /\ gc_count = 0
  /\ request.op \in {"none", "context", "function", "array", "test_do_gc"}
  /\ request.op = "context" => request.size = ContextWords
  /\ request.op = "function" => request.size = FunctionWords
  /\ request.op = "array" => request.size \in ArraySizes
  /\ request.op \in {"context", "function"} => handles = {HandleCell}
  /\ request.op \in {"none", "test_do_gc"} => handles = {} /\ gc_count = 0
  /\ pc \in {"allocate", "out_of_memory"} => request.op \in {"context", "function", "array"}
  /\ Collecting => request.op # "none"
  /\ memory_gc_stress \in BOOLEAN
  /\ gc_count \in 0 .. 2
  /\ pc = "allocate" => gc_count <= 1
  /\ Collecting => gc_count <= 1
  /\ Collecting /\ memory_gc_stress => gc_count = 0

(* A chunk is a row of objects, each of at least two words between a header *)
(* of two words and the next header; End is the address after the i-th.     *)
End(space, i) ==
  IF i = Len(space.objects) THEN space.cursor ELSE space.objects[i + 1] - 2
Layout(space) ==
  LET n == Len(space.objects)
  IN /\ n = 0 => space.cursor = space.chunk
     /\ n > 0 => space.objects[1] = space.chunk + 2
     /\ \A i \in 1 .. n :
          /\ space.chunk + 2 <= space.objects[i]
          /\ space.objects[i] + 2 <= End(space, i)
          /\ End(space, i) <= space.cursor
     /\ \A i, j \in 1 .. n : i < j => End(space, i) + 2 <= space.objects[j]

(* Sizes and colors.  Only a collection moves objects, and never twice.     *)
InvHeaders(space) ==
  \A i \in 1 .. Len(space.objects) :
    LET o == space.objects[i]
    IN /\ Color(o) \in {COLOR_WHITE, COLOR_MOVED}
       /\ Color(o) = COLOR_WHITE => Size(o) = End(space, i) - o
       /\ IsContextObject(o) => End(space, i) - o = ContextWords

InvLayout ==
  /\ Layout(current) /\ InvHeaders(current)
  /\ Layout(other) /\ InvHeaders(other)
  /\ current.cursor <= ChunkEnd(current.chunk) + 1
  /\ \A o \in Objects(other) : Color(o) = COLOR_WHITE

(* The other chunk is used, and objects are marked, only while tracing.     *)
InvIdle ==
  pc \notin {"trace", "scan"} =>
    /\ other.objects = <<>>
    /\ \A o \in Objects(current) : Color(o) = COLOR_WHITE

(* The room of the moved objects is what the other chunk has used.          *)
MovedWords ==
  UNION {current.objects[i] - 2 .. End(current, i) - 1 :
           i \in {j \in 1 .. Len(current.objects) : Color(current.objects[j]) = COLOR_MOVED}}
InvRoom == Cardinality(MovedWords) = other.cursor - other.chunk

InvIdentity ==
  /\ DOMAIN identity = AllObjects
  /\ \A o \in AllObjects :
       /\ identity[o].kind \in {"main", "context", "function", "array"}
       /\ IsContextObject(o) => mem[o + SPILL_COUNT] \in 0 .. MaxSpills

(* A moved object has left the address of its copy.                         *)
InvForwarding ==
  \A o \in Objects(current) :
    Color(o) = COLOR_MOVED =>
      /\ Size(o) \in Objects(other)
      /\ identity[Size(o)] = identity[o]
      /\ IsContextObject(o) => mem[Size(o) + SPILL_COUNT] = mem[o + SPILL_COUNT]

(* The frames cover the stack, each holds the context its function runs in, *)
(* and that context knows how many words of the frame are spills.           *)
IsFrame(ebp) ==
  /\ StackHigh <= ebp
  /\ HasPointerTag(mem[ebp])
  /\ FunctionContext(ebp) \in AllObjects
  /\ IsContextObject(FunctionContext(ebp))
  /\ SpillCount(ebp) \in 1 .. MaxSpills
  /\ LastWord(ebp) < StackEnd

InvFrames ==
  /\ frames[1] = StackHigh
  /\ \A i \in 1 .. Len(frames) : IsFrame(frames[i])
  /\ \A i \in 1 .. Len(frames) - 1 : frames[i + 1] = LastWord(frames[i]) + 1
  /\ \A i, j \in 1 .. Len(frames) : i < j => LastWord(frames[i]) < frames[j]

(* A word with the pointer tag that points into the heap points at one of   *)
(* the objects.  The fields of the objects being left know no copy.         *)
PointsTo(w, objects) ==
  HasPointerTag(w) /\ InHeap(UntagPointer(w)) => UntagPointer(w) \in objects
InvWords ==
  /\ \A l \in Roots \cup Bodies(other) : PointsTo(mem[l], AllObjects)
  /\ \A l \in Bodies(current) : PointsTo(mem[l], Objects(current))
  /\ HandleCell \in handles => HasPointerTag(mem[HandleCell])

(* The walk has left the frames above and a part of its own.                *)
Visited(l) ==
  \/ frames[walk.frame] <= l /\ l < walk.p
  \/ LastWord(frames[walk.frame]) < l

(* The stack of pointers: no location twice, and each still holds the       *)
(* pointer it was pushed with.                                              *)
UpToDate(entry) ==
  LET l == entry[1]
  IN /\ l \in Roots \cup Bodies(other)
     /\ HasPointerTag(mem[l])
     /\ UntagPointer(mem[l]) = entry[2]
     /\ l \in Bodies(other) => IsInCurrentChunk(mem[l])
     /\ pc \in {"walk", "handles"} => l \in Stack
     /\ pc = "walk" => Visited(l)
InvPointers ==
  /\ ptrs \in Seq(Int \X Int)
  /\ ~Collecting => ptrs = <<>>
  /\ \A i \in 1 .. Len(ptrs) : UpToDate(ptrs[i])
  /\ \A i, j \in 1 .. Len(ptrs) : i # j => ptrs[i][1] # ptrs[j][1]

InvWalk ==
  pc = "walk" =>
    /\ walk \in [frame : Int, p : Int]
    /\ walk.frame \in 1 .. Len(frames)
    /\ walk.p \in frames[walk.frame] .. LastWord(frames[walk.frame])

(* The copy that is being scanned, and the location it was found through,   *)
(* which still holds the address of the original.                           *)
InvScan ==
  /\ pc # "scan" => scan = NoScan
  /\ pc = "scan" =>
       LET copy == Last(other.objects)
           original == UntagPointer(mem[scan.location])
       IN /\ scan \in [p : Int, end : Int, location : Int, new_ptr : Int]
          /\ other.objects # <<>>
          /\ scan.end = other.cursor
          /\ scan.p \in copy .. scan.end
          /\ scan.new_ptr = TagPointer(copy)
          /\ scan.location \in (Roots \cup Bodies(other)) \ (copy .. scan.end - 1)
          /\ HasPointerTag(mem[scan.location])
          /\ original \in Objects(current)
          /\ Color(original) = COLOR_MOVED
          /\ Size(original) = copy
          /\ \A i \in 1 .. Len(ptrs) :
               ptrs[i][1] \notin {scan.location} \cup (scan.p .. scan.end - 1)

(* Every word that still points at an original is accounted for.            *)
Outstanding(l) == HasPointerTag(mem[l]) /\ IsInCurrentChunk(mem[l])
Pending(l) == \E i \in 1 .. Len(ptrs) : ptrs[i][1] = l
InvWorklist ==
  /\ pc = "walk" => \A l \in Stack : Visited(l) /\ Outstanding(l) => Pending(l)
  /\ pc = "handles" => \A l \in Stack : Outstanding(l) => Pending(l)
  /\ pc \in {"trace", "scan"} =>
       \A l \in Roots \cup Bodies(other) :
         Outstanding(l) => \/ Pending(l)
                           \/ l \in scan.p .. scan.end - 1
                           \/ pc = "scan" /\ l = scan.location

(* The part about memory: chunks, objects, frames and what their words hold. *)
InvHeap ==
  /\ InvTypes
  /\ InvLayout
  /\ InvRoom
  /\ InvIdentity
  /\ InvForwarding
  /\ InvFrames
  /\ InvWords

(* Between any two iterations of a loop of memory_allocate, stack_walk or   *)
(* do_gc, memory is in order and the collector knows what is left to do: it *)
(* is all that the code of memory.cpp relies on and never tests.            *)
Invariant ==
  /\ InvHeap
  /\ InvControl
  /\ InvIdle
  /\ InvPointers
  /\ InvWalk
  /\ InvScan
  /\ InvWorklist

(* No two objects have one identity, but for an object that is being left   *)
(* and the copy it was overwritten with the address of.  It is inductive    *)
(* together with Invariant.                                                 *)
DistinctIdentities ==
  /\ \A c, d \in Objects(current) : identity[c] = identity[d] => c = d
  /\ \A c, d \in Objects(other) : identity[c] = identity[d] => c = d
  /\ \A o \in Objects(current), c \in Objects(other) :
       identity[c] = identity[o] => Color(o) = COLOR_MOVED /\ Size(o) = c

(* What has been copied is reachable from the roots.                        *)
CopiesReachable == \A c \in Objects(other) : identity[c] \in Graph!Reachable

(* After a collection for a request nothing is left to collect: until the   *)
(* program runs again, all objects are reachable.  When the second one has  *)
(* begun, or the runtime has given up, the request does not fit either.     *)
InvCollected ==
  /\ pc = "allocate" /\ (memory_gc_stress \/ gc_count = 1) => Graph!Reachable = Identities
  /\ pc = "out_of_memory" \/ (Collecting /\ gc_count = 1) =>
       Graph!Reachable = Identities /\ ~Fits(request.size)

(* All of it: memory is in order, no object exists twice, only what is      *)
(* reachable is copied, and all that is not is gone once a collection has   *)
(* ended.                                                                   *)
GraphInvariant ==
  /\ Invariant
  /\ DistinctIdentities
  /\ CopiesReachable
  /\ InvCollected
=============================================================================
