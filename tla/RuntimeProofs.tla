----------------------------- MODULE RuntimeProofs -----------------------------
(***************************************************************************)
(* The invariant of module RuntimeInvariant holds for every value of the    *)
(* constants, if no object has less than two words; and with it the safety  *)
(* properties of module Runtime.  First lemmas about words, about a chunk   *)
(* as a row of objects, about one state of the runtime, and about steps     *)
(* that change a word of memory or nothing of it.                           *)
(***************************************************************************)
EXTENDS RuntimeInvariant, TLAPS, FiniteSetTheorems, SequenceTheorems

(* A chunk, its cursor and its list of objects.                             *)
Space == [chunk : Int, cursor : Int, objects : Seq(Int)]

(* Tagging a pointer is undone by untagging it.                             *)
LEMMA TagUntag ==
  \A a \in Int : /\ TagPointer(a) \in Int
                 /\ HasPointerTag(TagPointer(a))
                 /\ UntagPointer(TagPointer(a)) = a
  BY DEF UntagPointer, TagPointer, HasPointerTag, INT_SIZE, PTR_TAG

(* A spill count never looks like a pointer into the heap.                  *)
LEMMA SmallWords == \A w \in 0 .. 100 : ~InHeap(UntagPointer(w))
  BY DEF UntagPointer, PTR_TAG, INT_SIZE, InHeap, FirstChunk

(* The bodies of the objects, by their ends.                                *)
LEMMA BodiesByEnd ==
  ASSUME NEW space \in Space
  PROVE  \A l : l \in Bodies(space) <=>
                  \E i \in 1 .. Len(space.objects) : l \in space.objects[i] .. End(space, i) - 1
<1>1. ASSUME NEW i \in 1 .. Len(space.objects)
      PROVE  space.objects[i] + Extent(space, i) - 1 = End(space, i) - 1
  <2>1. Extent(space, i) = End(space, i) - space.objects[i]
    BY DEF Extent, End
  <2>2. space.objects[i] \in Int /\ End(space, i) \in Int
    BY DEF End, Space
  <2>3. PICK at, end : at = space.objects[i] /\ end = End(space, i)
    OBVIOUS
  <2>4. at + (end - at) - 1 = end - 1
    BY ONLY <2>2, <2>3
  <2> QED BY <2>1, <2>3, <2>4
<1> QED BY <1>1 DEF Bodies

(* The parts of a chunk are integers.                                       *)
LEMMA SpaceTypes ==
  ASSUME NEW space \in Space
  PROVE  /\ space.chunk \in Int /\ space.cursor \in Int /\ space.objects \in Seq(Int)
         /\ Len(space.objects) \in Nat
         /\ \A i \in 1 .. Len(space.objects) : space.objects[i] \in Int /\ End(space, i) \in Int
<1>1. space.chunk \in Int /\ space.cursor \in Int /\ space.objects \in Seq(Int)
  BY DEF Space
<1>2. Len(space.objects) \in Nat
  BY <1>1
<1>3. \A i \in 1 .. Len(space.objects) : space.objects[i] \in Int
  BY <1>1
<1>4. ASSUME NEW i \in 1 .. Len(space.objects) PROVE End(space, i) \in Int
  <2>1. CASE i = Len(space.objects)
    BY <2>1, <1>1 DEF End
  <2>2. CASE i # Len(space.objects)
    <3>1. i + 1 \in 1 .. Len(space.objects)
      BY <2>2, <1>2
    <3>2. space.objects[i + 1] \in Int
      BY <3>1, <1>3
    <3> QED BY <2>2, <3>2 DEF End
  <2> QED BY <2>1, <2>2
<1> QED BY <1>1, <1>2, <1>3, <1>4

(* Where the objects of a chunk are, and that no two overlap.               *)
LEMMA LayoutFacts ==
  ASSUME NEW space \in Space, Layout(space)
  PROVE  /\ space.chunk <= space.cursor
         /\ \A o \in Objects(space) : o \in Int /\ space.chunk + 2 <= o /\ o + 2 <= space.cursor
         /\ \A l \in Bodies(space) : l \in Int /\ space.chunk + 2 <= l /\ l < space.cursor
         /\ \A l \in Bodies(space), o \in Objects(space) : l # o - 1 /\ l # o - 2
         /\ \A o \in Objects(space) : o \in Bodies(space) /\ o + 1 \in Bodies(space)
<1> DEFINE n == Len(space.objects)
           at(i) == space.objects[i]
           end(i) == End(space, i)
<1>1. /\ space.cursor \in Int /\ space.chunk \in Int /\ n \in Nat
      /\ \A i \in 1 .. n : at(i) \in Int /\ end(i) \in Int
  BY SpaceTypes
<1>2. \A i \in 1 .. n : /\ space.chunk + 2 <= at(i)
                        /\ at(i) + 2 <= end(i)
                        /\ end(i) <= space.cursor
  BY DEF Layout
<1>3. \A i, j \in 1 .. n : i < j => end(i) + 2 <= at(j)
  BY DEF Layout
<1>4. \A o : o \in Objects(space) <=> \E i \in 1 .. n : o = at(i)
  BY DEF Objects
<1>5. \A l : l \in Bodies(space) <=> \E i \in 1 .. n : l \in at(i) .. end(i) - 1
  BY BodiesByEnd
<1>6. n = 0 => space.cursor = space.chunk
  BY DEF Layout
<1> HIDE DEF n, at, end
<1>7. space.chunk <= space.cursor
  <2>1. CASE n = 0
    BY <2>1, <1>1, <1>6
  <2>2. CASE 1 \in 1 .. n
    BY <2>2, <1>1, <1>2
  <2> QED BY <2>1, <2>2, <1>1
<1>8. \A o \in Objects(space) : o \in Int /\ space.chunk + 2 <= o /\ o + 2 <= space.cursor
  <2> SUFFICES ASSUME NEW i \in 1 .. n
               PROVE  at(i) \in Int /\ space.chunk + 2 <= at(i) /\ at(i) + 2 <= space.cursor
    BY <1>4
  <2> QED BY <1>1, <1>2
<1>9. \A l \in Bodies(space) : l \in Int /\ space.chunk + 2 <= l /\ l < space.cursor
  <2> SUFFICES ASSUME NEW i \in 1 .. n, NEW l \in at(i) .. end(i) - 1
               PROVE  l \in Int /\ space.chunk + 2 <= l /\ l < space.cursor
    BY <1>5
  <2> QED BY <1>1, <1>2
<1>10. \A l \in Bodies(space), o \in Objects(space) : l # o - 1 /\ l # o - 2
  <2> SUFFICES ASSUME NEW i \in 1 .. n, NEW l \in at(i) .. end(i) - 1, NEW j \in 1 .. n
               PROVE  l # at(j) - 1 /\ l # at(j) - 2
    BY <1>4, <1>5
  <2>1. CASE i < j
    BY <2>1, <1>1, <1>3
  <2>2. CASE i = j
    BY <2>2, <1>1
  <2>3. CASE j < i
    BY <2>3, <1>1, <1>2, <1>3
  <2> QED BY <2>1, <2>2, <2>3, <1>1
<1>11. \A o \in Objects(space) : o \in Bodies(space) /\ o + 1 \in Bodies(space)
  <2> SUFFICES ASSUME NEW i \in 1 .. n
               PROVE  at(i) \in at(i) .. end(i) - 1 /\ at(i) + 1 \in at(i) .. end(i) - 1
    BY <1>4, <1>5
  <2> QED BY <1>1, <1>2
<1> QED BY <1>7, <1>8, <1>9, <1>10, <1>11

(* A word belongs to the body of one object only.                           *)
LEMMA OneBody ==
  ASSUME NEW space \in Space, Layout(space),
         NEW i \in 1 .. Len(space.objects), NEW j \in 1 .. Len(space.objects),
         NEW l \in space.objects[i] .. End(space, i) - 1,
         l \in space.objects[j] .. End(space, j) - 1
  PROVE  i = j
<1>1. /\ i \in Int /\ j \in Int /\ l \in Int
      /\ space.objects[i] \in Int /\ space.objects[j] \in Int
      /\ End(space, i) \in Int /\ End(space, j) \in Int
  BY SpaceTypes
<1>2. ~(i < j)
  <2>1. i < j => End(space, i) + 2 <= space.objects[j]
    BY DEF Layout
  <2> QED BY <1>1, <2>1
<1>3. ~(j < i)
  <2>1. j < i => End(space, j) + 2 <= space.objects[i]
    BY DEF Layout
  <2> QED BY <1>1, <2>1
<1> QED BY <1>1, <1>2, <1>3

(* Objects are where their list says, once each.                            *)
LEMMA ObjectsDistinct ==
  ASSUME NEW space \in Space, Layout(space),
         NEW i \in 1 .. Len(space.objects), NEW j \in 1 .. Len(space.objects), i < j
  PROVE  space.objects[i] + 4 <= space.objects[j]
<1>1. space.objects[i] \in Int /\ space.objects[j] \in Int /\ End(space, i) \in Int
  BY SpaceTypes
<1>2. End(space, i) + 2 <= space.objects[j] /\ space.objects[i] + 2 <= End(space, i)
  BY DEF Layout
<1> QED BY <1>1, <1>2

(* An object placed at the cursor keeps the layout, and moves no other.     *)
LEMMA LayoutAppend ==
  ASSUME NEW space \in Space, Layout(space), NEW size \in Int, size >= 2,
         NEW new \in Space, new.chunk = space.chunk, new.cursor = space.cursor + size + 2,
         new.objects = Append(space.objects, space.cursor + 2)
  PROVE  /\ Layout(new)
         /\ Len(new.objects) = Len(space.objects) + 1
         /\ \A i \in 1 .. Len(space.objects) :
              new.objects[i] = space.objects[i] /\ End(new, i) = End(space, i)
         /\ new.objects[Len(new.objects)] = space.cursor + 2
         /\ End(new, Len(new.objects)) = space.cursor + 2 + size
         /\ Objects(new) = Objects(space) \cup {space.cursor + 2}
         /\ \A l : l \in Bodies(new) <=>
                     l \in Bodies(space) \/ l \in space.cursor + 2 .. space.cursor + 2 + size - 1
<1> DEFINE n == Len(space.objects)
           o == space.cursor + 2
           at(i) == space.objects[i]
           end(i) == End(space, i)
           newAt(i) == new.objects[i]
           newEnd(i) == End(new, i)
           newCursor == new.cursor
           room(i) == at(i) .. end(i) - 1
           newRoom(i) == newAt(i) .. newEnd(i) - 1
           added == o .. o + size - 1
<1>1. /\ space.objects \in Seq(Int) /\ space.cursor \in Int /\ space.chunk \in Int /\ n \in Nat
      /\ \A i \in 1 .. n : at(i) \in Int /\ end(i) \in Int
  BY SpaceTypes
<1>2. /\ new \in Space
      /\ new.chunk = space.chunk /\ newCursor = space.cursor + size + 2
      /\ new.objects = Append(space.objects, o)
  OBVIOUS
<1>3. /\ Len(new.objects) = n + 1
      /\ \A i \in 1 .. n : newAt(i) = at(i)
      /\ newAt(n + 1) = o
  BY <1>1, <1>2
<1>4. \A i \in 1 .. n : newEnd(i) = end(i)
  <2> TAKE i \in 1 .. n
  <2>1. CASE i = n
    BY <2>1, <1>1, <1>3 DEF End
  <2>2. CASE i < n
    <3>1. i + 1 \in 1 .. n
      BY <2>2, <1>1
    <3> QED BY <2>2, <3>1, <1>1, <1>3 DEF End
  <2> QED BY <2>1, <2>2, <1>1
<1>5. newEnd(n + 1) = o + size
  BY <1>1, <1>2, <1>3 DEF End
<1>6. space.chunk <= space.cursor
  BY LayoutFacts
<1>7. \A i \in 1 .. n : /\ space.chunk + 2 <= at(i)
                        /\ at(i) + 2 <= end(i)
                        /\ end(i) <= space.cursor
  BY DEF Layout
<1>8. \A i, j \in 1 .. n : i < j => end(i) + 2 <= at(j)
  BY DEF Layout
<1>9. n = 0 => space.cursor = space.chunk
  BY DEF Layout
<1>10. n > 0 => at(1) = space.chunk + 2
  BY DEF Layout
<1>11. \A l : l \in Objects(space) <=> \E i \in 1 .. n : l = at(i)
  BY DEF Objects
<1>12. \A l : l \in Objects(new) <=> \E i \in 1 .. n + 1 : l = newAt(i)
  BY <1>3 DEF Objects
<1>13. \A l : l \in Bodies(space) <=> \E i \in 1 .. n : l \in room(i)
  BY BodiesByEnd
<1>14. \A l : l \in Bodies(new) <=> \E i \in 1 .. n + 1 : l \in newRoom(i)
  BY <1>2, <1>3, BodiesByEnd
<1>15. newAt(1) = space.chunk + 2
  <2>1. CASE n = 0
    BY <2>1, <1>1, <1>3, <1>9
  <2>2. CASE 1 \in 1 .. n
    BY <2>2, <1>1, <1>3, <1>10
  <2> QED BY <2>1, <2>2, <1>1
<1>16. /\ \A i \in 1 .. n + 1 : /\ space.chunk + 2 <= newAt(i)
                                /\ newAt(i) + 2 <= newEnd(i)
                                /\ newEnd(i) <= newCursor
       /\ \A i, j \in 1 .. n + 1 : i < j => newEnd(i) + 2 <= newAt(j)
  <2> HIDE DEF n, at, end, newAt, newEnd, newCursor
  <2>1. ASSUME NEW i \in 1 .. n + 1
        PROVE  /\ space.chunk + 2 <= newAt(i)
               /\ newAt(i) + 2 <= newEnd(i)
               /\ newEnd(i) <= newCursor
    <3>1. CASE i = n + 1
      BY <3>1, <1>1, <1>2, <1>3, <1>5, <1>6
    <3>2. CASE i \in 1 .. n
      <4>1. at(i) \in Int /\ end(i) \in Int
        BY <3>2, <1>1
      <4>2. newAt(i) = at(i) /\ newEnd(i) = end(i)
        BY <3>2, <1>3, <1>4
      <4>3. space.chunk + 2 <= at(i) /\ at(i) + 2 <= end(i) /\ end(i) <= space.cursor
        BY <3>2, <1>7
      <4> QED BY <4>1, <4>2, <4>3, <1>1, <1>2
    <3> QED BY <3>1, <3>2, <1>1
  <2>2. ASSUME NEW i \in 1 .. n + 1, NEW j \in 1 .. n + 1, i < j
        PROVE  newEnd(i) + 2 <= newAt(j)
    <3>1. i \in 1 .. n
      BY <2>2, <1>1
    <3>2. CASE j = n + 1
      BY <3>1, <3>2, <1>1, <1>3, <1>4, <1>7
    <3>3. CASE j \in 1 .. n
      BY <2>2, <3>1, <3>3, <1>3, <1>4, <1>8
    <3> QED BY <3>2, <3>3, <1>1
  <2> QED BY <2>1, <2>2
<1>17. Layout(new)
  <2>1. Len(new.objects) # 0
    BY <1>1, <1>3
  <2>2. /\ \A i \in 1 .. Len(new.objects) :
             /\ new.chunk + 2 <= new.objects[i]
             /\ new.objects[i] + 2 <= End(new, i)
             /\ End(new, i) <= new.cursor
        /\ \A i, j \in 1 .. Len(new.objects) : i < j => End(new, i) + 2 <= new.objects[j]
    BY <1>2, <1>3, <1>16
  <2>3. new.objects[1] = new.chunk + 2
    BY <1>2, <1>15
  <2> QED BY <2>1, <2>2, <2>3 DEF Layout
<1>18. 1 .. n + 1 = (1 .. n) \cup {n + 1}
  BY <1>1
<1>19. Objects(new) = Objects(space) \cup {o}
  <2> HIDE DEF n, at, newAt, o
  <2>1. \A l : l \in Objects(new) <=> l \in Objects(space) \/ l = o
    <3> TAKE l
    <3>1. (\E i \in 1 .. n + 1 : l = newAt(i)) <=> (\E i \in 1 .. n : l = newAt(i)) \/ l = newAt(n + 1)
      BY <1>18
    <3> QED BY <3>1, <1>3, <1>11, <1>12
  <2> QED BY <2>1
<1>20. (\A i \in 1 .. n : newRoom(i) = room(i)) /\ newRoom(n + 1) = added
  <2>1. o \in Int
    BY <1>1
  <2> HIDE DEF n, at, end, newAt, newEnd, o
  <2>2. \A i \in 1 .. n : newRoom(i) = room(i)
    BY <1>3, <1>4
  <2>3. newRoom(n + 1) = added
    BY <2>1, <1>3, <1>5
  <2> QED BY <2>2, <2>3
<1>21. ASSUME NEW l
       PROVE  l \in Bodies(new) <=> l \in Bodies(space) \/ l \in added
  <2> HIDE DEF n, room, newRoom, added
  <2>1. (\E i \in 1 .. n + 1 : l \in newRoom(i))
          <=> (\E i \in 1 .. n : l \in newRoom(i)) \/ l \in newRoom(n + 1)
    BY <1>18
  <2> QED BY <2>1, <1>13, <1>14, <1>20
<1>22. /\ Len(new.objects) = Len(space.objects) + 1
       /\ \A i \in 1 .. Len(space.objects) :
            new.objects[i] = space.objects[i] /\ End(new, i) = End(space, i)
       /\ new.objects[Len(new.objects)] = space.cursor + 2
       /\ End(new, Len(new.objects)) = space.cursor + 2 + size
  BY <1>3, <1>4, <1>5
<1>23. \A l : l \in Bodies(new) <=>
              l \in Bodies(space) \/ l \in space.cursor + 2 .. space.cursor + 2 + size - 1
  <2> HIDE DEF added
  <2>1. \A l : l \in Bodies(new) <=> l \in Bodies(space) \/ l \in added
    BY <1>21
  <2> QED BY <2>1 DEF added
<1> QED BY <1>2, <1>17, <1>19, <1>22, <1>23

(* find_object finds an object by its address: the list is sorted, so the   *)
(* search stops at the object and at no earlier one.                        *)
LEMMA FindExact ==
  ASSUME current \in Space, Layout(current), NEW p \in Objects(current)
  PROVE  FindObject(p) = [found |-> TRUE, object |-> p, offset |-> 0]
<1> DEFINE n == Len(current.objects)
           at(i) == current.objects[i]
           Stop(i) == SearchStops(i, p) /\ \A j \in 1 .. i - 1 : ~SearchStops(j, p)
<1>1. n \in Nat /\ \A i \in 1 .. n : at(i) \in Int
  BY SpaceTypes
<1>2. \A i, j \in 1 .. n : i < j => at(i) + 4 <= at(j)
  BY ObjectsDistinct
<1>3. PICK k \in 1 .. n : p = at(k)
  BY DEF Objects
<1>4. SearchStops(k, p)
  BY <1>1, <1>3 DEF SearchStops
<1>5. ASSUME NEW j \in 1 .. n, j < k PROVE ~SearchStops(j, p)
  <2>1. at(j) + 4 <= at(k)
    BY <1>2, <1>5
  <2>2. j + 1 \in 1 .. n /\ (j + 1 < k \/ j + 1 = k)
    BY <1>1, <1>5
  <2>3. at(j + 1) <= at(k)
    <3>1. CASE j + 1 < k
      <4>1. at(j + 1) + 4 <= at(k)
        BY <3>1, <2>2, <1>2
      <4> QED BY <4>1, <2>2, <1>1
    <3>2. CASE j + 1 = k
      BY <3>2, <1>1
    <3> QED BY <3>1, <3>2, <2>2
  <2>4. /\ ~(at(j) >= p)
        /\ j # n
        /\ ~(at(j + 1) > p)
    BY <1>1, <1>3, <1>5, <2>1, <2>2, <2>3
  <2> QED BY <2>4 DEF SearchStops
<1>6. Stop(k)
  BY <1>1, <1>4, <1>5
<1>7. \A i \in 1 .. n : Stop(i) => i = k
  <2> TAKE i \in 1 .. n
  <2> HAVE Stop(i)
  <2>1. ~(i < k)
    BY <1>5
  <2>2. ~(k < i)
    BY <1>1, <1>4
  <2> QED BY <2>1, <2>2, <1>1
<1>8. (CHOOSE i \in 1 .. n : Stop(i)) = k
  <2> HIDE DEF Stop, n
  <2> QED BY <1>6, <1>7
<1>9. (p - p) \div INT_SIZE = 0
  BY <1>1, <1>3 DEF INT_SIZE
<1> QED BY <1>3, <1>8, <1>9 DEF FindObject

(* The moved objects and another one fit in what the current chunk uses, so *)
(* the copy of that one fits in the other chunk.                            *)
LEMMA RoomForCopy ==
  ASSUME current \in Space, Layout(current), InvRoom
  PROVE  /\ IsFiniteSet(MovedWords)
         /\ Cardinality(MovedWords) <= current.cursor - current.chunk
         /\ \A k \in 1 .. Len(current.objects) :
              LET o == current.objects[k]
                  block == o - 2 .. End(current, k) - 1
              IN Color(o) # COLOR_MOVED =>
                   /\ IsFiniteSet(MovedWords \cup block)
                   /\ Cardinality(MovedWords \cup block)
                        = Cardinality(MovedWords) + (End(current, k) - o + 2)
                   /\ Cardinality(MovedWords) + (End(current, k) - o + 2)
                        <= current.cursor - current.chunk
<1> DEFINE n == Len(current.objects)
           at(i) == current.objects[i]
           end(i) == End(current, i)
           start == current.chunk
           limit == current.cursor
           room(i) == at(i) - 2 .. end(i) - 1
           used == start .. limit - 1
<1>1. /\ start \in Int /\ limit \in Int /\ n \in Nat
      /\ \A i \in 1 .. n : at(i) \in Int /\ end(i) \in Int
  BY SpaceTypes
<1>2. \A i \in 1 .. n : start + 2 <= at(i) /\ at(i) + 2 <= end(i) /\ end(i) <= limit
  BY DEF Layout
<1>3. \A i, j \in 1 .. n : i < j => end(i) + 2 <= at(j)
  BY DEF Layout
<1>4. start <= limit
  BY LayoutFacts
<1>5. \A l : l \in MovedWords <=>
               \E i \in 1 .. n : Color(at(i)) = COLOR_MOVED /\ l \in room(i)
  BY DEF MovedWords
<1> HIDE DEF n, at, end, start, limit
<1>6. \A i \in 1 .. n : room(i) \subseteq used
  BY <1>1, <1>2
<1>7. IsFiniteSet(used) /\ Cardinality(used) = limit - start
  <2>1. IsFiniteSet(used) /\ Cardinality(used) = IF start > limit - 1 THEN 0 ELSE limit - 1 - start + 1
    BY <1>1, FS_Interval
  <2> QED BY <2>1, <1>1, <1>4
<1>8. MovedWords \subseteq used
  <2> HIDE DEF room, used
  <2> QED BY <1>5, <1>6
<1>9. IsFiniteSet(MovedWords) /\ Cardinality(MovedWords) <= limit - start
  BY <1>7, <1>8, FS_Subset
<1>10. ASSUME NEW k \in 1 .. n, Color(at(k)) # COLOR_MOVED
       PROVE  /\ IsFiniteSet(MovedWords \cup room(k))
              /\ Cardinality(MovedWords \cup room(k)) = Cardinality(MovedWords) + (end(k) - at(k) + 2)
              /\ Cardinality(MovedWords) + (end(k) - at(k) + 2) <= limit - start
  <2>1. IsFiniteSet(room(k)) /\ Cardinality(room(k)) = end(k) - at(k) + 2
    <3>1. /\ IsFiniteSet(room(k))
          /\ Cardinality(room(k)) = IF at(k) - 2 > end(k) - 1 THEN 0
                                    ELSE end(k) - 1 - (at(k) - 2) + 1
      <4> DEFINE first == at(k) - 2
                 last == end(k) - 1
      <4>1. first \in Int /\ last \in Int
        BY <1>1
      <4> HIDE DEF first, last
      <4>2. /\ IsFiniteSet(first .. last)
            /\ Cardinality(first .. last) = IF first > last THEN 0 ELSE last - first + 1
        BY <4>1, FS_Interval
      <4> QED BY <4>2 DEF first, last
    <3> QED BY <3>1, <1>1, <1>2
  <2>2. \A i \in 1 .. n : i # k => \A l \in room(i) : l \notin room(k)
    <3> SUFFICES ASSUME NEW i \in 1 .. n, i # k, NEW l \in room(i), l \in room(k)
                 PROVE  FALSE
      OBVIOUS
    <3>1. CASE i < k
      BY <3>1, <1>1, <1>3
    <3>2. CASE k < i
      BY <3>2, <1>1, <1>3
    <3> QED BY <3>1, <3>2, <1>1
  <2>3. MovedWords \cap room(k) = {}
    <3> HIDE DEF room
    <3> QED BY <2>2, <1>5, <1>10
  <2>4. Cardinality({}) = 0
    BY FS_EmptySet
  <2>5. /\ IsFiniteSet(MovedWords \cup room(k))
        /\ Cardinality(MovedWords \cup room(k))
             = Cardinality(MovedWords) + Cardinality(room(k)) - Cardinality(MovedWords \cap room(k))
    <3> HIDE DEF room
    <3> QED BY <1>9, <2>1, FS_Union
  <2>6. Cardinality(MovedWords \cup room(k)) = Cardinality(MovedWords) + (end(k) - at(k) + 2)
    <3>1. Cardinality(MovedWords) \in Nat
      BY <1>9, FS_CardinalityType
    <3>2. Cardinality(MovedWords \cap room(k)) = 0
      BY <2>3, <2>4
    <3> DEFINE c == Cardinality(MovedWords)
               d == Cardinality(MovedWords \cup room(k))
               r == Cardinality(room(k))
               shared == Cardinality(MovedWords \cap room(k))
    <3>3. c \in Nat /\ r = end(k) - at(k) + 2 /\ d = c + r - shared /\ shared = 0
      BY <3>1, <3>2, <2>1, <2>5
    <3>4. end(k) \in Int /\ at(k) \in Int
      BY <1>1
    <3> HIDE DEF c, d, r, shared
    <3>5. d = c + (end(k) - at(k) + 2)
      BY <3>3, <3>4
    <3> QED BY <3>5 DEF c, d
  <2>7. MovedWords \cup room(k) \subseteq used
    <3> HIDE DEF room, used
    <3> QED BY <1>6, <1>8
  <2>8. Cardinality(MovedWords \cup room(k)) <= limit - start
    <3> HIDE DEF room, used
    <3> QED BY <2>7, <1>7, FS_Subset
  <2> QED BY <2>5, <2>6, <2>8
<1>11. \A k \in 1 .. n :
         Color(at(k)) # COLOR_MOVED =>
           /\ IsFiniteSet(MovedWords \cup room(k))
           /\ Cardinality(MovedWords \cup room(k)) = Cardinality(MovedWords) + (end(k) - at(k) + 2)
           /\ Cardinality(MovedWords) + (end(k) - at(k) + 2) <= limit - start
  BY <1>10
<1> QED BY <1>9, <1>11, Zenon DEF n, at, end, start, limit

-----------------------------------------------------------------------------

(* The address space in numbers.                                            *)
LEMMA Places ==
  /\ ChunkWords \in Nat /\ StackWords \in Nat /\ PushedRegisters \in Nat \ {0}
  /\ MaxSpills \in 1 .. 100
  /\ FirstChunk = 32
  /\ SecondChunk = 33 + ChunkWords
  /\ HandleCell = SecondChunk + ChunkWords + 1
  /\ HandleCell \in Int /\ SecondChunk \in Int /\ StackEnd \in Int /\ StackHigh \in Int
  /\ StackHigh = HandleCell + 1
  /\ StackEnd = StackHigh + StackWords
  /\ \A a : a \in Address <=> a \in Int /\ FirstChunk <= a /\ a < StackEnd
  /\ \A c \in Int : ChunkEnd(c) = c + ChunkWords
  /\ \A c \in Chunk : c = FirstChunk \/ c = SecondChunk
BY MemoryAssumption DEF FirstChunk, SecondChunk, HandleCell, StackHigh, StackEnd, Address,
     ChunkEnd, Chunk

(* The two chunks do not overlap, and neither is overrun.                   *)
LEMMA Chunks ==
  ASSUME InvHeap
  PROVE  /\ current \in Space /\ other \in Space
         /\ Layout(current) /\ Layout(other)
         /\ current.chunk \in Int /\ other.chunk \in Int
         /\ current.cursor \in Int /\ other.cursor \in Int
         /\ FirstChunk <= current.chunk /\ FirstChunk <= other.chunk
         /\ current.chunk <= current.cursor /\ other.chunk <= other.cursor
         /\ current.cursor <= HandleCell /\ other.cursor <= HandleCell
         /\ current.cursor <= current.chunk + ChunkWords + 1
         /\ other.cursor <= other.chunk + ChunkWords + 1
         /\ other.cursor - other.chunk <= current.cursor - current.chunk
         /\ \/ current.chunk + ChunkWords + 1 <= other.chunk
            \/ other.chunk + ChunkWords + 1 <= current.chunk
<1>1. /\ current \in Space /\ other \in Space
      /\ current.chunk \in Chunk /\ other.chunk \in Chunk
      /\ current.chunk # other.chunk
      /\ current.cursor \in Int /\ other.cursor \in Int
  <2>1. \A c \in Chunk : c \in Int
    BY Places
  <2> QED BY <2>1 DEF InvHeap, InvTypes, Space
<1>2. current.chunk \in Int /\ other.chunk \in Int
  BY <1>1, Places
<1>3. Layout(current) /\ Layout(other) /\ current.cursor <= current.chunk + ChunkWords + 1
  BY <1>2, Places DEF InvHeap, InvLayout
<1>4. current.chunk <= current.cursor /\ other.chunk <= other.cursor
  BY <1>1, <1>3, LayoutFacts
<1>5. other.cursor - other.chunk <= current.cursor - current.chunk
  BY <1>1, <1>3, RoomForCopy DEF InvHeap, InvRoom
<1>6. other.cursor <= other.chunk + ChunkWords + 1
  BY <1>1, <1>2, <1>3, <1>5, Places
<1>7. /\ FirstChunk <= current.chunk /\ FirstChunk <= other.chunk
      /\ current.cursor <= HandleCell /\ other.cursor <= HandleCell
      /\ \/ current.chunk + ChunkWords + 1 <= other.chunk
         \/ other.chunk + ChunkWords + 1 <= current.chunk
  BY <1>1, <1>2, <1>3, <1>6, Places
<1> QED BY <1>1, <1>2, <1>3, <1>4, <1>5, <1>6, <1>7

(* Objects, headers and bodies are apart from each other and from the rest. *)
LEMMA Regions ==
  ASSUME InvHeap
  PROVE  /\ \A o \in AllObjects :
              /\ o \in Int /\ InHeap(o) /\ InHeap(o - 1) /\ InHeap(o - 2)
              /\ o + 1 \in Bodies(current) \cup Bodies(other)
              /\ o \in Bodies(current) \cup Bodies(other)
         /\ \A l \in Bodies(current) \cup Bodies(other) : l \in Int /\ InHeap(l)
         /\ \A l \in Bodies(current) \cup Bodies(other), o \in AllObjects : l # o - 1 /\ l # o - 2
         /\ \A o \in Objects(current) : o \notin Objects(other)
         /\ \A l \in Bodies(current) : l \notin Bodies(other)
         /\ \A o \in Objects(current) :
              /\ o + 1 \in Bodies(current)
              /\ current.chunk + 2 <= o /\ o < current.chunk + ChunkWords
         /\ \A o \in Objects(other) :
              /\ o + 1 \in Bodies(other)
              /\ other.chunk + 2 <= o /\ o < other.chunk + ChunkWords
<1>1. /\ current \in Space /\ other \in Space
      /\ Layout(current) /\ Layout(other)
  BY Chunks
<1> DEFINE lowC == current.chunk
           highC == current.cursor
           lowO == other.chunk
           highO == other.cursor
<1>2. /\ lowC \in Int /\ highC \in Int /\ lowO \in Int /\ highO \in Int
      /\ FirstChunk <= lowC /\ FirstChunk <= lowO
      /\ highC <= HandleCell /\ highO <= HandleCell
      /\ highC <= lowC + ChunkWords + 1
      /\ highO <= lowO + ChunkWords + 1
      /\ lowC + ChunkWords + 1 <= lowO \/ lowO + ChunkWords + 1 <= lowC
  BY Chunks
<1>3. /\ \A o \in Objects(current) : o \in Int /\ lowC + 2 <= o /\ o + 2 <= highC
      /\ \A l \in Bodies(current) : l \in Int /\ lowC + 2 <= l /\ l < highC
      /\ \A l \in Bodies(current), o \in Objects(current) : l # o - 1 /\ l # o - 2
      /\ \A o \in Objects(current) : o \in Bodies(current) /\ o + 1 \in Bodies(current)
  BY <1>1, LayoutFacts
<1>4. /\ \A o \in Objects(other) : o \in Int /\ lowO + 2 <= o /\ o + 2 <= highO
      /\ \A l \in Bodies(other) : l \in Int /\ lowO + 2 <= l /\ l < highO
      /\ \A l \in Bodies(other), o \in Objects(other) : l # o - 1 /\ l # o - 2
      /\ \A o \in Objects(other) : o \in Bodies(other) /\ o + 1 \in Bodies(other)
  BY <1>1, LayoutFacts
<1> HIDE DEF lowC, highC, lowO, highO
<1>5. ChunkWords \in Nat /\ FirstChunk \in Int /\ HandleCell \in Int
  BY Places
<1>6. \A o \in Objects(current) : o < lowC + ChunkWords
  BY <1>2, <1>3, <1>5
<1>7. \A o \in Objects(other) : o < lowO + ChunkWords
  BY <1>2, <1>4, <1>5
<1>8. \A o \in Objects(current) : o \notin Objects(other)
  BY <1>2, <1>3, <1>4, <1>5
<1>9. \A l \in Bodies(current) : l \notin Bodies(other)
  BY <1>2, <1>3, <1>4, <1>5
<1>10. \A l \in Bodies(current) \cup Bodies(other) : l \in Int /\ InHeap(l)
  BY <1>2, <1>3, <1>4, <1>5 DEF InHeap
<1>11. \A o \in AllObjects : o \in Int /\ InHeap(o) /\ InHeap(o - 1) /\ InHeap(o - 2)
  BY <1>2, <1>3, <1>4, <1>5 DEF InHeap, AllObjects
<1>12. \A l \in Bodies(current), o \in Objects(other) : l # o - 1 /\ l # o - 2
  BY <1>2, <1>3, <1>4, <1>5
<1>13. \A l \in Bodies(other), o \in Objects(current) : l # o - 1 /\ l # o - 2
  BY <1>2, <1>3, <1>4, <1>5
<1>14. \A l \in Bodies(current) \cup Bodies(other), o \in AllObjects : l # o - 1 /\ l # o - 2
  BY <1>3, <1>4, <1>12, <1>13 DEF AllObjects
<1>15. \A o \in AllObjects : /\ o + 1 \in Bodies(current) \cup Bodies(other)
                             /\ o \in Bodies(current) \cup Bodies(other)
  BY <1>3, <1>4 DEF AllObjects
<1>16. \A o \in Objects(current) : lowC + 2 <= o /\ o + 1 \in Bodies(current)
  BY <1>3
<1>17. \A o \in Objects(other) : lowO + 2 <= o /\ o + 1 \in Bodies(other)
  BY <1>4
<1> QED BY <1>6, <1>7, <1>8, <1>9, <1>10, <1>11, <1>14, <1>15, <1>16, <1>17
        DEF lowC, lowO

(* The frames cover the stack, above the heap and the handle.               *)
LEMMA StackFacts ==
  ASSUME InvHeap
  PROVE  /\ Len(frames) \in Nat /\ 1 \in 1 .. Len(frames) /\ Len(frames) \in 1 .. Len(frames)
         /\ frames[1] = StackHigh
         /\ \A i \in 1 .. Len(frames) :
              /\ frames[i] \in Int /\ StackHigh <= frames[i]
              /\ SpillCount(frames[i]) \in 1 .. MaxSpills
              /\ LastWord(frames[i]) \in Int
              /\ frames[i] < LastWord(frames[i])
              /\ LastWord(frames[i]) < StackEnd
              /\ LastWord(frames[i]) <= LastWord(Top)
              /\ frames[i] \in Stack
         /\ Top \in Int /\ LastWord(Top) \in Int
         /\ \A l \in Stack : l \in Int /\ HandleCell < l /\ ~InHeap(l) /\ l \in Address
         /\ \A l : InHeap(l) /\ l \in Int => l \in Address
         /\ HandleCell \in Address /\ HandleCell \notin Stack /\ ~InHeap(HandleCell)
<1> DEFINE n == Len(frames)
           at(i) == frames[i]
           last(i) == LastWord(frames[i])
           spills(i) == SpillCount(frames[i])
<1>1. n \in Nat /\ n # 0 /\ \A i \in 1 .. n : at(i) \in Int
  BY DEF InvHeap, InvTypes
<1>2. \A i \in 1 .. n : StackHigh <= at(i) /\ spills(i) \in 1 .. MaxSpills /\ last(i) < StackEnd
  BY DEF InvHeap, InvFrames, IsFrame
<1>3. \A i \in 1 .. n : last(i) = at(i) + spills(i) + PushedRegisters
  BY DEF LastWord
<1>4. \A i, j \in 1 .. n : i < j => last(i) < at(j)
  BY DEF InvHeap, InvFrames
<1>5. Top = at(n) /\ LastWord(Top) = last(n)
  BY DEF Top
<1>6. at(1) = StackHigh
  BY DEF InvHeap, InvFrames
<1> HIDE DEF n, at, last, spills
<1>7. /\ PushedRegisters \in Nat \ {0} /\ MaxSpills \in Int /\ StackHigh \in Int /\ StackEnd \in Int
      /\ HandleCell \in Int /\ StackHigh = HandleCell + 1 /\ FirstChunk \in Int
      /\ FirstChunk <= HandleCell
  BY Places
<1>8. \A i \in 1 .. n : last(i) \in Int /\ at(i) < last(i)
  BY <1>1, <1>2, <1>3, <1>7
<1>9. n \in 1 .. n /\ 1 \in 1 .. n
  BY <1>1
<1>10. \A i \in 1 .. n : last(i) <= last(n)
  <2> TAKE i \in 1 .. n
  <2>1. CASE i = n
    BY <2>1, <1>8, <1>9
  <2>2. CASE i < n
    <3>1. last(i) < at(n) /\ at(n) < last(n)
      BY <2>2, <1>4, <1>8, <1>9
    <3> QED BY <3>1, <1>1, <1>8, <1>9
  <2> QED BY <2>1, <2>2, <1>1
<1>11. Stack = StackHigh .. last(n)
  BY <1>5 DEF Stack
<1>12. \A i \in 1 .. n : at(i) \in Stack
  <2> TAKE i \in 1 .. n
  <2>1. StackHigh <= at(i) /\ at(i) \in Int /\ at(i) < last(i) /\ last(i) <= last(n)
        /\ last(i) \in Int /\ last(n) \in Int
    BY <1>1, <1>2, <1>8, <1>9, <1>10
  <2> QED BY <2>1, <1>7, <1>11
<1>13. \A l \in Stack : l \in Int /\ HandleCell < l /\ ~InHeap(l) /\ l \in Address
  <2>1. last(n) \in Int /\ last(n) < StackEnd
    BY <1>2, <1>8, <1>9
  <2> TAKE l \in Stack
  <2>2. l \in Int /\ HandleCell < l /\ FirstChunk <= l /\ l < StackEnd
    BY <2>1, <1>7, <1>11
  <2>3. l \in Address
    BY <2>2, Places
  <2> QED BY <2>2, <2>3, <1>7 DEF InHeap
<1>14. \A l : InHeap(l) /\ l \in Int => l \in Address
  BY Places DEF InHeap
<1>15. HandleCell \in Address /\ HandleCell \notin Stack /\ ~InHeap(HandleCell)
  BY <1>7, <1>13, Places DEF InHeap
<1>16. Top \in Int /\ LastWord(Top) \in Int
  BY <1>1, <1>5, <1>8, <1>9
<1>17. \A i \in 1 .. n : /\ at(i) \in Int /\ StackHigh <= at(i)
                         /\ spills(i) \in 1 .. MaxSpills
                         /\ last(i) \in Int
                         /\ at(i) < last(i)
                         /\ last(i) < StackEnd
                         /\ last(i) <= LastWord(Top)
                         /\ at(i) \in Stack
  BY <1>1, <1>2, <1>5, <1>8, <1>10, <1>12
<1> QED BY <1>1, <1>6, <1>9, <1>13, <1>14, <1>15, <1>16, <1>17 DEF n, at, last, spills

(* What the roots and the bodies are, and that all their words are integers. *)
LEMMA Words ==
  ASSUME InvHeap
  PROVE  /\ \A l \in Roots \cup Bodies(current) \cup Bodies(other) : l \in Address
         /\ \A l \in Roots : l \in Stack \/ (l = HandleCell /\ HandleCell \in handles)
         /\ \A l \in Stack : l \in Roots
         /\ \A l \in Roots : l \notin Bodies(current) /\ l \notin Bodies(other)
         /\ \A o \in AllObjects : o \in Address /\ o - 1 \in Address /\ o - 2 \in Address
                                  /\ o + 1 \in Address
         /\ \A a \in Address : mem[a] \in Int /\ UntagPointer(mem[a]) \in Int
<1>1. \A l \in Roots : l \in Stack \/ (l = HandleCell /\ HandleCell \in handles)
  BY DEF InvHeap, InvTypes, Roots, Stack
<1>2. \A l \in Stack : l \in Roots
  BY DEF Roots, Stack
<1>3. \A l \in Bodies(current) \cup Bodies(other) : l \in Int /\ InHeap(l) /\ l \in Address
  BY Regions, StackFacts
<1>4. \A l \in Roots : l \in Address /\ ~InHeap(l)
  BY <1>1, StackFacts
<1>5. \A l \in Roots : l \notin Bodies(current) /\ l \notin Bodies(other)
  BY <1>3, <1>4
<1>6. \A o \in AllObjects : o \in Address /\ o - 1 \in Address /\ o - 2 \in Address
                            /\ o + 1 \in Address
  <2> TAKE o \in AllObjects
  <2>1. o \in Int /\ InHeap(o) /\ InHeap(o - 1) /\ InHeap(o - 2) /\ o + 1 \in Address
    BY <1>3, Regions
  <2>2. o - 1 \in Int /\ o - 2 \in Int
    BY <2>1
  <2> QED BY <2>1, <2>2, StackFacts
<1>7. \A a \in Address : mem[a] \in Int
  BY DEF InvHeap, InvTypes
<1>8. \A w \in Int : UntagPointer(w) \in Int
  BY DEF UntagPointer, INT_SIZE, PTR_TAG
<1> QED BY <1>1, <1>2, <1>3, <1>4, <1>5, <1>6, <1>7, <1>8

(* A step after which every frame still has a context that knows the same   *)
(* number of spills keeps the frames, and the extent of the stack.          *)
LEMMA FramesKept ==
  ASSUME InvHeap, frames' = frames,
         \A i \in 1 .. Len(frames) :
           LET w == mem'[frames[i]]
           IN /\ HasPointerTag(w)
              /\ UntagPointer(w) \in AllObjects'
              /\ identity'[UntagPointer(w)].kind \in {"main", "context"}
              /\ mem'[UntagPointer(w) + SPILL_COUNT] = SpillCount(frames[i])
  PROVE  /\ InvFrames'
         /\ Stack' = Stack /\ Top' = Top /\ LastWord(Top)' = LastWord(Top)
         /\ \A i \in 1 .. Len(frames) : LastWord(frames[i])' = LastWord(frames[i])
<1>1. \A i \in 1 .. Len(frames) : SpillCount(frames[i])' = SpillCount(frames[i])
  BY DEF SpillCount, FunctionContext
<1>2. \A i \in 1 .. Len(frames) : LastWord(frames[i])' = LastWord(frames[i])
  BY <1>1 DEF LastWord
<1>3. Top' = Top
  BY DEF Top
<1>4. LastWord(Top)' = LastWord(Top)
  BY <1>2, <1>3, StackFacts DEF Top
<1>5. Stack' = Stack
  BY <1>4 DEF Stack
<1>6. \A i \in 1 .. Len(frames) : IsFrame(frames[i])
  BY DEF InvHeap, InvFrames
<1>7. ASSUME NEW i \in 1 .. Len(frames) PROVE IsFrame(frames[i])'
  <2>1. IsFrame(frames[i])
    BY <1>6
  <2>2. SpillCount(frames[i])' = SpillCount(frames[i]) /\ LastWord(frames[i])' = LastWord(frames[i])
    BY <1>1, <1>2
  <2>3. HasPointerTag(mem[frames[i]])' /\ (FunctionContext(frames[i]) \in AllObjects)'
        /\ IsContextObject(FunctionContext(frames[i]))'
    BY DEF FunctionContext, IsContextObject
  <2> QED BY <2>1, <2>2, <2>3 DEF IsFrame
<1>8. /\ frames'[1] = StackHigh
      /\ \A i \in 1 .. Len(frames) - 1 : frames[i + 1] = LastWord(frames[i]) + 1
      /\ \A i, j \in 1 .. Len(frames) : i < j => LastWord(frames[i]) < frames[j]
  BY DEF InvHeap, InvFrames
<1>9. \A i \in 1 .. Len(frames) - 1 : i \in 1 .. Len(frames)
  BY StackFacts
<1>10. /\ \A i \in 1 .. Len(frames) : IsFrame(frames[i])'
       /\ \A i \in 1 .. Len(frames) - 1 : (frames[i + 1] = LastWord(frames[i]) + 1)'
       /\ \A i, j \in 1 .. Len(frames) : i < j => (LastWord(frames[i]) < frames[j])'
  BY <1>2, <1>7, <1>8, <1>9
<1>11. InvFrames'
  BY <1>8, <1>10 DEF InvFrames
<1> QED BY <1>2, <1>3, <1>4, <1>5, <1>11

(* A step that leaves memory alone keeps the part about memory.             *)
LEMMA HeapUnchanged ==
  ASSUME InvHeap, UNCHANGED <<mem, current, other, handles, frames, identity>>
  PROVE  /\ InvHeap'
         /\ Stack' = Stack /\ Roots' = Roots /\ Top' = Top
         /\ Bodies(current)' = Bodies(current) /\ Bodies(other)' = Bodies(other)
         /\ Objects(current)' = Objects(current)
         /\ \A l : LastWord(l)' = LastWord(l)
         /\ \A l : Outstanding(l)' <=> Outstanding(l)
<1>1. InvTypes'
  BY DEF InvHeap, InvTypes
<1>2. InvLayout'
  BY DEF InvHeap, InvLayout, Layout, InvHeaders, Objects, Color, Size, End, IsContextObject
<1>3. InvRoom'
  BY DEF InvHeap, InvRoom, MovedWords, Color, End
<1>4. InvIdentity'
  BY DEF InvHeap, InvIdentity, AllObjects, Objects, IsContextObject
<1>5. InvForwarding'
  BY DEF InvHeap, InvForwarding, Objects, Color, Size, IsContextObject
<1>6. InvFrames'
  BY DEF InvHeap, InvFrames, IsFrame, LastWord, SpillCount, FunctionContext, AllObjects, Objects,
         IsContextObject
<1>7. /\ Stack' = Stack /\ Roots' = Roots /\ Top' = Top
      /\ Bodies(current)' = Bodies(current) /\ Bodies(other)' = Bodies(other)
      /\ Objects(current)' = Objects(current) /\ AllObjects' = AllObjects
      /\ \A l : LastWord(l)' = LastWord(l)
      /\ \A l : Outstanding(l)' <=> Outstanding(l)
  BY DEF Stack, Roots, Top, Bodies, Extent, Objects, AllObjects, LastWord, SpillCount,
         FunctionContext, Outstanding, IsInCurrentChunk
<1>8. InvWords'
  BY <1>7 DEF InvHeap, InvWords, PointsTo
<1> QED BY <1>1, <1>2, <1>3, <1>4, <1>5, <1>6, <1>7, <1>8 DEF InvHeap

(* A step that writes one word, which is not a header or the spill count of *)
(* a context, and writes an equivalent context if the word is the base of a *)
(* frame, keeps the part about memory.                                      *)
LEMMA HeapWrite ==
  ASSUME InvHeap,
         NEW l \in Stack \cup {HandleCell} \cup Bodies(current) \cup Bodies(other),
         NEW w \in Int,
         mem' = [mem EXCEPT ![l] = w],
         UNCHANGED <<current, other, frames, identity>>,
         handles' \subseteq {HandleCell},
         l = HandleCell \/ handles' = handles,
         l = HandleCell => HasPointerTag(w),
         PointsTo(w, AllObjects),
         l \in Bodies(current) => PointsTo(w, Objects(current)),
         \A o \in AllObjects : IsContextObject(o) => l # o + SPILL_COUNT,
         \A i \in 1 .. Len(frames) : frames[i] = l =>
           /\ HasPointerTag(w)
           /\ UntagPointer(w) \in AllObjects
           /\ IsContextObject(UntagPointer(w))
           /\ mem[UntagPointer(w) + SPILL_COUNT] = SpillCount(l)
  PROVE  /\ InvHeap'
         /\ \A a \in Address : mem'[a] = IF a = l THEN w ELSE mem[a]
         /\ Stack' = Stack /\ Top' = Top /\ LastWord(Top)' = LastWord(Top)
         /\ Roots' = Stack \cup handles'
         /\ Bodies(current)' = Bodies(current) /\ Bodies(other)' = Bodies(other)
         /\ Objects(current)' = Objects(current)
         /\ \A o \in AllObjects : mem'[o - 1] = mem[o - 1] /\ mem'[o - 2] = mem[o - 2]
         /\ \A i \in 1 .. Len(frames) : LastWord(frames[i])' = LastWord(frames[i])
<1>1. l \in Address
  BY StackFacts, Words
<1>2. mem \in [Address -> Int] /\ mem' \in [Address -> Int]
  BY <1>1 DEF InvHeap, InvTypes
<1>3. \A a \in Address : mem'[a] = IF a = l THEN w ELSE mem[a]
  BY <1>1, <1>2
<1>4. InvTypes'
  BY <1>2 DEF InvHeap, InvTypes
<1>5. /\ Objects(current)' = Objects(current) /\ Objects(other)' = Objects(other)
      /\ AllObjects' = AllObjects
      /\ Bodies(current)' = Bodies(current) /\ Bodies(other)' = Bodies(other)
      /\ Layout(current)' /\ Layout(other)'
      /\ \A i : End(current, i)' = End(current, i)
      /\ \A i : End(other, i)' = End(other, i)
  BY DEF Objects, AllObjects, Bodies, Extent, End, Layout, InvHeap, InvLayout
<1>6. \A o \in AllObjects : l # o - 1 /\ l # o - 2
  <2>1. CASE l \in Bodies(current) \cup Bodies(other)
    BY <2>1, Regions
  <2>2. CASE l \in Stack \cup {HandleCell}
    <3>1. ~InHeap(l)
      BY <2>2, StackFacts
    <3> QED BY <3>1, Regions
  <2> QED BY <2>1, <2>2
<1>7. \A o \in AllObjects : mem'[o - 1] = mem[o - 1] /\ mem'[o - 2] = mem[o - 2]
  BY <1>3, <1>6, Words
<1>8. \A o \in AllObjects : IsContextObject(o) => mem'[o + SPILL_COUNT] = mem[o + SPILL_COUNT]
  BY <1>3, Words DEF SPILL_COUNT
<1>9. /\ \A o \in Objects(current) : o \in AllObjects
      /\ \A o \in Objects(other) : o \in AllObjects
      /\ \A i \in 1 .. Len(current.objects) : current.objects[i] \in Objects(current)
      /\ \A i \in 1 .. Len(other.objects) : other.objects[i] \in Objects(other)
  BY DEF AllObjects, Objects
<1>10. InvHeaders(current)' /\ InvHeaders(other)'
  BY <1>5, <1>7, <1>9 DEF InvHeap, InvLayout, InvHeaders, Color, Size, IsContextObject
<1>11. InvLayout'
  <2>1. \A o \in Objects(other)' : (Color(o) = COLOR_WHITE)'
    BY <1>5, <1>7, <1>9 DEF InvHeap, InvLayout, Color
  <2> QED BY <1>5, <1>10, <2>1 DEF InvHeap, InvLayout
<1>12. InvRoom'
  <2>1. \A i \in 1 .. Len(current.objects) : Color(current.objects[i])' = Color(current.objects[i])
    BY <1>7, <1>9 DEF Color
  <2>2. {j \in 1 .. Len(current.objects) : Color(current.objects[j]) = COLOR_MOVED}'
          = {j \in 1 .. Len(current.objects) : Color(current.objects[j]) = COLOR_MOVED}
    BY <2>1
  <2>3. MovedWords' = MovedWords
    BY <2>2, <1>5 DEF MovedWords
  <2> QED BY <2>3 DEF InvHeap, InvRoom
<1>13. InvIdentity'
  BY <1>5, <1>8 DEF InvHeap, InvIdentity, IsContextObject
<1>14. InvForwarding'
  <2> SUFFICES ASSUME NEW o \in Objects(current), Color(o)' = COLOR_MOVED
               PROVE  /\ Size(o)' \in Objects(other)
                      /\ identity[Size(o)'] = identity[o]
                      /\ IsContextObject(o) => mem'[Size(o)' + SPILL_COUNT] = mem'[o + SPILL_COUNT]
    BY <1>5 DEF InvForwarding, IsContextObject, Size
  <2>1. Color(o) = COLOR_MOVED /\ Size(o)' = Size(o)
    BY <1>7, <1>9 DEF Color, Size
  <2>2. /\ Size(o) \in Objects(other)
        /\ identity[Size(o)] = identity[o]
        /\ IsContextObject(o) => mem[Size(o) + SPILL_COUNT] = mem[o + SPILL_COUNT]
    BY <2>1 DEF InvHeap, InvForwarding
  <2>3. ASSUME IsContextObject(o) PROVE mem'[Size(o) + SPILL_COUNT] = mem'[o + SPILL_COUNT]
    <3>1. IsContextObject(Size(o))
      BY <2>2, <2>3 DEF IsContextObject
    <3> QED BY <2>2, <2>3, <3>1, <1>8, <1>9
  <2> QED BY <2>1, <2>2, <2>3
<1>15. ASSUME NEW i \in 1 .. Len(frames)
       PROVE  /\ HasPointerTag(mem'[frames[i]])
              /\ UntagPointer(mem'[frames[i]]) \in AllObjects'
              /\ identity'[UntagPointer(mem'[frames[i]])].kind \in {"main", "context"}
              /\ mem'[UntagPointer(mem'[frames[i]]) + SPILL_COUNT] = SpillCount(frames[i])
  <2>1. frames[i] \in Address
    BY StackFacts
  <2>2. CASE frames[i] = l
    <3>1. mem'[frames[i]] = w
      BY <2>1, <2>2, <1>3
    <3>2. /\ HasPointerTag(w)
          /\ UntagPointer(w) \in AllObjects
          /\ IsContextObject(UntagPointer(w))
          /\ mem[UntagPointer(w) + SPILL_COUNT] = SpillCount(frames[i])
      BY <2>2
    <3> QED BY <3>1, <3>2, <1>5, <1>8 DEF IsContextObject
  <2>3. CASE frames[i] # l
    <3>1. mem'[frames[i]] = mem[frames[i]]
      BY <2>1, <2>3, <1>3
    <3>2. /\ HasPointerTag(mem[frames[i]])
          /\ UntagPointer(mem[frames[i]]) \in AllObjects
          /\ IsContextObject(UntagPointer(mem[frames[i]]))
      BY DEF InvHeap, InvFrames, IsFrame, FunctionContext
    <3> QED BY <3>1, <3>2, <1>5, <1>8 DEF IsContextObject, SpillCount, FunctionContext
  <2> QED BY <2>2, <2>3
<1>16. /\ InvFrames'
       /\ Stack' = Stack /\ Top' = Top /\ LastWord(Top)' = LastWord(Top)
       /\ \A i \in 1 .. Len(frames) : LastWord(frames[i])' = LastWord(frames[i])
  BY <1>15, FramesKept
<1>17. Roots' = Stack \cup handles'
  BY <1>16 DEF Roots, Stack
<1>18. InvWords'
  <2>1. Roots = Stack \cup handles
    BY DEF Roots, Stack
  <2>2. \A x \in Roots' \cup Bodies(other) : x # l => x \in Roots \cup Bodies(other)
    BY <2>1, <1>17
  <2>3. ASSUME NEW x \in Roots' \cup Bodies(other) PROVE PointsTo(mem'[x], AllObjects)
    <3>1. CASE x = l
      BY <3>1, <1>1, <1>3
    <3>2. CASE x # l
      <4>1. x \in Address /\ PointsTo(mem[x], AllObjects)
        BY <3>2, <2>2, Words DEF InvHeap, InvWords
      <4> QED BY <4>1, <3>2, <1>3
    <3> QED BY <3>1, <3>2
  <2>4. ASSUME NEW x \in Bodies(current) PROVE PointsTo(mem'[x], Objects(current))
    <3>1. x \in Address /\ PointsTo(mem[x], Objects(current))
      BY Words DEF InvHeap, InvWords
    <3> QED BY <3>1, <1>3
  <2>5. HandleCell \in handles' => HasPointerTag(mem'[HandleCell])
    BY <1>3, StackFacts DEF InvHeap, InvWords
  <2> QED BY <2>3, <2>4, <2>5, <1>5 DEF InvWords, PointsTo
<1> QED BY <1>3, <1>4, <1>5, <1>7, <1>11, <1>12, <1>13, <1>14, <1>16, <1>17, <1>18 DEF InvHeap

(* While no collection runs there is nothing to keep track of.              *)
LEMMA NotCollecting ==
  ASSUME pc' \in {"program", "allocate", "out_of_memory"}, ptrs' = <<>>, scan' = NoScan
  PROVE  InvPointers' /\ InvWalk' /\ InvScan' /\ InvWorklist'
<1>1. InvPointers'
  BY DEF InvPointers, Collecting
<1> QED BY <1>1 DEF InvWalk, InvScan, InvWorklist

(* A collection starts with the top frame, having visited nothing.          *)
LEMMA CollectionStarts ==
  ASSUME InvHeap, pc' = "walk", ptrs' = <<>>, scan' = NoScan,
         walk' = [frame |-> Len(frames), p |-> Top],
         frames' = frames, Top' = Top, LastWord(Top)' = LastWord(Top), Stack' = Stack
  PROVE  InvPointers' /\ InvWalk' /\ InvScan' /\ InvWorklist'
<1>1. /\ Len(frames) \in 1 .. Len(frames) /\ Top \in Int /\ LastWord(Top) \in Int
      /\ Top < LastWord(Top) /\ \A l \in Stack : l \in Int
      /\ Top = frames[Len(frames)]
  BY StackFacts DEF Top
<1>2. InvPointers'
  BY DEF InvPointers, Collecting
<1>3. InvWalk'
  BY <1>1 DEF InvWalk, Top
<1>4. InvScan'
  BY DEF InvScan
<1>5. InvWorklist'
  <2>1. \A l \in Stack : l <= LastWord(Top)
    BY <1>1, Places DEF Stack
  <2>2. \A l \in Stack : ~Visited(l)'
    <3> TAKE l \in Stack
    <3>1. /\ frames'[walk'.frame] = Top /\ walk'.p = Top
          /\ LastWord(frames[walk.frame])' = LastWord(Top)
      BY <1>1 DEF Top
    <3>2. ~(Top <= l /\ l < Top) /\ ~(LastWord(Top) < l)
      BY <1>1, <2>1
    <3> QED BY <3>1, <3>2 DEF Visited
  <2> QED BY <2>2 DEF InvWorklist
<1> QED BY <1>2, <1>3, <1>4, <1>5

(* The stack of pointers stays in order when nothing, one entry more or one *)
(* entry less is on it.                                                     *)
Entries == {ptrs[i] : i \in 1 .. Len(ptrs)}

(* What it takes for an entry to be up to date after a step.                *)
LEMMA EntryIsUpToDate ==
  ASSUME NEW l, NEW p,
         l \in Roots' \cup Bodies(other)', HasPointerTag(mem'[l]), UntagPointer(mem'[l]) = p,
         l \in Bodies(other)' => IsInCurrentChunk(mem[l])',
         pc' \in {"walk", "handles"} => l \in Stack',
         pc' = "walk" => Visited(l)'
  PROVE  UpToDate(<<l, p>>)'
BY DEF UpToDate

(* An entry stays up to date when neither memory nor the roots change.      *)
LEMMA EntryStaysUpToDate ==
  ASSUME NEW e, UpToDate(e), mem' = mem, current' = current,
         Roots' = Roots, Bodies(other)' = Bodies(other), Stack' = Stack,
         pc' \in {"walk", "handles"} => e[1] \in Stack,
         pc' = "walk" => Visited(e[1])'
  PROVE  UpToDate(e)'
BY DEF UpToDate, IsInCurrentChunk

(* The stack of pointers is left alone.                                     *)
LEMMA NothingPushed ==
  ASSUME InvPointers, ptrs' = ptrs, Collecting',
         \A e \in Entries : UpToDate(e)'
  PROVE  InvPointers' /\ \A l : Pending(l)' <=> Pending(l)
<1>1. \A l : Pending(l)' <=> Pending(l)
  BY DEF Pending
<1>2. \A i \in 1 .. Len(ptrs') : UpToDate(ptrs[i])'
  <2>1. \A i \in 1 .. Len(ptrs') : ptrs'[i] \in Entries
    BY DEF Entries
  <2> QED BY <2>1 DEF UpToDate
<1> QED BY <1>1, <1>2 DEF InvPointers

(* An entry for a location that is not on the stack yet is pushed.          *)
LEMMA OnePushed ==
  ASSUME InvPointers, NEW l \in Int, NEW p \in Int,
         ptrs' = Append(ptrs, <<l, p>>), Collecting',
         \A e \in Entries : UpToDate(e)' /\ e[1] # l,
         UpToDate(<<l, p>>)'
  PROVE  InvPointers' /\ \A x : Pending(x)' <=> Pending(x) \/ x = l
<1> DEFINE n == Len(ptrs)
           location(i) == ptrs[i][1]
           newLocation(i) == ptrs'[i][1]
<1>1. ptrs \in Seq(Int \X Int) /\ n \in Nat
  BY DEF InvPointers
<1>2. /\ ptrs' \in Seq(Int \X Int) /\ Len(ptrs') = n + 1
      /\ \A i \in 1 .. n : ptrs'[i] = ptrs[i]
      /\ ptrs'[n + 1] = <<l, p>>
  BY <1>1
<1>3. \A i \in 1 .. n : ptrs[i] \in Entries
  BY DEF Entries
<1>4. /\ \A i \in 1 .. n : newLocation(i) = location(i)
      /\ newLocation(n + 1) = l
  BY <1>2
<1>5. \A i \in 1 .. n : location(i) # l
  BY <1>3
<1>6. \A i, j \in 1 .. n : i # j => location(i) # location(j)
  BY DEF InvPointers
<1>7. /\ \A x : Pending(x) <=> \E i \in 1 .. n : location(i) = x
      /\ \A x : Pending(x)' <=> \E i \in 1 .. n + 1 : newLocation(i) = x
  BY <1>2 DEF Pending
<1> HIDE DEF n, location, newLocation
<1>8. /\ \A i \in 1 .. n + 1 : i \in 1 .. n \/ i = n + 1
      /\ \A i \in 1 .. n : i \in 1 .. n + 1
      /\ n + 1 \in 1 .. n + 1
  BY <1>1
<1>9. ASSUME NEW i \in 1 .. n + 1 PROVE UpToDate(ptrs[i])'
  <2>1. CASE i \in 1 .. n
    BY <2>1, <1>2, <1>3 DEF UpToDate
  <2>2. CASE i = n + 1
    BY <2>2, <1>2 DEF UpToDate
  <2> QED BY <2>1, <2>2, <1>8
<1>10. \A i, j \in 1 .. n + 1 : i # j => newLocation(i) # newLocation(j)
  BY <1>4, <1>5, <1>6, <1>8
<1>11. InvPointers'
  BY <1>2, <1>9, <1>10 DEF InvPointers, newLocation
<1>12. \A x : Pending(x)' <=> Pending(x) \/ x = l
  BY <1>4, <1>7, <1>8
<1> QED BY <1>11, <1>12

(* The last entry is taken off, and only its location may be out of date.   *)
LEMMA OnePopped ==
  ASSUME InvPointers, ptrs # <<>>, ptrs' = Pop, Collecting',
         \A e \in Entries : e[1] # Location => UpToDate(e)'
  PROVE  /\ InvPointers'
         /\ \A l : Pending(l) => Pending(l)' \/ l = Location
         /\ \A l : Pending(l)' => Pending(l) /\ l # Location
<1> DEFINE n == Len(ptrs)
           location(i) == ptrs[i][1]
           newLocation(i) == ptrs'[i][1]
<1>1. ptrs \in Seq(Int \X Int) /\ n \in Nat /\ n > 0
  BY DEF InvPointers
<1>2. /\ ptrs' \in Seq(Int \X Int) /\ Len(ptrs') = n - 1
      /\ \A i \in 1 .. n - 1 : ptrs'[i] = ptrs[i]
  <2>1. /\ SubSeq(ptrs, 1, n - 1) \in Seq(Int \X Int)
        /\ Len(SubSeq(ptrs, 1, n - 1)) = n - 1
        /\ \A i \in 1 .. n - 1 : SubSeq(ptrs, 1, n - 1)[i] = ptrs[i]
    <3> DEFINE m == n - 1
    <3>1. m \in Int /\ m >= 0 /\ \A i \in 1 .. m : ptrs[i] \in Int \X Int
      BY <1>1
    <3> HIDE DEF n, m
    <3>2. /\ SubSeq(ptrs, 1, m) \in Seq(Int \X Int)
          /\ Len(SubSeq(ptrs, 1, m)) = IF 1 <= m THEN m - 1 + 1 ELSE 0
          /\ \A i \in 1 .. m - 1 + 1 : SubSeq(ptrs, 1, m)[i] = ptrs[1 + i - 1]
      BY <3>1, SubSeqProperties
    <3>3. \A i \in 1 .. m : ptrs[1 + i - 1] = ptrs[i] /\ i \in 1 .. m - 1 + 1
      BY <3>1
    <3>4. Len(SubSeq(ptrs, 1, m)) = m /\ \A i \in 1 .. m : SubSeq(ptrs, 1, m)[i] = ptrs[i]
      BY <3>1, <3>2, <3>3
    <3> QED BY <3>2, <3>4 DEF m
  <2> QED BY <2>1 DEF Pop
<1>3. Location = location(n)
  BY DEF Location, Last
<1>4. /\ \A i \in 1 .. n - 1 : newLocation(i) = location(i)
      /\ \A i, j \in 1 .. n : i # j => location(i) # location(j)
  BY <1>2 DEF InvPointers
<1>5. /\ \A l : Pending(l) <=> \E i \in 1 .. n : location(i) = l
      /\ \A l : Pending(l)' <=> \E i \in 1 .. n - 1 : newLocation(i) = l
  BY <1>2 DEF Pending
<1>6. \A i \in 1 .. n - 1 : UpToDate(ptrs[i])'
  <2> TAKE i \in 1 .. n - 1
  <2>1. i \in 1 .. n /\ i # n /\ n \in 1 .. n
    BY <1>1
  <2>2. ptrs[i] \in Entries /\ ptrs[i][1] # Location
    BY <2>1, <1>3, <1>4 DEF Entries
  <2> QED BY <2>2, <1>2 DEF UpToDate
<1> HIDE DEF n, location, newLocation
<1>7. /\ \A i \in 1 .. n : i \in 1 .. n - 1 \/ i = n
      /\ \A i \in 1 .. n - 1 : i \in 1 .. n /\ i # n
      /\ n \in 1 .. n
  BY <1>1
<1>8. \A i, j \in 1 .. n - 1 : i # j => newLocation(i) # newLocation(j)
  BY <1>4, <1>7
<1>9. InvPointers'
  BY <1>2, <1>6, <1>8 DEF InvPointers, newLocation
<1>10. \A l : Pending(l) => Pending(l)' \/ l = Location
  BY <1>3, <1>4, <1>5, <1>7
<1>11. \A l : Pending(l)' => Pending(l) /\ l # Location
  BY <1>3, <1>4, <1>5, <1>7
<1> QED BY <1>9, <1>10, <1>11

(* The test for the current chunk, made on tagged words and on addresses,   *)
(* tells the objects of the two chunks apart.                               *)
LEMMA InChunk ==
  ASSUME InvHeap
  PROVE  /\ \A w \in Int : HasPointerTag(w) /\ IsInCurrentChunk(w) =>
              InHeap(UntagPointer(w)) /\ UntagPointer(w) \notin Objects(other)
         /\ \A a \in Int : IsInCurrentChunk(INT_SIZE * a) => InHeap(a) /\ a \notin Objects(other)
         /\ \A w \in Int : HasPointerTag(w) /\ UntagPointer(w) \in Objects(current) =>
              IsInCurrentChunk(w) /\ IsInCurrentChunk(INT_SIZE * UntagPointer(w))
         /\ \A w \in Int : HasPointerTag(w) /\ UntagPointer(w) \in Objects(other) =>
              ~IsInCurrentChunk(w)
<1> DEFINE low == current.chunk
           lowO == other.chunk
<1>1. /\ low \in Int /\ lowO \in Int /\ FirstChunk <= low
      /\ low + ChunkWords + 1 <= lowO \/ lowO + ChunkWords + 1 <= low
  BY Chunks
<1>2. /\ ChunkWords \in Nat /\ FirstChunk \in Int /\ HandleCell \in Int
      /\ low + ChunkWords + 1 <= HandleCell
      /\ ChunkEnd(low) = low + ChunkWords
  <2>1. low \in Chunk
    BY DEF InvHeap, InvTypes
  <2> QED BY <2>1, <1>1, Places
<1>3. \A o \in Objects(current) : o \in Int /\ low + 2 <= o /\ o < low + ChunkWords
  BY Regions DEF AllObjects
<1>4. \A o \in Objects(other) : o \in Int /\ lowO + 2 <= o /\ o < lowO + ChunkWords
  BY Regions DEF AllObjects
<1>5. \A p : IsInCurrentChunk(p) <=> p > 4 * low /\ p < 4 * (low + ChunkWords)
  BY <1>2 DEF IsInCurrentChunk, INT_SIZE
<1> HIDE DEF low, lowO
<1>6. \A w \in Int : HasPointerTag(w) =>
        /\ UntagPointer(w) \in Int
        /\ 4 * UntagPointer(w) + 1 <= w /\ w <= 4 * UntagPointer(w) + 3
  BY DEF HasPointerTag, UntagPointer, INT_SIZE, PTR_TAG
<1>7. ASSUME NEW w \in Int, HasPointerTag(w)
      PROVE  /\ IsInCurrentChunk(w) => low <= UntagPointer(w) /\ UntagPointer(w) < low + ChunkWords
             /\ low <= UntagPointer(w) /\ UntagPointer(w) < low + ChunkWords => IsInCurrentChunk(w)
  <2> DEFINE a == UntagPointer(w)
  <2>1. a \in Int /\ 4 * a + 1 <= w /\ w <= 4 * a + 3
    BY <1>6, <1>7
  <2> HIDE DEF a
  <2>2. w > 4 * low /\ w < 4 * (low + ChunkWords) => low <= a /\ a < low + ChunkWords
    BY <2>1, <1>1, <1>2
  <2>3. low <= a /\ a < low + ChunkWords => w > 4 * low /\ w < 4 * (low + ChunkWords)
    BY <2>1, <1>1, <1>2
  <2> QED BY <2>2, <2>3, <1>5 DEF a
<1>8. ASSUME NEW a \in Int
      PROVE  /\ IsInCurrentChunk(INT_SIZE * a) => low <= a /\ a < low + ChunkWords
             /\ low < a /\ a < low + ChunkWords => IsInCurrentChunk(INT_SIZE * a)
  <2>1. IsInCurrentChunk(4 * a) <=> 4 * a > 4 * low /\ 4 * a < 4 * (low + ChunkWords)
    BY <1>5
  <2>2. INT_SIZE * a = 4 * a
    BY DEF INT_SIZE
  <2> QED BY <2>1, <2>2, <1>1, <1>2
<1>9. \A a \in Int : low <= a /\ a < low + ChunkWords => InHeap(a) /\ a \notin Objects(other)
  BY <1>1, <1>2, <1>4 DEF InHeap
<1>10. \A w \in Int : HasPointerTag(w) /\ IsInCurrentChunk(w) =>
         InHeap(UntagPointer(w)) /\ UntagPointer(w) \notin Objects(other)
  BY <1>6, <1>7, <1>9
<1>11. \A a \in Int : IsInCurrentChunk(INT_SIZE * a) => InHeap(a) /\ a \notin Objects(other)
  BY <1>8, <1>9
<1>12. \A w \in Int : HasPointerTag(w) /\ UntagPointer(w) \in Objects(current) =>
         IsInCurrentChunk(w) /\ IsInCurrentChunk(INT_SIZE * UntagPointer(w))
  <2> SUFFICES ASSUME NEW w \in Int, HasPointerTag(w), UntagPointer(w) \in Objects(current)
               PROVE  IsInCurrentChunk(w) /\ IsInCurrentChunk(INT_SIZE * UntagPointer(w))
    OBVIOUS
  <2>1. /\ UntagPointer(w) \in Int /\ low <= UntagPointer(w) /\ low < UntagPointer(w)
        /\ UntagPointer(w) < low + ChunkWords
    BY <1>1, <1>3
  <2> QED BY <2>1, <1>7, <1>8
<1> QED BY <1>10, <1>11, <1>12

-----------------------------------------------------------------------------
(* What copying an object, a new object and the end of a collection do to   *)
(* the part of the invariant that is about memory.                          *)

(* An object that has not been moved knows its size, and there is room for  *)
(* it in the other chunk.                                                   *)
LEMMA ObjectToCopy ==
  ASSUME InvHeap, NEW o \in Objects(current), Color(o) # COLOR_MOVED
  PROVE  /\ o \in Int
         /\ Color(o) = COLOR_WHITE
         /\ Size(o) \in Int /\ Size(o) >= 2
         /\ \A k \in 1 .. Len(current.objects) :
              current.objects[k] = o => End(current, k) = o + Size(o)
         /\ IsContextObject(o) => Size(o) = ContextWords
         /\ \A j \in 0 .. Size(o) - 1 : o + j \in Bodies(current)
         /\ other.cursor + Size(o) + 2 <= other.chunk + ChunkWords + 1
         /\ Cardinality(MovedWords \cup (o - 2 .. o + Size(o) - 1))
              = other.cursor - other.chunk + Size(o) + 2
<1>1. /\ current \in Space /\ Layout(current) /\ other.cursor \in Int /\ other.chunk \in Int
      /\ current.cursor \in Int /\ current.chunk \in Int
      /\ current.cursor <= current.chunk + ChunkWords + 1
      /\ ChunkWords \in Int
  BY Chunks, Places
<1>2. PICK k \in 1 .. Len(current.objects) : o = current.objects[k]
  BY DEF Objects
<1>3. o \in Int /\ End(current, k) \in Int /\ o + 2 <= End(current, k)
  BY <1>1, <1>2, SpaceTypes DEF Layout
<1>4. \A j \in 1 .. Len(current.objects) : current.objects[j] = o =>
        /\ Color(o) = COLOR_WHITE
        /\ Size(o) = End(current, j) - o
        /\ End(current, j) \in Int
        /\ IsContextObject(o) => Size(o) = ContextWords
  BY <1>1, SpaceTypes DEF InvHeap, InvLayout, InvHeaders
<1>5. Size(o) \in Int /\ Size(o) >= 2
  BY <1>2, <1>3, <1>4
<1>6. \A j \in 1 .. Len(current.objects) : current.objects[j] = o => End(current, j) = o + Size(o)
  BY <1>3, <1>4
<1>7. PICK moved, both, end, lowC, highC, lowO, highO, size :
        /\ moved = Cardinality(MovedWords)
        /\ both = Cardinality(MovedWords \cup (o - 2 .. end - 1))
        /\ end = End(current, k)
        /\ lowC = current.chunk /\ highC = current.cursor
        /\ lowO = other.chunk /\ highO = other.cursor
        /\ size = Size(o)
  OBVIOUS
<1>8. both = moved + (end - o + 2) /\ moved + (end - o + 2) <= highC - lowC
  <2>1. /\ Cardinality(MovedWords \cup (o - 2 .. End(current, k) - 1))
             = Cardinality(MovedWords) + (End(current, k) - o + 2)
        /\ Cardinality(MovedWords) + (End(current, k) - o + 2) <= current.cursor - current.chunk
    BY <1>1, <1>2, RoomForCopy DEF InvHeap
  <2> QED BY <2>1, <1>7
<1>9. moved = highO - lowO
  BY <1>7 DEF InvHeap, InvRoom
<1>10. /\ lowC \in Int /\ highC \in Int /\ lowO \in Int /\ highO \in Int
       /\ end \in Int /\ size \in Int /\ ChunkWords \in Int
       /\ highC <= lowC + ChunkWords + 1
       /\ end = o + size /\ size >= 2
  BY <1>1, <1>2, <1>3, <1>5, <1>6, <1>7
<1>11. both = highO - lowO + size + 2 /\ highO + size + 2 <= lowO + ChunkWords + 1
  BY <1>3, <1>8, <1>9, <1>10
<1>12. \A j \in 0 .. Size(o) - 1 : o + j \in Bodies(current)
  <2>1. \A j \in 0 .. size - 1 : o + j \in o .. end - 1
    BY <1>3, <1>10
  <2>2. \A j \in 0 .. Size(o) - 1 : o + j \in current.objects[k] .. End(current, k) - 1
    BY ONLY <2>1, <1>2, <1>7
  <2> QED BY <2>2, <1>1, BodiesByEnd
<1>13. both = Cardinality(MovedWords \cup (o - 2 .. o + size - 1))
  <2>1. end - 1 = o + size - 1
    BY <1>3, <1>10
  <2> QED BY <2>1, <1>7
<1>14. /\ other.cursor + Size(o) + 2 <= other.chunk + ChunkWords + 1
       /\ Cardinality(MovedWords \cup (o - 2 .. o + Size(o) - 1))
            = other.cursor - other.chunk + Size(o) + 2
  BY <1>7, <1>11, <1>13
<1>15. Color(o) = COLOR_WHITE /\ (IsContextObject(o) => Size(o) = ContextWords)
  BY <1>2, <1>4
<1> QED BY <1>3, <1>5, <1>6, <1>12, <1>14, <1>15

(* A block at the cursor of the other chunk is apart from everything.       *)
LEMMA BlockAtOtherCursor ==
  ASSUME InvHeap, NEW size \in Int, size >= 0,
         other.cursor + size + 2 <= other.chunk + ChunkWords + 1,
         NEW l \in other.cursor .. other.cursor + size + 1
  PROVE  /\ l \in Int /\ InHeap(l) /\ l \in Address
         /\ l \notin Bodies(current) /\ l \notin Bodies(other)
         /\ l \notin Stack /\ l # HandleCell
         /\ \A o \in AllObjects : l # o /\ l # o - 1 /\ l # o - 2
<1> DEFINE lowC == current.chunk
           highC == current.cursor
           lowO == other.chunk
           highO == other.cursor
<1>1. /\ current \in Space /\ other \in Space /\ Layout(current) /\ Layout(other)
      /\ lowC \in Int /\ highC \in Int /\ lowO \in Int /\ highO \in Int
      /\ FirstChunk <= lowC /\ FirstChunk <= lowO
      /\ highC <= lowC + ChunkWords + 1
      /\ lowO <= highO
      /\ lowC + ChunkWords + 1 <= lowO \/ lowO + ChunkWords + 1 <= lowC
  BY Chunks
<1>2. /\ ChunkWords \in Nat /\ FirstChunk \in Int /\ HandleCell \in Int
      /\ lowO + ChunkWords + 1 <= HandleCell
  <2>1. lowO \in Chunk
    BY DEF InvHeap, InvTypes
  <2> QED BY <2>1, <1>1, Places
<1>3. /\ \A o \in Objects(current) : o \in Int /\ lowC + 2 <= o /\ o + 2 <= highC
      /\ \A x \in Bodies(current) : x \in Int /\ lowC + 2 <= x /\ x < highC
  BY <1>1, LayoutFacts
<1>4. /\ \A o \in Objects(other) : o \in Int /\ lowO + 2 <= o /\ o + 2 <= highO
      /\ \A x \in Bodies(other) : x \in Int /\ lowO + 2 <= x /\ x < highO
  BY <1>1, LayoutFacts
<1> HIDE DEF lowC, highC
<1>5. l \in Int /\ highO <= l /\ l < lowO + ChunkWords + 1
  BY <1>1, <1>2
<1> HIDE DEF lowO, highO
<1>6. InHeap(l)
  BY <1>1, <1>2, <1>5 DEF InHeap
<1>7. l \in Address /\ l \notin Stack /\ l # HandleCell
  BY <1>5, <1>6, StackFacts
<1>8. l \notin Bodies(current) /\ l \notin Bodies(other)
  BY <1>1, <1>2, <1>3, <1>4, <1>5
<1>9. \A o \in Objects(current) : l # o /\ l # o - 1 /\ l # o - 2
  BY <1>1, <1>2, <1>3, <1>5
<1>10. \A o \in Objects(other) : l # o /\ l # o - 1 /\ l # o - 2
  BY <1>1, <1>2, <1>4, <1>5
<1> QED BY <1>5, <1>6, <1>7, <1>8, <1>9, <1>10 DEF AllObjects

(* The words of a block of a given size.                                    *)
LEMMA BlockWords ==
  ASSUME NEW base \in Int, NEW size \in Int, size >= 2, NEW copy \in Int, copy = base + 2,
         NEW o \in Int
  PROVE  /\ \A a : a \in copy - 2 .. copy + size - 1 <=> a \in base .. base + size + 1
         /\ copy - 1 \in base .. base + size + 1 /\ copy - 2 \in base .. base + size + 1
         /\ copy - 1 - copy + o = o - 1 /\ copy - 2 - copy + o = o - 2
         /\ \A j \in 0 .. size - 1 : /\ copy + j \in base .. base + size + 1
                                     /\ copy + j - copy + o = o + j
         /\ \A a \in base .. base + size + 1 :
              \/ a - copy + o = o - 1
              \/ a - copy + o = o - 2
              \/ \E j \in 0 .. size - 1 : a - copy + o = o + j
<1>1. ASSUME NEW a \in base .. base + size + 1
      PROVE  \/ a - copy + o = o - 1
             \/ a - copy + o = o - 2
             \/ \E j \in 0 .. size - 1 : a - copy + o = o + j
  <2>1. CASE a - copy \in 0 .. size - 1
    BY <2>1
  <2>2. CASE a = base \/ a = base + 1
    BY <2>2
  <2> QED BY <2>1, <2>2
<1> QED BY <1>1

(* The memory after the copy of an object.                                  *)
LEMMA CopyMemory ==
  ASSUME InvHeap, NEW o \in Objects(current), Color(o) # COLOR_MOVED,
         mem' = MemoryWithCopy(o, other.cursor + 2)
  PROVE  /\ mem' \in [Address -> Int]
         /\ \A l \in Bodies(current) \cup Bodies(other) \cup Stack \cup {HandleCell} :
              mem'[l] = mem[l]
         /\ \A x \in Objects(current) :
              x # o => mem'[x - 1] = mem[x - 1] /\ mem'[x - 2] = mem[x - 2]
         /\ \A x \in Objects(other) : mem'[x - 1] = mem[x - 1] /\ mem'[x - 2] = mem[x - 2]
         /\ mem'[o - 1] = COLOR_MOVED /\ mem'[o - 2] = other.cursor + 2
         /\ mem'[other.cursor + 1] = mem[o - 1] /\ mem'[other.cursor] = mem[o - 2]
         /\ \A j \in 0 .. Size(o) - 1 : mem'[other.cursor + 2 + j] = mem[o + j]
<1> DEFINE size == Size(o)
           block == other.cursor .. other.cursor + size + 1
<1>1. /\ o \in Objects(current) /\ o \in Int /\ o \in AllObjects
      /\ size \in Int /\ size >= 2
      /\ \A j \in 0 .. size - 1 : o + j \in Bodies(current)
      /\ other.cursor + size + 2 <= other.chunk + ChunkWords + 1
  BY ObjectToCopy DEF AllObjects
<1>2. other.cursor \in Int
  BY Chunks
<1>3. PICK copy, base : base = other.cursor /\ copy = other.cursor + 2
  OBVIOUS
<1>4. base \in Int /\ copy \in Int /\ copy = base + 2
  BY <1>2, <1>3
<1>5. \A l \in block :
        /\ l \in Int /\ l \in Address
        /\ l \notin Bodies(current) /\ l \notin Bodies(other)
        /\ l \notin Stack /\ l # HandleCell
        /\ \A x \in AllObjects : l # x /\ l # x - 1 /\ l # x - 2
  BY <1>1, BlockAtOtherCursor
<1>6. /\ \A a : a \in copy - 2 .. copy + size - 1 <=> a \in block
      /\ copy - 1 \in block /\ copy - 2 \in block
      /\ copy - 1 - copy + o = o - 1 /\ copy - 2 - copy + o = o - 2
      /\ \A j \in 0 .. size - 1 : copy + j \in block /\ copy + j - copy + o = o + j
      /\ \A a \in block : \/ a - copy + o = o - 1
                         \/ a - copy + o = o - 2
                         \/ \E j \in 0 .. size - 1 : a - copy + o = o + j
  <2> HIDE DEF size
  <2>1. /\ \A a : a \in copy - 2 .. copy + size - 1 <=> a \in base .. base + size + 1
        /\ copy - 1 \in base .. base + size + 1 /\ copy - 2 \in base .. base + size + 1
        /\ copy - 1 - copy + o = o - 1 /\ copy - 2 - copy + o = o - 2
        /\ \A j \in 0 .. size - 1 : /\ copy + j \in base .. base + size + 1
                                    /\ copy + j - copy + o = o + j
        /\ \A a \in base .. base + size + 1 :
             \/ a - copy + o = o - 1
             \/ a - copy + o = o - 2
             \/ \E j \in 0 .. size - 1 : a - copy + o = o + j
    BY <1>1, <1>4, BlockWords
  <2> QED BY <2>1, <1>3
<1>7. \A a \in Address : mem'[a] = IF a \in block THEN mem[a - copy + o]
                                   ELSE IF a = o - 1 THEN COLOR_MOVED
                                   ELSE IF a = o - 2 THEN copy
                                   ELSE mem[a]
  BY <1>6, <1>3 DEF MemoryWithCopy, size
<1> HIDE DEF block, size
<1>8. \A a \in block : a - copy + o \in Address
  BY <1>1, <1>6, Words
<1>9. mem' \in [Address -> Int]
  <2>1. \A a \in Address : mem'[a] \in Int
    BY <1>4, <1>7, <1>8, Words DEF COLOR_MOVED
  <2>2. mem' = [a \in Address |-> mem'[a]]
    BY DEF MemoryWithCopy
  <2> QED BY <2>1, <2>2
<1>10. \A l \in Bodies(current) \cup Bodies(other) \cup Stack \cup {HandleCell} : mem'[l] = mem[l]
  <2> TAKE l \in Bodies(current) \cup Bodies(other) \cup Stack \cup {HandleCell}
  <2>1. l \in Address /\ l \notin block
    BY <1>5, Words, StackFacts
  <2>2. l # o - 1 /\ l # o - 2
    <3>1. CASE l \in Bodies(current) \cup Bodies(other)
      BY <3>1, <1>1, Regions
    <3>2. CASE l \in Stack \cup {HandleCell}
      <4>1. ~InHeap(l)
        BY <3>2, StackFacts
      <4>2. InHeap(o - 1) /\ InHeap(o - 2)
        BY <1>1, Regions
      <4> QED BY <4>1, <4>2
    <3> QED BY <3>1, <3>2
  <2> QED BY <2>1, <2>2, <1>7
<1>11. \A x \in AllObjects : x # o => mem'[x - 1] = mem[x - 1] /\ mem'[x - 2] = mem[x - 2]
  <2> TAKE x \in AllObjects
  <2>1. /\ x - 1 \in Address /\ x - 2 \in Address /\ x \in Int
    BY Words, Regions
  <2>2. x - 1 \notin block /\ x - 2 \notin block
    BY <1>5
  <2>3. x # o - 1 /\ x # o - 2 /\ o # x - 1 /\ o # x - 2
    BY <1>1, Regions
  <2>4. x # o => /\ x - 1 # o - 1 /\ x - 1 # o - 2
                 /\ x - 2 # o - 1 /\ x - 2 # o - 2
    BY <2>1, <2>3, <1>1
  <2> QED BY <2>1, <2>2, <2>4, <1>7
<1>12. mem'[o - 1] = COLOR_MOVED /\ mem'[o - 2] = copy
  <2>1. o - 1 \in Address /\ o - 2 \in Address /\ o - 1 \notin block /\ o - 2 \notin block
    BY <1>1, <1>5, Words
  <2>2. o - 1 # o - 2
    BY <1>1
  <2> QED BY <2>1, <2>2, <1>7
<1>13. mem'[copy - 1] = mem[o - 1] /\ mem'[copy - 2] = mem[o - 2]
  BY <1>5, <1>6, <1>7
<1>14. \A j \in 0 .. size - 1 : mem'[copy + j] = mem[o + j]
  <2> TAKE j \in 0 .. size - 1
  <2>1. copy + j \in block
    BY <1>6
  <2>2. PICK a : a = copy + j
    OBVIOUS
  <2>3. a - copy + o = o + j
    BY <2>2, <1>1, <1>4
  <2>4. mem'[a] = mem[a - copy + o]
    BY <2>1, <2>2, <1>5, <1>7
  <2> QED BY <2>2, <2>3, <2>4
<1>15. o \notin Objects(other)
  BY <1>1, Regions
<1>16. /\ copy - 1 = other.cursor + 1 /\ copy - 2 = other.cursor
       /\ \A j \in 0 .. size - 1 : copy + j = other.cursor + 2 + j
  BY <1>3, <1>4
<1>17. /\ mem'[other.cursor + 1] = mem[o - 1] /\ mem'[other.cursor] = mem[o - 2]
       /\ \A j \in 0 .. size - 1 : mem'[other.cursor + 2 + j] = mem[o + j]
  BY <1>13, <1>14, <1>16
<1> QED BY <1>9, <1>10, <1>11, <1>12, <1>15, <1>17, <1>3 DEF AllObjects, size

(* The copy of an object takes the place after the other copies, the part   *)
(* of the invariant about memory still holds, and nothing else changed.     *)
LEMMA Copying ==
  ASSUME InvHeap, NEW o \in Objects(current), Color(o) # COLOR_MOVED,
         mem' = MemoryWithCopy(o, other.cursor + 2),
         other' = [chunk |-> other.chunk, cursor |-> other.cursor + Size(o) + 2,
                   objects |-> Append(other.objects, other.cursor + 2)],
         identity' = [a \in DOMAIN identity \cup {other.cursor + 2} |->
                        IF a = other.cursor + 2 THEN identity[o] ELSE identity[a]],
         UNCHANGED <<current, handles, frames>>
  PROVE  /\ InvHeap'
         /\ Stack' = Stack /\ Roots' = Roots
         /\ Objects(current)' = Objects(current)
         /\ \A l : l \in Bodies(other)' <=>
                     l \in Bodies(other) \/ l \in other.cursor + 2 .. other.cursor + 2 + Size(o) - 1
         /\ \A l \in Roots \cup Bodies(other) :
              mem'[l] = mem[l] /\ l \notin other.cursor + 2 .. other.cursor + 2 + Size(o) - 1
         /\ Color(o)' = COLOR_MOVED /\ Size(o)' = other.cursor + 2
         /\ Size(o) \in Int /\ Size(o) >= 2
         /\ other'.objects # <<>> /\ Last(other.objects)' = other.cursor + 2
<1> USE DEF COLOR_WHITE, COLOR_MOVED
<1>1. PICK copy, size : copy = other.cursor + 2 /\ size = Size(o)
  OBVIOUS
<1>2. /\ o \in Int /\ o \in AllObjects /\ o \notin Objects(other)
      /\ Color(o) = COLOR_WHITE
      /\ size \in Int /\ size >= 2
      /\ \A k \in 1 .. Len(current.objects) :
           current.objects[k] = o => End(current, k) = o + size
      /\ IsContextObject(o) => size = ContextWords
      /\ \A j \in 0 .. size - 1 : o + j \in Bodies(current)
      /\ Cardinality(MovedWords \cup (o - 2 .. o + size - 1))
           = other.cursor - other.chunk + size + 2
  BY <1>1, ObjectToCopy, Regions DEF AllObjects
<1>3. other.cursor \in Int /\ other.chunk \in Int /\ copy \in Int
  BY <1>1, Chunks
<1>4. /\ mem' \in [Address -> Int]
      /\ \A l \in Bodies(current) \cup Bodies(other) \cup Stack \cup {HandleCell} :
           mem'[l] = mem[l]
      /\ \A x \in AllObjects :
           x # o => mem'[x - 1] = mem[x - 1] /\ mem'[x - 2] = mem[x - 2]
      /\ mem'[o - 1] = COLOR_MOVED /\ mem'[o - 2] = copy
  BY <1>1, <1>2, CopyMemory DEF AllObjects
<1>5. /\ mem'[copy - 1] = COLOR_WHITE /\ mem'[copy - 2] = size
      /\ \A j \in 0 .. size - 1 : mem'[copy + j] = mem[o + j]
  <2>1. /\ mem'[other.cursor + 1] = mem[o - 1] /\ mem'[other.cursor] = mem[o - 2]
        /\ \A j \in 0 .. Size(o) - 1 : mem'[other.cursor + 2 + j] = mem[o + j]
    BY CopyMemory
  <2>2. copy - 1 = other.cursor + 1 /\ copy - 2 = other.cursor
    BY <1>1, <1>3
  <2> QED BY <2>1, <2>2, <1>1, <1>2 DEF Color, Size
<1>6. /\ other' \in Space /\ Layout(other')
      /\ Len(other'.objects) = Len(other.objects) + 1
      /\ \A i \in 1 .. Len(other.objects) :
           other'.objects[i] = other.objects[i] /\ End(other', i) = End(other, i)
      /\ other'.objects[Len(other'.objects)] = copy
      /\ End(other', Len(other'.objects)) = copy + size
      /\ Objects(other') = Objects(other) \cup {copy}
      /\ \A l : l \in Bodies(other') <=> l \in Bodies(other) \/ l \in copy .. copy + size - 1
  <2>1. other \in Space /\ Layout(other)
    BY Chunks
  <2>2. PICK new, space : new = other' /\ space = other
    OBVIOUS
  <2>3. other' \in Space
    BY <2>1, <1>1, <1>2, <1>3 DEF Space
  <2>4. /\ new \in Space /\ space \in Space /\ Layout(space)
        /\ new.chunk = space.chunk /\ new.cursor = space.cursor + size + 2
        /\ new.objects = Append(space.objects, space.cursor + 2)
    BY <2>1, <2>2, <2>3, <1>1
  <2>5. /\ Layout(new)
        /\ Len(new.objects) = Len(space.objects) + 1
        /\ \A i \in 1 .. Len(space.objects) :
             new.objects[i] = space.objects[i] /\ End(new, i) = End(space, i)
        /\ new.objects[Len(new.objects)] = space.cursor + 2
        /\ End(new, Len(new.objects)) = space.cursor + 2 + size
        /\ Objects(new) = Objects(space) \cup {space.cursor + 2}
        /\ \A l : l \in Bodies(new) <=>
                    l \in Bodies(space) \/ l \in space.cursor + 2 .. space.cursor + 2 + size - 1
    BY <2>4, <1>2, LayoutAppend
  <2> QED BY <2>2, <2>3, <2>5, <1>1
<1>7. /\ Objects(other)' = Objects(other) \cup {copy}
      /\ Objects(current)' = Objects(current) /\ Bodies(current)' = Bodies(current)
      /\ \A l : l \in Bodies(other)' <=> l \in Bodies(other) \/ l \in copy .. copy + size - 1
      /\ AllObjects' = AllObjects \cup {copy}
  <2>1. Objects(other)' = Objects(other') /\ Objects(current)' = Objects(current)
    BY DEF Objects
  <2>2. Bodies(other)' = Bodies(other') /\ Bodies(current)' = Bodies(current)
    BY DEF Bodies, Extent
  <2>3. AllObjects' = Objects(current)' \cup Objects(other)'
    BY DEF AllObjects
  <2> QED BY <2>1, <2>2, <2>3, <1>6 DEF AllObjects
<1>8. copy \notin AllObjects
  <2>1. other.cursor + Size(o) + 2 <= other.chunk + ChunkWords + 1
    BY ObjectToCopy
  <2>2. other.cursor + 2 \in other.cursor .. other.cursor + Size(o) + 1
    BY <1>1, <1>2, <1>3
  <2>3. \A x \in AllObjects : other.cursor + 2 # x
    BY <2>1, <2>2, <1>1, <1>2, BlockAtOtherCursor
  <2> QED BY <2>3, <1>1
<1>9. /\ DOMAIN identity' = AllObjects'
      /\ \A x \in AllObjects : identity'[x] = identity[x]
      /\ identity'[copy] = identity[o]
      /\ \A x \in AllObjects : IsContextObject(x)' <=> IsContextObject(x)
      /\ IsContextObject(copy)' <=> IsContextObject(o)
  <2>1. DOMAIN identity = AllObjects
    BY DEF InvHeap, InvIdentity
  <2>2. /\ DOMAIN identity' = AllObjects'
        /\ \A x \in AllObjects : identity'[x] = identity[x]
        /\ identity'[copy] = identity[o]
    BY <2>1, <1>1, <1>7, <1>8
  <2> QED BY <2>2 DEF IsContextObject
<1>10. InvTypes'
  <2>1. other' \in [chunk : Chunk, cursor : Int, objects : Seq(Int)] /\ other'.chunk = other.chunk
    <3>1. other'.cursor \in Int /\ other'.objects \in Seq(Int)
      BY <1>6 DEF Space
    <3> QED BY <3>1 DEF InvHeap, InvTypes
  <2> QED BY <2>1, <1>4 DEF InvHeap, InvTypes
<1>11. /\ \A i \in 1 .. Len(current.objects) :
            /\ current.objects[i] \in Objects(current)
            /\ current.objects[i] \in AllObjects
       /\ \A i \in 1 .. Len(other.objects) :
            /\ other.objects[i] \in Objects(other)
            /\ other.objects[i] \in AllObjects
  BY DEF Objects, AllObjects
<1>12. \A x \in AllObjects : x # o => Color(x)' = Color(x) /\ Size(x)' = Size(x)
  BY <1>4 DEF Color, Size
<1>13. /\ Color(o)' = COLOR_MOVED /\ Size(o)' = copy
       /\ Color(copy)' = COLOR_WHITE /\ Size(copy)' = size
  BY <1>4, <1>5 DEF Color, Size
<1>14. InvHeaders(current)'
  <2>1. ASSUME NEW i \in 1 .. Len(current.objects)
        PROVE  /\ Color(current.objects[i])' \in {COLOR_WHITE, COLOR_MOVED}
               /\ Color(current.objects[i])' = COLOR_WHITE =>
                    Size(current.objects[i])' = End(current, i) - current.objects[i]
               /\ IsContextObject(current.objects[i])' =>
                    End(current, i) - current.objects[i] = ContextWords
    <3>1. /\ Color(current.objects[i]) \in {COLOR_WHITE, COLOR_MOVED}
          /\ Color(current.objects[i]) = COLOR_WHITE =>
               Size(current.objects[i]) = End(current, i) - current.objects[i]
          /\ IsContextObject(current.objects[i]) =>
               End(current, i) - current.objects[i] = ContextWords
      BY DEF InvHeap, InvLayout, InvHeaders
    <3>2. CASE current.objects[i] # o
      BY <3>1, <3>2, <1>9, <1>11, <1>12
    <3>3. CASE current.objects[i] = o
      BY <3>1, <3>3, <1>9, <1>11, <1>13
    <3> QED BY <3>2, <3>3
  <2> QED BY <2>1 DEF InvHeaders, End, Color, Size, IsContextObject
<1>15. InvHeaders(other)'
  <2>1. ASSUME NEW i \in 1 .. Len(other'.objects)
        PROVE  /\ Color(other.objects[i])' \in {COLOR_WHITE, COLOR_MOVED}
               /\ Color(other.objects[i])' = COLOR_WHITE =>
                    Size(other.objects[i])' = End(other', i) - other'.objects[i]
               /\ IsContextObject(other.objects[i])' =>
                    End(other', i) - other'.objects[i] = ContextWords
    <3>1. CASE i \in 1 .. Len(other.objects)
      <4>1. other'.objects[i] = other.objects[i] /\ End(other', i) = End(other, i)
        BY <3>1, <1>6
      <4>2. other.objects[i] \in AllObjects /\ other.objects[i] # o
        BY <3>1, <1>2, <1>11
      <4>3. /\ Color(other.objects[i]) \in {COLOR_WHITE, COLOR_MOVED}
            /\ Color(other.objects[i]) = COLOR_WHITE =>
                 Size(other.objects[i]) = End(other, i) - other.objects[i]
            /\ IsContextObject(other.objects[i]) =>
                 End(other, i) - other.objects[i] = ContextWords
        BY <3>1 DEF InvHeap, InvLayout, InvHeaders
      <4> QED BY <4>1, <4>2, <4>3, <1>9, <1>12 DEF Color, Size, IsContextObject
    <3>2. CASE i = Len(other'.objects)
      <4>1. other'.objects[i] = copy /\ End(other', i) - copy = size
        <5>1. PICK end : end = End(other', i)
          OBVIOUS
        <5>2. other'.objects[i] = copy /\ end = copy + size
          BY <5>1, <3>2, <1>6
        <5>3. end - copy = size
          BY <5>2, <1>2, <1>3
        <5> QED BY <5>1, <5>2, <5>3
      <4> QED BY <4>1, <1>2, <1>9, <1>13 DEF Color, Size, IsContextObject
    <3>3. Len(other.objects) \in Nat
      BY Chunks, SpaceTypes
    <3> QED BY <3>1, <3>2, <3>3, <1>6
  <2> QED BY <2>1 DEF InvHeaders, End, Color, Size, IsContextObject
<1>16. InvLayout'
  <2>1. Layout(current)' /\ Layout(other)'
    BY <1>6 DEF Layout, End, InvHeap, InvLayout
  <2>2. \A x \in Objects(other)' : (Color(x) = COLOR_WHITE)'
    <3> TAKE x \in Objects(other)'
    <3>1. CASE x \in Objects(other)
      <4>1. x \in AllObjects /\ x # o /\ Color(x) = COLOR_WHITE
        BY <3>1, <1>2 DEF AllObjects, InvHeap, InvLayout
      <4> QED BY <4>1, <1>12
    <3>2. CASE x = copy
      BY <3>2, <1>13
    <3> QED BY <3>1, <3>2, <1>7
  <2>3. (current.cursor <= ChunkEnd(current.chunk) + 1)'
    BY DEF InvHeap, InvLayout, ChunkEnd
  <2> QED BY <2>1, <2>2, <2>3, <1>14, <1>15 DEF InvLayout
<1>17. InvRoom'
  <2> DEFINE n == Len(current.objects)
             Moved(i) == Color(current.objects[i]) = COLOR_MOVED
             room(i) == current.objects[i] - 2 .. End(current, i) - 1
  <2>1. PICK k \in 1 .. n : current.objects[k] = o
    BY DEF Objects
  <2>2. \A i \in 1 .. n : i # k => current.objects[i] # o
    <3> TAKE i \in 1 .. n
    <3>1. /\ current \in Space /\ Layout(current) /\ n \in Nat
          /\ current.objects[i] \in Int /\ current.objects[k] \in Int
      BY <2>1, Chunks, SpaceTypes
    <3>2. i < k => current.objects[i] + 4 <= current.objects[k]
      BY <3>1, ObjectsDistinct
    <3>3. k < i => current.objects[k] + 4 <= current.objects[i]
      BY <3>1, ObjectsDistinct
    <3> QED BY <3>1, <3>2, <3>3, <2>1
  <2>3. \A i \in 1 .. n : Moved(i)' <=> Moved(i) \/ i = k
    BY <2>1, <2>2, <1>11, <1>12, <1>13
  <2>4. room(k) = o - 2 .. o + size - 1
    BY <2>1, <1>2
  <2>5. \A i : room(i)' = room(i)
    BY DEF End
  <2>6. MovedWords = UNION {room(i) : i \in {j \in 1 .. n : Moved(j)}}
    BY DEF MovedWords
  <2>7. MovedWords' = UNION {room(i)' : i \in {j \in 1 .. n : Moved(j)'}}
    BY DEF MovedWords, End
  <2> HIDE DEF Moved, room, n
  <2>8. MovedWords' = MovedWords \cup room(k)
    BY <2>1, <2>3, <2>5, <2>6, <2>7
  <2>9. other'.cursor = other.cursor + size + 2 /\ other'.chunk = other.chunk
    BY <1>1
  <2>10. PICK low, high : low = other.chunk /\ high = other.cursor
    OBVIOUS
  <2>11. Cardinality(MovedWords') = high - low + size + 2
    BY <2>4, <2>8, <2>10, <1>2
  <2>12. PICK newLow, newHigh, moved :
           newLow = other'.chunk /\ newHigh = other'.cursor /\ moved = Cardinality(MovedWords')
    OBVIOUS
  <2>13. newLow = low /\ newHigh = high + size + 2 /\ moved = high - low + size + 2
    BY <2>9, <2>10, <2>11, <2>12
  <2>14. moved = newHigh - newLow
    BY <2>10, <2>13, <1>2, <1>3
  <2> QED BY <2>12, <2>14 DEF InvRoom
<1>18. \A x \in AllObjects : IsContextObject(x) => mem'[x + SPILL_COUNT] = mem[x + SPILL_COUNT]
  BY <1>4, Regions DEF SPILL_COUNT
<1>19. /\ IsContextObject(o) => mem'[copy + SPILL_COUNT] = mem[o + SPILL_COUNT]
       /\ mem'[o + SPILL_COUNT] = mem[o + SPILL_COUNT]
  <2>1. 1 \in 0 .. size - 1
    BY <1>2
  <2> QED BY <2>1, <1>2, <1>4, <1>5 DEF SPILL_COUNT
<1>20. InvIdentity'
  <2> SUFFICES ASSUME NEW x \in AllObjects'
               PROVE  /\ identity'[x].kind \in {"main", "context", "function", "array"}
                      /\ IsContextObject(x)' => mem'[x + SPILL_COUNT] \in 0 .. MaxSpills
    BY <1>9 DEF InvIdentity
  <2>1. \A y \in AllObjects :
          /\ identity[y].kind \in {"main", "context", "function", "array"}
          /\ IsContextObject(y) => mem[y + SPILL_COUNT] \in 0 .. MaxSpills
    BY DEF InvHeap, InvIdentity
  <2>2. CASE x \in AllObjects
    BY <2>1, <2>2, <1>9, <1>18
  <2>3. CASE x = copy
    BY <2>1, <2>3, <1>2, <1>9, <1>19
  <2> QED BY <2>2, <2>3, <1>7
<1>21. InvForwarding'
  <2> SUFFICES ASSUME NEW x \in Objects(current), Color(x)' = COLOR_MOVED
               PROVE  /\ Size(x)' \in Objects(other)'
                      /\ identity'[Size(x)'] = identity'[x]
                      /\ IsContextObject(x)' => mem'[Size(x)' + SPILL_COUNT] = mem'[x + SPILL_COUNT]
    BY <1>7 DEF InvForwarding, Size
  <2>1. x \in AllObjects
    BY DEF AllObjects
  <2>2. CASE x = o
    BY <2>2, <1>2, <1>7, <1>9, <1>13, <1>19
  <2>3. CASE x # o
    <3>1. /\ Size(x)' = Size(x) /\ Size(x) \in Objects(other) /\ Size(x) \in AllObjects
          /\ identity[Size(x)] = identity[x]
          /\ IsContextObject(x) => mem[Size(x) + SPILL_COUNT] = mem[x + SPILL_COUNT]
      BY <2>1, <2>3, <1>12 DEF InvHeap, InvForwarding, AllObjects
    <3>2. IsContextObject(x) => IsContextObject(Size(x))
      BY <3>1 DEF IsContextObject
    <3> QED BY <2>1, <3>1, <3>2, <1>7, <1>9, <1>18
  <2> QED BY <2>2, <2>3
<1>22. ASSUME NEW i \in 1 .. Len(frames)
       PROVE  /\ HasPointerTag(mem'[frames[i]])
              /\ UntagPointer(mem'[frames[i]]) \in AllObjects'
              /\ identity'[UntagPointer(mem'[frames[i]])].kind \in {"main", "context"}
              /\ mem'[UntagPointer(mem'[frames[i]]) + SPILL_COUNT] = SpillCount(frames[i])
  <2>1. /\ HasPointerTag(mem[frames[i]])
        /\ UntagPointer(mem[frames[i]]) \in AllObjects
        /\ IsContextObject(UntagPointer(mem[frames[i]]))
    BY DEF InvHeap, InvFrames, IsFrame, FunctionContext
  <2>2. mem'[frames[i]] = mem[frames[i]]
    BY <1>4, StackFacts
  <2> QED BY <2>1, <2>2, <1>7, <1>9, <1>18 DEF SpillCount, FunctionContext, IsContextObject
<1>23. /\ InvFrames'
       /\ Stack' = Stack
       /\ \A i \in 1 .. Len(frames) : LastWord(frames[i])' = LastWord(frames[i])
  BY <1>22, FramesKept
<1>24. Roots' = Roots
  BY <1>23 DEF Roots, Stack
<1>25. InvWords'
  <2>1. ASSUME NEW l \in Roots PROVE PointsTo(mem'[l], AllObjects')
    <3>1. mem'[l] = mem[l] /\ PointsTo(mem[l], AllObjects)
      BY <1>4, Words DEF InvHeap, InvWords
    <3> QED BY <3>1, <1>7 DEF PointsTo
  <2>2. ASSUME NEW l \in Bodies(other)' PROVE PointsTo(mem'[l], AllObjects')
    <3>1. CASE l \in Bodies(other)
      <4>1. mem'[l] = mem[l] /\ PointsTo(mem[l], AllObjects)
        BY <3>1, <1>4 DEF InvHeap, InvWords
      <4> QED BY <4>1, <1>7 DEF PointsTo
    <3>2. CASE l \in copy .. copy + size - 1
      <4>1. PICK j : j \in 0 .. size - 1 /\ l = copy + j
        <5>1. size \in Int /\ copy \in Int
          BY <1>2, <1>3
        <5>2. l - copy \in 0 .. size - 1 /\ l = copy + (l - copy)
          BY ONLY <3>2, <5>1
        <5> QED BY ONLY <5>2
      <4>2. mem'[l] = mem[o + j] /\ PointsTo(mem[o + j], Objects(current))
        BY <4>1, <1>2, <1>5 DEF InvHeap, InvWords
      <4> QED BY <4>2, <1>7 DEF PointsTo, AllObjects
    <3> QED BY <3>1, <3>2, <1>7
  <2>3. ASSUME NEW l \in Bodies(current) PROVE PointsTo(mem'[l], Objects(current))
    BY <1>4 DEF InvHeap, InvWords
  <2>4. HandleCell \in handles => HasPointerTag(mem'[HandleCell])
    BY <1>4 DEF InvHeap, InvWords
  <2> QED BY <2>1, <2>2, <2>3, <2>4, <1>7, <1>24 DEF InvWords, PointsTo
<1>26. InvHeap'
  BY <1>10, <1>16, <1>17, <1>20, <1>21, <1>23, <1>25 DEF InvHeap
<1>27. ASSUME NEW l \in Roots \cup Bodies(other)
       PROVE  mem'[l] = mem[l] /\ l \notin copy .. copy + size - 1
  <2>1. mem'[l] = mem[l]
    BY <1>4, Words
  <2>2. \A a \in copy .. copy + size - 1 : a \in other.cursor .. other.cursor + Size(o) + 1
    <3>1. PICK cursor : cursor = other.cursor
      OBVIOUS
    <3>2. cursor \in Int /\ size \in Int /\ copy = cursor + 2
      BY <3>1, <1>1, <1>2, <1>3
    <3>3. \A a \in copy .. copy + size - 1 : a \in cursor .. cursor + size + 1
      BY ONLY <3>2
    <3> QED BY <3>1, <3>3, <1>1
  <2>3. other.cursor + Size(o) + 2 <= other.chunk + ChunkWords + 1
    BY ObjectToCopy
  <2>4. \A a \in other.cursor .. other.cursor + Size(o) + 1 :
          a \notin Bodies(other) /\ a \notin Stack /\ a # HandleCell
    BY <2>3, <1>1, <1>2, BlockAtOtherCursor
  <2>5. l \in Bodies(other) \/ l \in Stack \/ l = HandleCell
    BY Words
  <2>6. l \notin other.cursor .. other.cursor + Size(o) + 1
    BY <2>4, <2>5
  <2>7. l \notin copy .. copy + size - 1
    BY ONLY <2>2, <2>6
  <2> QED BY <2>1, <2>7
<1>28. other'.objects # <<>> /\ Last(other.objects)' = copy
  <2>1. Len(other.objects) \in Nat
    BY Chunks, SpaceTypes
  <2>2. Last(other.objects)' = copy
    BY <1>6 DEF Last
  <2>3. Len(other'.objects) # 0
    BY <1>6, <2>1
  <2> QED BY <2>2, <2>3
<1>29. Stack' = Stack /\ Roots' = Roots /\ Objects(current)' = Objects(current)
  BY <1>7, <1>23, <1>24
<1>30. /\ \A l : l \in Bodies(other)' <=>
                  l \in Bodies(other) \/ l \in other.cursor + 2 .. other.cursor + 2 + Size(o) - 1
       /\ \A l \in Roots \cup Bodies(other) :
            mem'[l] = mem[l] /\ l \notin other.cursor + 2 .. other.cursor + 2 + Size(o) - 1
  BY <1>1, <1>7, <1>27
<1>31. /\ Color(o)' = COLOR_MOVED /\ Size(o)' = other.cursor + 2
       /\ Size(o) \in Int /\ Size(o) >= 2
       /\ other'.objects # <<>> /\ Last(other.objects)' = other.cursor + 2
  BY <1>1, <1>2, <1>13, <1>28
<1> QED BY <1>26, <1>29, <1>30, <1>31

(* When no word points at an original any more, the chunk that was left can *)
(* be cleared and the two chunks can change roles.                          *)
LEMMA Swapping ==
  ASSUME InvHeap, SwapChunks(pc'),
         \A l \in Roots \cup Bodies(other) : ~Outstanding(l)
  PROVE  /\ InvHeap'
         /\ other'.objects = <<>>
         /\ \A o \in Objects(current)' : Color(o)' = COLOR_WHITE
         /\ Objects(current)' = Objects(other) /\ Objects(other)' = {} /\ Roots' = Roots
         /\ DOMAIN identity' = Objects(other)
         /\ \A o \in Objects(other) : identity'[o] = identity[o] /\ Size(o)' = Size(o)
         /\ \A l \in Roots \cup Bodies(other) :
              mem'[l] = mem[l] /\ PointsTo(mem[l], Objects(other))
<1> DEFINE low == current.chunk
           lowO == other.chunk
<1>1. /\ current \in Space /\ other \in Space /\ Layout(current) /\ Layout(other)
      /\ low \in Int /\ lowO \in Int
      /\ other.cursor <= lowO + ChunkWords + 1
      /\ low + ChunkWords + 1 <= lowO \/ lowO + ChunkWords + 1 <= low
  BY Chunks
<1>2. /\ current' = other
      /\ other' = [chunk |-> low, cursor |-> low, objects |-> <<>>]
      /\ mem' = [a \in Address |-> IF a \in low .. ChunkEnd(low) - 1 THEN ZAP_WORD ELSE mem[a]]
      /\ identity' = [a \in {b \in DOMAIN identity : \E i \in 1 .. Len(other.objects) :
                                                       b = other.objects[i]} |-> identity[a]]
      /\ UNCHANGED <<handles, frames, ptrs, walk, scan, memory_gc_stress>>
  BY DEF SwapChunks
<1>3. /\ Objects(current)' = Objects(other) /\ Objects(other)' = {}
      /\ Bodies(current)' = Bodies(other) /\ Bodies(other)' = {}
      /\ AllObjects' = Objects(other)
  <2>1. Objects(current)' = Objects(other) /\ Objects(other)' = {}
    BY <1>2 DEF Objects
  <2>2. Bodies(current)' = Bodies(other) /\ Bodies(other)' = {}
    BY <1>2 DEF Bodies, Extent
  <2> QED BY <2>1, <2>2 DEF AllObjects
<1>4. /\ ChunkWords \in Nat /\ FirstChunk \in Int /\ HandleCell \in Int
      /\ ChunkEnd(low) = low + ChunkWords
      /\ low + ChunkWords + 1 <= HandleCell /\ FirstChunk <= low
  <2>1. low \in Chunk
    BY DEF InvHeap, InvTypes
  <2> QED BY <2>1, <1>1, Places
<1>5. \A a \in low .. ChunkEnd(low) - 1 :
        /\ a \in Int /\ InHeap(a)
        /\ ~(lowO <= a /\ a < lowO + ChunkWords + 1)
  <2> HIDE DEF low, lowO
  <2> QED BY <1>1, <1>4 DEF InHeap
<1>6. \A l \in Stack \cup {HandleCell} \cup Bodies(other) :
        l \in Address /\ mem'[l] = mem[l]
  <2> TAKE l \in Stack \cup {HandleCell} \cup Bodies(other)
  <2>1. l \in Address
    BY StackFacts, Words
  <2>2. l \notin low .. ChunkEnd(low) - 1
    <3>1. CASE l \in Stack \cup {HandleCell}
      BY <3>1, <1>5, StackFacts
    <3>2. CASE l \in Bodies(other)
      <4>1. l \in Int /\ lowO + 2 <= l /\ l < other.cursor /\ other.cursor \in Int
        BY <3>2, <1>1, LayoutFacts, SpaceTypes
      <4>2. PICK cursor : cursor = other.cursor
        OBVIOUS
      <4> HIDE DEF low, lowO
      <4>3. lowO <= l /\ l < lowO + ChunkWords + 1
        BY <4>1, <4>2, <1>1, <1>4
      <4> QED BY <4>3, <1>5
    <3> QED BY <3>1, <3>2
  <2> QED BY <2>1, <2>2, <1>2
<1>7. \A o \in Objects(other) : mem'[o - 1] = mem[o - 1] /\ mem'[o - 2] = mem[o - 2]
  <2> TAKE o \in Objects(other)
  <2>1. o - 1 \in Address /\ o - 2 \in Address /\ o \in Int
        /\ lowO + 2 <= o /\ o < lowO + ChunkWords
    BY Words, Regions DEF AllObjects
  <2>2. /\ lowO <= o - 1 /\ o - 1 < lowO + ChunkWords + 1
        /\ lowO <= o - 2 /\ o - 2 < lowO + ChunkWords + 1
    <3> HIDE DEF low, lowO
    <3> QED BY <2>1, <1>1, <1>4
  <2> QED BY <2>1, <2>2, <1>2, <1>5
<1>8. \A o \in Objects(other) : Color(o)' = COLOR_WHITE /\ Size(o)' = Size(o)
  BY <1>7 DEF InvHeap, InvLayout, Color, Size
<1>9. ASSUME NEW l \in Roots \cup Bodies(other)
      PROVE  PointsTo(mem[l], Objects(other))
  <2>1. mem[l] \in Int /\ PointsTo(mem[l], AllObjects) /\ ~Outstanding(l)
    BY Words DEF InvHeap, InvWords
  <2> QED BY <2>1, InChunk DEF PointsTo, Outstanding, AllObjects
<1>10. mem' \in [Address -> Int]
  BY <1>2, Words DEF ZAP_WORD
<1>11. InvTypes'
  BY <1>1, <1>2, <1>10 DEF InvHeap, InvTypes
<1>12. /\ DOMAIN identity' = Objects(other)
       /\ \A o \in Objects(other) : identity'[o] = identity[o]
  BY <1>2 DEF InvHeap, InvIdentity, AllObjects, Objects
<1>13. InvLayout'
  <2>1. Layout(current)' /\ Layout(other)'
    BY <1>1, <1>2 DEF Layout, End
  <2>2. InvHeaders(other)' /\ \A o \in Objects(other)' : Color(o)' = COLOR_WHITE
    BY <1>2, <1>3 DEF InvHeaders
  <2>3. InvHeaders(current)'
    <3>1. \A i \in 1 .. Len(other.objects) : other.objects[i] \in Objects(other)
      BY DEF Objects
    <3>2. \A i \in 1 .. Len(other.objects) :
            /\ Color(other.objects[i]) = COLOR_WHITE
            /\ Size(other.objects[i]) = End(other, i) - other.objects[i]
            /\ IsContextObject(other.objects[i]) =>
                 End(other, i) - other.objects[i] = ContextWords
      BY <3>1 DEF InvHeap, InvLayout, InvHeaders
    <3>3. ASSUME NEW i \in 1 .. Len(other.objects), NEW o, o = other.objects[i]
          PROVE  /\ Color(o)' = COLOR_WHITE
                 /\ Size(o)' = End(other, i) - o
                 /\ IsContextObject(o)' => End(other, i) - o = ContextWords
      BY <3>1, <3>2, <3>3, <1>8, <1>12 DEF IsContextObject
    <3> QED BY <3>3, <1>2 DEF InvHeaders, End, Color, Size, IsContextObject
  <2>4. (current.cursor <= ChunkEnd(current.chunk) + 1)'
    BY <1>1, <1>2, Places
  <2> QED BY <2>1, <2>2, <2>3, <2>4, <1>3 DEF InvLayout
<1>14. InvRoom'
  <2>1. \A i \in 1 .. Len(current'.objects) : current'.objects[i] \in Objects(other)
    BY <1>2 DEF Objects
  <2>2. \A i \in 1 .. Len(current'.objects) : Color(current.objects[i])' # COLOR_MOVED
    BY <2>1, <1>8 DEF COLOR_WHITE, COLOR_MOVED, Color
  <2>3. MovedWords' = {}
    BY <2>2 DEF MovedWords
  <2>4. Cardinality(MovedWords') = 0
    BY <2>3, FS_EmptySet
  <2> QED BY <2>4, <1>1, <1>2 DEF InvRoom
<1>15. InvIdentity'
  BY <1>3, <1>6, <1>12, Regions DEF InvHeap, InvIdentity, IsContextObject, SPILL_COUNT, AllObjects
<1>16. InvForwarding'
  BY <1>3, <1>8 DEF InvForwarding, COLOR_WHITE, COLOR_MOVED
<1>17. ASSUME NEW i \in 1 .. Len(frames)
       PROVE  /\ HasPointerTag(mem'[frames[i]])
              /\ UntagPointer(mem'[frames[i]]) \in AllObjects'
              /\ identity'[UntagPointer(mem'[frames[i]])].kind \in {"main", "context"}
              /\ mem'[UntagPointer(mem'[frames[i]]) + SPILL_COUNT] = SpillCount(frames[i])
  <2>1. /\ HasPointerTag(mem[frames[i]])
        /\ UntagPointer(mem[frames[i]]) \in AllObjects
        /\ IsContextObject(UntagPointer(mem[frames[i]]))
    BY DEF InvHeap, InvFrames, IsFrame, FunctionContext
  <2>2. mem'[frames[i]] = mem[frames[i]] /\ frames[i] \in Roots
    BY <1>6, StackFacts, Words
  <2>3. InHeap(UntagPointer(mem[frames[i]]))
    BY <2>1, Regions
  <2>4. UntagPointer(mem[frames[i]]) \in Objects(other)
    BY <2>1, <2>2, <2>3, <1>9 DEF PointsTo
  <2>5. UntagPointer(mem[frames[i]]) + 1 \in Bodies(other)
    BY <2>4, Regions
  <2> QED BY <2>1, <2>2, <2>4, <2>5, <1>3, <1>6, <1>12
          DEF SpillCount, FunctionContext, IsContextObject, SPILL_COUNT
<1>18. InvFrames' /\ Stack' = Stack
  BY <1>2, <1>17, FramesKept
<1>19. Roots' = Roots
  BY <1>2, <1>18 DEF Roots, Stack
<1>20. InvWords'
  <2>1. \A l \in Roots \cup Bodies(other) : mem'[l] = mem[l]
    BY <1>6, Words
  <2>2. \A l \in Roots \cup Bodies(other) : PointsTo(mem'[l], Objects(other))
    BY <2>1, <1>9
  <2>3. HandleCell \in handles' => HasPointerTag(mem'[HandleCell])
    BY <1>2, <1>6 DEF InvHeap, InvWords
  <2> QED BY <2>2, <2>3, <1>3, <1>19 DEF InvWords, PointsTo
<1>21. \A o \in Objects(current)' : Color(o)' = COLOR_WHITE
  BY <1>3, <1>8
<1>22. other'.objects = <<>>
  BY <1>2
<1>23. \A l \in Roots \cup Bodies(other) : mem'[l] = mem[l]
  BY <1>6, Words
<1>24. InvHeap'
  BY <1>11, <1>13, <1>14, <1>15, <1>16, <1>18, <1>20 DEF InvHeap
<1> QED BY ONLY <1>3, <1>8, <1>9, <1>12, <1>19, <1>21, <1>22, <1>23, <1>24

(* A block at the cursor of the current chunk is apart from everything, if  *)
(* the other chunk is empty.                                                *)
LEMMA BlockAtCursor ==
  ASSUME InvHeap, other.objects = <<>>, NEW size \in Int, size >= 0,
         current.cursor + size + 2 <= current.chunk + ChunkWords + 1,
         NEW l \in current.cursor .. current.cursor + size + 1
  PROVE  /\ l \in Int /\ InHeap(l) /\ l \in Address
         /\ l \notin Bodies(current) /\ l \notin Stack /\ l # HandleCell
         /\ \A o \in AllObjects : l # o /\ l # o - 1 /\ l # o - 2
<1> DEFINE low == current.chunk
           high == current.cursor
<1>1. /\ current \in Space /\ Layout(current)
      /\ low \in Int /\ high \in Int /\ FirstChunk <= low /\ low <= high
  BY Chunks
<1>2. /\ ChunkWords \in Nat /\ FirstChunk \in Int /\ HandleCell \in Int
      /\ low + ChunkWords + 1 <= HandleCell
  <2>1. low \in Chunk
    BY DEF InvHeap, InvTypes
  <2> HIDE DEF low
  <2> QED BY <2>1, <1>1, Places
<1>3. /\ \A o \in AllObjects : o \in Int /\ low + 2 <= o /\ o + 2 <= high
      /\ \A x \in Bodies(current) : x \in Int /\ low + 2 <= x /\ x < high
  BY <1>1, LayoutFacts DEF AllObjects, Objects
<1> HIDE DEF low, high
<1>4. l \in Int /\ high <= l /\ l < low + ChunkWords + 1
  BY <1>1, <1>2 DEF low, high
<1>5. InHeap(l)
  BY <1>1, <1>2, <1>4 DEF InHeap
<1>6. l \in Address /\ l \notin Stack /\ l # HandleCell
  BY <1>4, <1>5, StackFacts
<1>7. l \notin Bodies(current) /\ \A o \in AllObjects : l # o /\ l # o - 1 /\ l # o - 2
  BY <1>1, <1>3, <1>4
<1> QED BY <1>4, <1>5, <1>6, <1>7

(* The memory after an allocation whose result went to the register r.      *)
MemoryWithResult(size, fields, r) ==
  [MemoryWithObject(size, fields) EXCEPT
     ![r] = TagPointer(current.cursor + 2), ![HandleCell] = 0]

(* The new object has its header and its fields, and all else is as it was. *)
LEMMA AllocatedMemory ==
  ASSUME InvHeap, other.objects = <<>>, NEW size \in Int, size >= 2,
         current.cursor + size + 2 <= current.chunk + ChunkWords + 1,
         NEW fields \in [0 .. size - 1 -> Int], NEW r \in Stack,
         mem' = MemoryWithResult(size, fields, r)
  PROVE  /\ mem' \in [Address -> Int]
         /\ mem'[r] = TagPointer(current.cursor + 2)
         /\ \A l \in Bodies(current) \cup Stack : l # r => mem'[l] = mem[l]
         /\ \A x \in AllObjects : mem'[x - 1] = mem[x - 1] /\ mem'[x - 2] = mem[x - 2]
         /\ mem'[current.cursor + 1] = COLOR_WHITE /\ mem'[current.cursor] = size
         /\ \A j \in 0 .. size - 1 : mem'[current.cursor + 2 + j] = fields[j]
<1>1. PICK object, base : base = current.cursor /\ object = current.cursor + 2
  OBVIOUS
<1>2. base \in Int /\ object \in Int /\ object = base + 2
  BY <1>1, Chunks
<1> DEFINE block == base .. base + size + 1
           body == object .. object + size - 1
<1>3. \A l \in block :
        /\ l \in Int /\ l \in Address
        /\ l \notin Bodies(current) /\ l \notin Stack /\ l # HandleCell
        /\ \A x \in AllObjects : l # x /\ l # x - 1 /\ l # x - 2
  BY <1>1, BlockAtCursor
<1>4. /\ object - 1 \in block /\ object - 2 \in block
      /\ object - 1 \notin body /\ object - 2 \notin body /\ object - 1 # object - 2
      /\ \A a : a \in body => a \in block /\ a - object \in 0 .. size - 1
                              /\ a # object - 1 /\ a # object - 2
      /\ \A j \in 0 .. size - 1 : object + j \in body /\ object + j - object = j
  BY <1>2
<1>5. r # HandleCell /\ r \in Address /\ HandleCell \in Address /\ r \notin block
  BY <1>3, StackFacts
<1>6. TagPointer(object) \in Int
  BY <1>2, TagUntag
<1> HIDE DEF block, body
<1>7. /\ mem' = [a \in Address |-> mem'[a]]
      /\ \A a \in Address : mem'[a] = IF a = HandleCell THEN 0
                                   ELSE IF a = r THEN TagPointer(object)
                                   ELSE IF a = object - 2 THEN size
                                   ELSE IF a = object - 1 THEN COLOR_WHITE
                                   ELSE IF a \in body THEN fields[a - object]
                                   ELSE mem[a]
  <2>1. MemoryWithObject(size, fields) =
          [a \in Address |-> IF a = object - 2 THEN size
                             ELSE IF a = object - 1 THEN COLOR_WHITE
                             ELSE IF a \in body THEN fields[a - object]
                             ELSE mem[a]]
    BY <1>1 DEF MemoryWithObject, body
  <2>2. PICK m : m = MemoryWithObject(size, fields)
    OBVIOUS
  <2>3. mem' = [m EXCEPT ![r] = TagPointer(object), ![HandleCell] = 0]
    BY <2>2, <1>1 DEF MemoryWithResult
  <2> QED BY <2>1, <2>2, <2>3, <1>5
<1>8. mem' \in [Address -> Int]
  <2>1. \A a \in body : fields[a - object] \in Int
    BY <1>4
  <2>2. \A a \in Address : mem[a] \in Int
    BY Words
  <2>3. ASSUME NEW a \in Address PROVE mem'[a] \in Int
    <3>1. \/ mem'[a] = 0 \/ mem'[a] = TagPointer(object) \/ mem'[a] = size
          \/ mem'[a] = COLOR_WHITE
          \/ a \in body /\ mem'[a] = fields[a - object]
          \/ mem'[a] = mem[a]
      BY <1>7
    <3> QED BY <3>1, <2>1, <2>2, <1>6 DEF COLOR_WHITE
  <2> QED BY <2>3, <1>7
<1>9. \A a \in Address : a \notin block /\ a # HandleCell /\ a # r => mem'[a] = mem[a]
  BY <1>4, <1>7
<1>10. \A l \in Bodies(current) \cup Stack : l # r => mem'[l] = mem[l]
  <2> TAKE l \in Bodies(current) \cup Stack
  <2>1. l \in Address
    BY Words, StackFacts
  <2>2. l # HandleCell
    BY StackFacts, Regions
  <2>3. l \notin block
    BY <1>3
  <2> QED BY <2>1, <2>2, <2>3, <1>9
<1>11. \A x \in AllObjects : mem'[x - 1] = mem[x - 1] /\ mem'[x - 2] = mem[x - 2]
  <2> TAKE x \in AllObjects
  <2>1. x - 1 \in Address /\ x - 2 \in Address
    BY Words
  <2>2. x - 1 \notin block /\ x - 2 \notin block
    BY <1>3
  <2>3. InHeap(x - 1) /\ InHeap(x - 2)
    BY Regions
  <2>4. ~InHeap(HandleCell) /\ ~InHeap(r)
    BY StackFacts
  <2>5. /\ x - 1 # HandleCell /\ x - 2 # HandleCell
        /\ x - 1 # r /\ x - 2 # r
    BY <2>3, <2>4
  <2> QED BY <2>1, <2>2, <2>5, <1>9
<1>12. mem'[object - 1] = COLOR_WHITE /\ mem'[object - 2] = size
  <2>1. /\ object - 1 \in Address /\ object - 1 # HandleCell /\ object - 1 # r
        /\ object - 2 \in Address /\ object - 2 # HandleCell /\ object - 2 # r
    BY <1>3, <1>4, <1>5
  <2>2. mem'[object - 2] = size
    BY <2>1, <1>7
  <2>3. mem'[object - 1] = COLOR_WHITE
    BY <2>1, <1>4, <1>7
  <2> QED BY <2>2, <2>3
<1>13. \A j \in 0 .. size - 1 : mem'[object + j] = fields[j]
  <2> TAKE j \in 0 .. size - 1
  <2>1. PICK a : a = object + j
    OBVIOUS
  <2>2. a \in body
    BY <2>1, <1>4
  <2>3. a - object = j
    BY <2>1, <1>2
  <2>4. a \in Address /\ a # HandleCell /\ a # r /\ a # object - 1 /\ a # object - 2
    BY <2>2, <1>3, <1>4, <1>5
  <2>5. mem'[a] = fields[a - object]
    BY <2>2, <2>4, <1>7
  <2> QED BY <2>1, <2>3, <2>5
<1>14. mem'[r] = TagPointer(object)
  BY <1>5, <1>7
<1>15. object - 1 = current.cursor + 1 /\ object - 2 = current.cursor
  <2>1. object - 1 = base + 1 /\ object - 2 = base
    BY ONLY <1>2
  <2> QED BY <2>1, <1>1
<1> QED BY <1>1, <1>8, <1>10, <1>11, <1>12, <1>13, <1>14, <1>15

(* The history variable after an allocation.                                *)
IdentityWithObject(id) ==
  [a \in DOMAIN identity \cup {current.cursor + 2} |->
     IF a = current.cursor + 2 THEN id ELSE identity[a]]

(* A new object at the cursor keeps the part of the invariant about memory. *)
LEMMA Allocating ==
  ASSUME InvHeap, other.objects = <<>>,
         \A o \in Objects(current) : Color(o) = COLOR_WHITE,
         NEW size \in Int, size >= 2,
         current.cursor + size + 2 <= current.chunk + ChunkWords + 1,
         NEW fields \in [0 .. size - 1 -> Int], NEW r \in Stack,
         \A i \in 1 .. Len(frames) : frames[i] # r,
         \A j \in 0 .. size - 1 : PointsTo(fields[j], Objects(current)),
         NEW id, id.kind \in {"context", "function", "array"},
         id.kind = "context" => size = ContextWords /\ fields[SPILL_COUNT] = 0,
         mem' = MemoryWithResult(size, fields, r),
         ReserveAtCursor(size), identity' = IdentityWithObject(id),
         UNCHANGED <<other, frames>>, handles' = {}
  PROVE  InvHeap' /\ \A o \in Objects(current)' : Color(o)' = COLOR_WHITE
<1>1. PICK object : object = current.cursor + 2
  OBVIOUS
<1>2. /\ current.cursor \in Int /\ current.chunk \in Int /\ object \in Int
      /\ current \in Space /\ Layout(current)
      /\ Len(current.objects) \in Nat
  BY <1>1, Chunks, SpaceTypes
<1>3. /\ mem' \in [Address -> Int]
      /\ mem'[r] = TagPointer(object)
      /\ \A l \in Bodies(current) \cup Stack : l # r => mem'[l] = mem[l]
      /\ \A x \in AllObjects : mem'[x - 1] = mem[x - 1] /\ mem'[x - 2] = mem[x - 2]
      /\ \A j \in 0 .. size - 1 : mem'[object + j] = fields[j]
      /\ mem'[object - 1] = COLOR_WHITE /\ mem'[object - 2] = size
  <2>1. /\ mem' \in [Address -> Int]
        /\ mem'[r] = TagPointer(current.cursor + 2)
        /\ \A l \in Bodies(current) \cup Stack : l # r => mem'[l] = mem[l]
        /\ \A x \in AllObjects : mem'[x - 1] = mem[x - 1] /\ mem'[x - 2] = mem[x - 2]
        /\ mem'[current.cursor + 1] = COLOR_WHITE /\ mem'[current.cursor] = size
        /\ \A j \in 0 .. size - 1 : mem'[current.cursor + 2 + j] = fields[j]
    BY ONLY InvHeap, other.objects = <<>>, size \in Int, size >= 2,
            current.cursor + size + 2 <= current.chunk + ChunkWords + 1,
            fields \in [0 .. size - 1 -> Int], r \in Stack,
            mem' = MemoryWithResult(size, fields, r), AllocatedMemory
  <2>2. PICK cursor : cursor = current.cursor
    OBVIOUS
  <2>3. cursor \in Int /\ object = cursor + 2
    BY <2>2, <1>1, <1>2
  <2>4. object - 1 = cursor + 1 /\ object - 2 = cursor
    BY ONLY <2>3
  <2> QED BY <2>1, <2>2, <2>4, <1>1
<1>4. /\ current' \in Space /\ Layout(current')
      /\ current'.chunk = current.chunk /\ current'.cursor = current.cursor + size + 2
      /\ Len(current'.objects) = Len(current.objects) + 1
      /\ \A i \in 1 .. Len(current.objects) :
           current'.objects[i] = current.objects[i] /\ End(current', i) = End(current, i)
      /\ current'.objects[Len(current'.objects)] = object
      /\ End(current', Len(current'.objects)) = object + size
      /\ Objects(current') = Objects(current) \cup {object}
      /\ \A l : l \in Bodies(current') <=>
                l \in Bodies(current) \/ l \in object .. object + size - 1
  <2>1. PICK new, space : new = current' /\ space = current
    OBVIOUS
  <2>2. /\ current' \in Space
        /\ current'.chunk = current.chunk /\ current'.cursor = current.cursor + size + 2
        /\ current'.objects = Append(current.objects, current.cursor + 2)
    BY <1>2 DEF Space, ReserveAtCursor
  <2>3. /\ new \in Space /\ space \in Space /\ Layout(space)
        /\ new.chunk = space.chunk /\ new.cursor = space.cursor + size + 2
        /\ new.objects = Append(space.objects, space.cursor + 2)
    BY <2>1, <2>2, <1>2
  <2>4. /\ Layout(new)
        /\ Len(new.objects) = Len(space.objects) + 1
        /\ \A i \in 1 .. Len(space.objects) :
             new.objects[i] = space.objects[i] /\ End(new, i) = End(space, i)
        /\ new.objects[Len(new.objects)] = space.cursor + 2
        /\ End(new, Len(new.objects)) = space.cursor + 2 + size
        /\ Objects(new) = Objects(space) \cup {space.cursor + 2}
        /\ \A l : l \in Bodies(new) <=>
                    l \in Bodies(space) \/ l \in space.cursor + 2 .. space.cursor + 2 + size - 1
    BY <2>3, LayoutAppend
  <2> QED BY <2>1, <2>2, <2>3, <2>4, <1>1
<1>5. Objects(other) = {} /\ Bodies(other) = {} /\ AllObjects = Objects(current)
  BY DEF Objects, Bodies, AllObjects
<1>6. /\ Objects(current)' = Objects(current) \cup {object}
      /\ Objects(other)' = {} /\ Bodies(other)' = {}
      /\ \A l : l \in Bodies(current)' <=>
                l \in Bodies(current) \/ l \in object .. object + size - 1
      /\ AllObjects' = AllObjects \cup {object}
  <2>1. Objects(current)' = Objects(current') /\ Objects(other)' = Objects(other)
    BY DEF Objects
  <2>2. Bodies(current)' = Bodies(current') /\ Bodies(other)' = Bodies(other)
    BY DEF Bodies, Extent
  <2>3. AllObjects' = Objects(current)' \cup Objects(other)'
    BY DEF AllObjects
  <2> QED BY <2>1, <2>2, <2>3, <1>4, <1>5
<1>7. object \notin AllObjects
  <2>1. object \in current.cursor .. current.cursor + size + 1
    <3>1. PICK cursor : cursor = current.cursor
      OBVIOUS
    <3>2. cursor \in Int /\ object = cursor + 2 /\ size \in Int /\ size >= 2
      BY <3>1, <1>1, <1>2
    <3>3. object \in cursor .. cursor + size + 1
      BY ONLY <3>2
    <3> QED BY <3>1, <3>3
  <2> QED BY <2>1, BlockAtCursor
<1>8. /\ DOMAIN identity' = AllObjects'
      /\ \A x \in AllObjects : identity'[x] = identity[x]
      /\ identity'[object] = id
      /\ \A x \in AllObjects : IsContextObject(x)' <=> IsContextObject(x)
      /\ IsContextObject(object)' => id.kind = "context"
  <2>1. DOMAIN identity = AllObjects
    BY DEF InvHeap, InvIdentity
  <2>2. /\ DOMAIN identity' = AllObjects'
        /\ \A x \in AllObjects : identity'[x] = identity[x]
        /\ identity'[object] = id
    BY <2>1, <1>1, <1>6, <1>7 DEF IdentityWithObject
  <2> QED BY <2>2 DEF IsContextObject
<1>9. InvTypes'
  <2>1. current'.cursor \in Int /\ current'.objects \in Seq(Int)
    BY <1>4 DEF Space
  <2>2. current' \in [chunk : Chunk, cursor : Int, objects : Seq(Int)]
    BY <2>1, <1>4 DEF InvHeap, InvTypes, ReserveAtCursor
  <2> QED BY <2>2, <1>3, <1>4 DEF InvHeap, InvTypes
<1>10. \A x \in AllObjects : Color(x)' = Color(x) /\ Size(x)' = Size(x)
  BY <1>3 DEF Color, Size
<1>11. Color(object)' = COLOR_WHITE /\ Size(object)' = size
  BY <1>3 DEF Color, Size
<1>12. \A o \in Objects(current)' : Color(o)' = COLOR_WHITE
  BY <1>5, <1>6, <1>10, <1>11
<1>13. /\ \A i \in 1 .. Len(current.objects) :
            current.objects[i] \in Objects(current) /\ current.objects[i] \in AllObjects
       /\ \A i \in 1 .. Len(current'.objects) : current'.objects[i] \in Objects(current)'
  BY DEF Objects, AllObjects
<1>14. InvHeaders(current)'
  <2>1. ASSUME NEW i \in 1 .. Len(current'.objects), NEW o, o = current'.objects[i]
        PROVE  /\ Color(o)' = COLOR_WHITE
               /\ Size(o)' = End(current', i) - o
               /\ IsContextObject(o)' => End(current', i) - o = ContextWords
    <3>1. CASE i \in 1 .. Len(current.objects)
      <4>1. o = current.objects[i] /\ End(current', i) = End(current, i) /\ o \in AllObjects
        BY <2>1, <3>1, <1>4, <1>13
      <4>2. /\ Color(o) = COLOR_WHITE
            /\ Size(o) = End(current, i) - o
            /\ IsContextObject(o) => End(current, i) - o = ContextWords
        BY <3>1, <4>1, <1>5 DEF InvHeap, InvLayout, InvHeaders
      <4> QED BY <4>1, <4>2, <1>8, <1>10
    <3>2. CASE i = Len(current'.objects)
      <4>1. o = object
        BY <2>1, <3>2, <1>4
      <4>2. PICK end : end = End(current', i)
        OBVIOUS
      <4>3. end = object + size
        BY <3>2, <4>2, <1>4
      <4>4. end - object = size
        BY <4>3, <1>2
      <4> QED BY <4>1, <4>2, <4>4, <1>8, <1>11
    <3> QED BY <3>1, <3>2, <1>2, <1>4
  <2> QED BY ONLY <2>1 DEF InvHeaders, End, Color, Size, IsContextObject
<1>15. InvLayout'
  <2>1. Layout(current)' /\ Layout(other)'
    BY <1>4 DEF Layout, End, InvHeap, InvLayout
  <2>2. InvHeaders(other)' /\ \A o \in Objects(other)' : Color(o)' = COLOR_WHITE
    BY <1>6 DEF InvHeaders
  <2>3. (current.cursor <= ChunkEnd(current.chunk) + 1)'
    BY <1>2, <1>4, Places
  <2> QED BY <2>1, <2>2, <2>3, <1>6, <1>14 DEF InvLayout
<1>16. InvRoom'
  <2>1. \A i \in 1 .. Len(current'.objects) : Color(current.objects[i])' # COLOR_MOVED
    BY ONLY <1>12, <1>13 DEF COLOR_WHITE, COLOR_MOVED, Color
  <2>2. MovedWords' = {}
    BY <2>1 DEF MovedWords
  <2>3. Cardinality(MovedWords') = 0
    BY <2>2, FS_EmptySet
  <2>4. other.cursor = other.chunk /\ other.chunk \in Int
    BY Chunks DEF Layout
  <2> QED BY <2>3, <2>4 DEF InvRoom
<1>17. InvIdentity'
  <2>1. ASSUME NEW x \in AllObjects
        PROVE  /\ identity'[x].kind \in {"main", "context", "function", "array"}
               /\ IsContextObject(x)' => mem'[x + SPILL_COUNT] \in 0 .. MaxSpills
    <3>1. /\ identity[x].kind \in {"main", "context", "function", "array"}
          /\ IsContextObject(x) => mem[x + SPILL_COUNT] \in 0 .. MaxSpills
      BY DEF InvHeap, InvIdentity
    <3>2. x + 1 \in Bodies(current) /\ x + 1 # r
      BY <1>5, Regions, StackFacts
    <3> QED BY <3>1, <3>2, <1>3, <1>8 DEF SPILL_COUNT
  <2>2. /\ identity'[object].kind \in {"main", "context", "function", "array"}
        /\ IsContextObject(object)' => mem'[object + SPILL_COUNT] \in 0 .. MaxSpills
    <3>1. 1 \in 0 .. size - 1 /\ 0 \in 0 .. MaxSpills
      BY ONLY size \in Int, size >= 2, MemoryAssumption
    <3> QED BY <3>1, <1>3, <1>8 DEF SPILL_COUNT
  <2> QED BY <2>1, <2>2, <1>6, <1>8 DEF InvIdentity
<1>18. InvForwarding'
  BY <1>12 DEF InvForwarding, COLOR_WHITE, COLOR_MOVED
<1>19. ASSUME NEW i \in 1 .. Len(frames)
       PROVE  /\ HasPointerTag(mem'[frames[i]])
              /\ UntagPointer(mem'[frames[i]]) \in AllObjects'
              /\ identity'[UntagPointer(mem'[frames[i]])].kind \in {"main", "context"}
              /\ mem'[UntagPointer(mem'[frames[i]]) + SPILL_COUNT] = SpillCount(frames[i])
  <2>1. /\ HasPointerTag(mem[frames[i]])
        /\ UntagPointer(mem[frames[i]]) \in AllObjects
        /\ IsContextObject(UntagPointer(mem[frames[i]]))
    BY DEF InvHeap, InvFrames, IsFrame, FunctionContext
  <2>2. mem'[frames[i]] = mem[frames[i]]
    BY <1>3, StackFacts
  <2>3. /\ UntagPointer(mem[frames[i]]) + 1 \in Bodies(current)
        /\ UntagPointer(mem[frames[i]]) + 1 # r
    BY <2>1, <1>5, Regions, StackFacts
  <2> QED BY <2>1, <2>2, <2>3, <1>3, <1>6, <1>8
          DEF SpillCount, FunctionContext, IsContextObject, SPILL_COUNT
<1>20. InvFrames' /\ Stack' = Stack
  BY <1>19, FramesKept
<1>21. Roots' = Stack
  BY <1>20 DEF Roots, Stack
<1>22. InvWords'
  <2>1. ASSUME NEW l \in Stack PROVE PointsTo(mem'[l], AllObjects')
    <3>1. CASE l = r
      BY <3>1, <1>2, <1>3, <1>6, TagUntag DEF PointsTo
    <3>2. CASE l # r
      <4>1. mem'[l] = mem[l] /\ PointsTo(mem[l], AllObjects)
        BY <3>2, <1>3, Words DEF InvHeap, InvWords
      <4> QED BY <4>1, <1>6 DEF PointsTo
    <3> QED BY <3>1, <3>2
  <2>2. ASSUME NEW l \in Bodies(current)' PROVE PointsTo(mem'[l], Objects(current)')
    <3>1. CASE l \in Bodies(current)
      <4>1. l # r
        BY <3>1, Regions, StackFacts
      <4>2. mem'[l] = mem[l] /\ PointsTo(mem[l], Objects(current))
        BY <3>1, <4>1, <1>3 DEF InvHeap, InvWords
      <4> QED BY <4>2, <1>6 DEF PointsTo
    <3>2. CASE l \in object .. object + size - 1
      <4>1. PICK j : j \in 0 .. size - 1 /\ l = object + j
        <5>1. object \in Int /\ size \in Int
          BY <1>2
        <5>2. l - object \in 0 .. size - 1 /\ l = object + (l - object)
          BY ONLY <3>2, <5>1
        <5> QED BY ONLY <5>2
      <4>2. mem'[l] = fields[j] /\ PointsTo(fields[j], Objects(current))
        BY <4>1, <1>3
      <4> QED BY <4>2, <1>6 DEF PointsTo
    <3> QED BY <3>1, <3>2, <1>6
  <2>3. Bodies(other)' = {}
    BY <1>6
  <2> QED BY <2>1, <2>2, <2>3, <1>21 DEF InvWords, PointsTo
<1>23. InvHeap'
  BY <1>9, <1>15, <1>16, <1>17, <1>18, <1>20, <1>22 DEF InvHeap
<1> QED BY <1>12, <1>23

(* While nothing is moved, a step that keeps the headers of the objects and *)
(* a sensible spill count in every context keeps what is said of them.      *)
LEMMA HeadersKept ==
  ASSUME InvHeap, other.objects = <<>>,
         \A o \in Objects(current) : Color(o) = COLOR_WHITE,
         UNCHANGED <<current, other, identity>>,
         \A o \in AllObjects :
           /\ mem'[o - 1] = mem[o - 1] /\ mem'[o - 2] = mem[o - 2]
           /\ IsContextObject(o) => mem'[o + SPILL_COUNT] \in 0 .. MaxSpills
  PROVE  /\ InvLayout' /\ InvRoom' /\ InvIdentity' /\ InvForwarding'
         /\ Objects(current)' = Objects(current) /\ AllObjects' = Objects(current)
         /\ Bodies(current)' = Bodies(current) /\ Bodies(other)' = {}
         /\ \A o \in Objects(current)' : Color(o)' = COLOR_WHITE
<1>1. /\ Objects(current)' = Objects(current) /\ Objects(other)' = {}
      /\ AllObjects' = Objects(current) /\ AllObjects = Objects(current)
      /\ Bodies(current)' = Bodies(current) /\ Bodies(other)' = {}
  BY DEF AllObjects, Objects, Bodies, Extent
<1>2. \A o \in AllObjects : Color(o)' = COLOR_WHITE /\ Size(o)' = Size(o)
  BY <1>1 DEF Color, Size
<1>3. \A i \in 1 .. Len(current.objects) : current.objects[i] \in AllObjects
  BY DEF Objects, AllObjects
<1>4. InvHeaders(current)' /\ InvHeaders(other)'
  <2>1. InvHeaders(current)'
    BY <1>1, <1>2, <1>3 DEF InvHeap, InvLayout, InvHeaders, IsContextObject, Color, Size, End
  <2> QED BY <2>1 DEF InvHeaders
<1>5. InvLayout'
  BY <1>1, <1>4 DEF InvHeap, InvLayout, Layout, End, ChunkEnd
<1>6. InvRoom'
  <2>1. \A i \in 1 .. Len(current.objects) : Color(current.objects[i])' # COLOR_MOVED
    BY <1>2, <1>3 DEF COLOR_WHITE, COLOR_MOVED, Color
  <2>2. MovedWords' = {}
    BY <2>1 DEF MovedWords
  <2>3. Cardinality(MovedWords') = 0
    BY <2>2, FS_EmptySet
  <2>4. other.cursor = other.chunk /\ other.chunk \in Int
    BY Chunks DEF Layout
  <2> QED BY <2>3, <2>4 DEF InvRoom
<1>7. InvIdentity'
  BY <1>1 DEF InvHeap, InvIdentity, IsContextObject
<1>8. InvForwarding'
  BY <1>1, <1>2 DEF InvForwarding, COLOR_WHITE, COLOR_MOVED
<1> QED BY <1>1, <1>2, <1>5, <1>6, <1>7, <1>8

-----------------------------------------------------------------------------
(* While the program runs the other chunk is empty, and nothing is moved.   *)
LEMMA Idle ==
  ASSUME Invariant, pc \in {"program", "allocate", "out_of_memory"}
  PROVE  /\ other.objects = <<>> /\ Objects(other) = {} /\ Bodies(other) = {}
         /\ AllObjects = Objects(current)
         /\ ptrs = <<>> /\ scan = NoScan
         /\ pc = "program" => handles = {} /\ request = NoRequest /\ gc_count = 0
<1>1. other.objects = <<>>
  BY DEF Invariant, InvIdle
<1>2. Objects(other) = {} /\ Bodies(other) = {} /\ AllObjects = Objects(current)
  BY <1>1 DEF Objects, Bodies, AllObjects
<1>3. ptrs = <<>>
  BY DEF Invariant, InvPointers, Collecting
<1>4. scan = NoScan
  BY DEF Invariant, InvScan
<1>5. pc = "program" => handles = {} /\ request = NoRequest /\ gc_count = 0
  BY DEF Invariant, InvControl
<1> QED BY <1>1, <1>2, <1>3, <1>4, <1>5

(* What the program may write into a word that is not the base of a frame.  *)
Harmless(w) == w \in Int /\ PointsTo(w, Objects(current))

(* The words of the stack and of objects, and the words the program         *)
(* computes, are harmless.                                                  *)
LEMMA HarmlessWords ==
  ASSUME Invariant, pc = "program"
  PROVE  /\ \A l \in Stack \cup Bodies(current) : Harmless(mem[l])
         /\ \A w \in PlainWords : Harmless(w)
         /\ Harmless(TagInt(0)) /\ Harmless(EXTERNAL)
<1>1. \A l \in Stack \cup Bodies(current) : Harmless(mem[l])
  BY Idle, Words DEF Invariant, InvHeap, InvWords, Harmless, PointsTo
<1>2. ~HasPointerTag(TagInt(0)) /\ TagInt(0) \in Int
  BY DEF HasPointerTag, TagInt, PTR_TAG, INT_TAG
<1>3. EXTERNAL \in Int /\ ~InHeap(UntagPointer(EXTERNAL))
  <2>1. EXTERNAL \in Int /\ UntagPointer(EXTERNAL) = 1
    BY TagUntag DEF EXTERNAL
  <2> QED BY <2>1 DEF InHeap, FirstChunk
<1>4. Harmless(TagInt(0)) /\ Harmless(EXTERNAL)
  BY <1>2, <1>3 DEF Harmless, PointsTo
<1>5. \A w \in PlainWords : Harmless(w)
  BY <1>4, RuntimeAssumption
<1> QED BY <1>1, <1>4, <1>5

(* One harmless write by the program.                                       *)
LEMMA ProgramWrite ==
  ASSUME Invariant, pc = "program", OnlyMemChanges,
         NEW l \in Stack \cup Bodies(current), NEW w, Harmless(w),
         mem' = [mem EXCEPT ![l] = w],
         \A i \in 1 .. Len(frames) : frames[i] # l,
         \A o \in Objects(current) : IsContextObject(o) => l # o + SPILL_COUNT
  PROVE  Invariant'
<1>1. /\ UNCHANGED <<current, other, handles, frames, pc, request, gc_count, ptrs, walk, scan,
                     memory_gc_stress, identity>>
      /\ InvHeap
  BY DEF OnlyMemChanges, gc_vars, Invariant
<1>2. l # HandleCell
  BY <1>1, StackFacts, Regions
<1>3. AllObjects = Objects(current) /\ handles \subseteq {HandleCell}
  BY Idle DEF Invariant, InvHeap, InvTypes
<1>4. /\ InvHeap'
      /\ Objects(current)' = Objects(current)
      /\ \A o \in AllObjects : mem'[o - 1] = mem[o - 1]
  BY <1>1, <1>2, <1>3, HeapWrite DEF Harmless
<1>5. InvControl'
  BY <1>1 DEF Invariant, InvControl, Collecting
<1>6. InvIdle'
  BY <1>1, <1>3, <1>4 DEF Invariant, InvIdle, Color
<1>7. InvPointers' /\ InvWalk' /\ InvScan' /\ InvWorklist'
  BY <1>1, Idle, NotCollecting
<1> QED BY <1>4, <1>5, <1>6, <1>7 DEF Invariant

(* The registers and the spill words of the running function are words of   *)
(* its frame, and not its base.                                             *)
LEMMA FrameWords ==
  ASSUME InvHeap
  PROVE  /\ \A l \in Registers \cup SpillSlots :
              /\ l \in Stack
              /\ \A i \in 1 .. Len(frames) : frames[i] # l
         /\ \A l \in {Top} \cup Registers : l \in Stack
         /\ \A l \in Stack, o \in AllObjects : l # o + SPILL_COUNT
<1>1. /\ Top \in Int /\ LastWord(Top) \in Int /\ StackHigh <= Top
      /\ SpillCount(Top) \in 1 .. MaxSpills /\ Top \in Stack
      /\ Len(frames) \in Nat
  BY StackFacts DEF Top
<1>2. LastWord(Top) = Top + SpillCount(Top) + PushedRegisters
  BY DEF LastWord
<1>3. PushedRegisters \in Nat \ {0} /\ StackHigh \in Int /\ MaxSpills \in Int
  BY Places
<1>4. ASSUME NEW l \in Registers \cup SpillSlots
      PROVE  l \in Int /\ Top < l /\ l <= LastWord(Top)
  <2>1. CASE l \in Registers
    <3>1. PICK r \in 1 .. PushedRegisters : l = Top + SpillCount(Top) + r
      BY <2>1 DEF Registers, Register
    <3> QED BY <3>1, <1>1, <1>2, <1>3
  <2>2. CASE l \in SpillSlots
    <3>1. PICK position \in 1 .. SpillCount(Top) - 1 : l = Top + 1 + position
      BY <2>2 DEF SpillSlots
    <3> QED BY <3>1, <1>1, <1>2, <1>3
  <2> QED BY <2>1, <2>2
<1>5. \A l \in Registers \cup SpillSlots : l \in Stack
  BY <1>1, <1>3, <1>4 DEF Stack
<1>6. ASSUME NEW i \in 1 .. Len(frames) PROVE frames[i] <= Top
  <2>1. frames[i] \in Int /\ LastWord(frames[i]) \in Int /\ frames[i] < LastWord(frames[i])
    BY StackFacts
  <2>2. i < Len(frames) => LastWord(frames[i]) < Top
    BY StackFacts DEF InvHeap, InvFrames, Top
  <2>3. i = Len(frames) => frames[i] = Top
    BY DEF Top
  <2> QED BY <2>1, <2>2, <2>3, <1>1
<1>7. \A l \in Registers \cup SpillSlots : \A i \in 1 .. Len(frames) : frames[i] # l
  BY <1>4, <1>6, <1>1, StackFacts
<1>8. \A l \in Stack, o \in AllObjects : l # o + SPILL_COUNT
  BY StackFacts, Regions DEF SPILL_COUNT
<1> QED BY <1>1, <1>5, <1>7, <1>8

(* What a base of the running function holds, while the program runs.       *)
LEMMA BaseObject ==
  ASSUME Invariant, pc = "program", NEW b \in Bases
  PROVE  /\ b \in Stack
         /\ HasPointerTag(mem[b])
         /\ UntagPointer(mem[b]) \in Objects(current)
         /\ UntagPointer(mem[b]) \in Int
<1>1. b \in Stack
  BY FrameWords DEF Bases, Invariant
<1>2. HasPointerTag(mem[b]) /\ UntagPointer(mem[b]) \in AllObjects
  BY DEF Bases, IsObject, Invariant, InvHeap, InvIdentity
<1> QED BY <1>1, <1>2, Idle, Regions DEF Invariant

(* The fields of an object are words of its body, and a field the program   *)
(* stores into is not the spill count of any context.                       *)
LEMMA Fields ==
  ASSUME Invariant, pc = "program", NEW o \in Objects(current)
  PROVE  /\ \A k \in LoadableFields(o) : o + k \in Bodies(current)
         /\ \A k \in Slots(o), c \in Objects(current) :
              IsContextObject(c) => o + k # c + SPILL_COUNT
<1>1. InvHeap /\ current \in Space /\ Layout(current)
  BY Chunks DEF Invariant
<1>2. PICK i \in 1 .. Len(current.objects) : o = current.objects[i]
  BY DEF Objects
<1> DEFINE size == End(current, i) - o
<1>3. o \in Int /\ End(current, i) \in Int /\ o + 2 <= End(current, i)
  BY <1>1, <1>2, SpaceTypes DEF Layout
<1>4. Color(o) = COLOR_WHITE
  BY Idle DEF Invariant, InvIdle
<1>5. Size(o) = size /\ (IsContextObject(o) => size = ContextWords)
  BY <1>1, <1>2, <1>4 DEF InvHeap, InvLayout, InvHeaders
<1>6. identity[o].kind \in {"main", "context", "function", "array"}
  BY <1>1 DEF InvHeap, InvIdentity, AllObjects
<1>7. size \in Int /\ size >= 2
  BY <1>3
<1>8. \A k \in 0 .. size - 1 : o + k \in o .. End(current, i) - 1
  BY <1>3
<1> HIDE DEF size
<1>9. \A k \in 0 .. size - 1 : o + k \in Bodies(current)
  BY <1>1, <1>2, <1>8, BodiesByEnd
<1>10. ContextSlots \in Nat
  BY RuntimeAssumption
<1>11. \A k \in LoadableFields(o) : k \in 0 .. size - 1
  <2>1. CASE IsContextObject(o)
    <3>1. LoadableFields(o) = (2 .. size - 1) \cup {0}
      BY <2>1, <1>5, <1>10
      DEF LoadableFields, Slots, IsContextObject, HEADER_WORDS, OUTER, ContextWords
    <3> QED BY <3>1, <1>7
  <2>2. CASE identity[o].kind = "function"
    <3>1. LoadableFields(o) = {0}
      BY <2>2 DEF LoadableFields, Slots, OUTER
    <3> QED BY <3>1, <1>7
  <2>3. CASE identity[o].kind = "array"
    <3>1. LoadableFields(o) = 0 .. size - 1
      BY <2>3, <1>5 DEF LoadableFields, Slots
    <3> QED BY <3>1
  <2> QED BY <2>1, <2>2, <2>3, <1>6 DEF IsContextObject
<1>12. ASSUME NEW k \in Slots(o), NEW c \in Objects(current), IsContextObject(c),
              o + k = c + SPILL_COUNT
       PROVE  FALSE
  <2>1. k \in 0 .. size - 1
    BY <1>11 DEF LoadableFields
  <2>2. PICK j \in 1 .. Len(current.objects) : c = current.objects[j]
    BY DEF Objects
  <2>3. c \in Int /\ End(current, j) \in Int /\ c + 2 <= End(current, j)
    BY <1>1, <2>2, SpaceTypes DEF Layout
  <2>4. c + 1 \in c .. End(current, j) - 1
    BY <2>3
  <2>5. c + 1 \in o .. End(current, i) - 1
    BY <2>1, <1>8, <1>12 DEF SPILL_COUNT
  <2>6. i = j
    BY <1>1, <1>2, <2>2, <2>4, <2>5, OneBody
  <2>7. o = c
    BY <2>2, <2>6, <1>2
  <2>8. k >= 2
    BY <2>7, <1>12, <1>10 DEF Slots, IsContextObject, HEADER_WORDS, ContextWords
  <2> QED BY <2>1, <2>7, <2>8, <1>3, <1>7, <1>12 DEF SPILL_COUNT
<1> QED BY <1>9, <1>11, <1>12

(* A computed word goes to a register, which is not the base of a frame.    *)
LEMMA SetRegisterKeeps == Invariant /\ SetRegister => Invariant'
<1> SUFFICES ASSUME Invariant, SetRegister PROVE Invariant'
  OBVIOUS
<1>1. PICK r \in Registers, w \in PlainWords : mem' = [mem EXCEPT ![r] = w]
  BY DEF SetRegister
<1>2. pc = "program" /\ OnlyMemChanges
  BY DEF SetRegister
<1>3. Harmless(w)
  BY <1>2, HarmlessWords
<1> QED BY <1>1, <1>2, <1>3, FrameWords, ProgramWrite, Idle DEF Invariant

(* The word of a field that goes to a register is one a field may hold.     *)
LEMMA LoadFieldKeeps == Invariant /\ LoadField => Invariant'
<1> SUFFICES ASSUME Invariant, LoadField PROVE Invariant'
  OBVIOUS
<1>1. pc = "program" /\ OnlyMemChanges
  BY DEF LoadField
<1>2. PICK r \in Registers, b \in Bases :
        \E k \in LoadableFields(UntagPointer(mem[b])) :
          mem' = [mem EXCEPT ![r] = mem[UntagPointer(mem[b]) + k]]
  BY DEF LoadField
<1>3. PICK k \in LoadableFields(UntagPointer(mem[b])) :
        mem' = [mem EXCEPT ![r] = mem[UntagPointer(mem[b]) + k]]
  BY <1>2
<1>4. UntagPointer(mem[b]) + k \in Bodies(current)
  BY <1>1, BaseObject, Fields
<1>5. Harmless(mem[UntagPointer(mem[b]) + k])
  BY <1>1, <1>4, HarmlessWords
<1> QED BY <1>1, <1>3, <1>5, FrameWords, ProgramWrite, Idle DEF Invariant

(* A field is stored into: never the spill count of a context.              *)
LEMMA StoreFieldKeeps == Invariant /\ StoreField => Invariant'
<1> SUFFICES ASSUME Invariant, StoreField PROVE Invariant'
  OBVIOUS
<1>1. pc = "program" /\ OnlyMemChanges
  BY DEF StoreField
<1>2. PICK r \in Registers, b \in Bases :
        \E k \in Slots(UntagPointer(mem[b])) :
          mem' = [mem EXCEPT ![UntagPointer(mem[b]) + k] = mem[r]]
  BY DEF StoreField
<1> DEFINE o == UntagPointer(mem[b])
<1>3. PICK k \in Slots(o) : mem' = [mem EXCEPT ![o + k] = mem[r]]
  BY <1>2
<1>4. o \in Objects(current)
  BY <1>1, BaseObject
<1>5. k \in LoadableFields(o)
  BY DEF LoadableFields
<1>6. /\ o + k \in Bodies(current)
      /\ \A c \in Objects(current) : IsContextObject(c) => o + k # c + SPILL_COUNT
  BY <1>1, <1>4, <1>5, Fields
<1>7. Harmless(mem[r])
  BY <1>1, FrameWords, HarmlessWords DEF Invariant
<1>8. \A i \in 1 .. Len(frames) : frames[i] # o + k
  BY <1>6, StackFacts, Regions DEF Invariant
<1> HIDE DEF o
<1> QED BY <1>1, <1>3, <1>6, <1>7, <1>8, ProgramWrite

(* A register goes to the spill area of the running function.               *)
LEMMA StoreSpilledKeeps == Invariant /\ StoreSpilled => Invariant'
<1> SUFFICES ASSUME Invariant, StoreSpilled PROVE Invariant'
  OBVIOUS
<1>1. PICK r \in Registers, s \in SpillSlots : mem' = [mem EXCEPT ![s] = mem[r]]
  BY DEF StoreSpilled
<1>2. pc = "program" /\ OnlyMemChanges
  BY DEF StoreSpilled
<1>3. Harmless(mem[r])
  BY <1>2, FrameWords, HarmlessWords DEF Invariant
<1> QED BY <1>1, <1>2, <1>3, FrameWords, ProgramWrite, Idle DEF Invariant

(* A word of the spill area goes to a register.                             *)
LEMMA LoadSpilledKeeps == Invariant /\ LoadSpilled => Invariant'
<1> SUFFICES ASSUME Invariant, LoadSpilled PROVE Invariant'
  OBVIOUS
<1>1. PICK r \in Registers, s \in SpillSlots : mem' = [mem EXCEPT ![r] = mem[s]]
  BY DEF LoadSpilled
<1>2. pc = "program" /\ OnlyMemChanges
  BY DEF LoadSpilled
<1>3. Harmless(mem[s])
  BY <1>2, FrameWords, HarmlessWords DEF Invariant
<1> QED BY <1>1, <1>2, <1>3, FrameWords, ProgramWrite, Idle DEF Invariant

(* A call into the runtime: the heap is as it was, but for the handle.      *)
LEMMA EnterRuntime ==
  ASSUME Invariant, pc = "program",
         InvHeap', Top' = Top, LastWord(Top)' = LastWord(Top), Stack' = Stack,
         \A o \in Objects(current) : mem'[o - 1] = mem[o - 1],
         UNCHANGED <<current, other, frames, gc_count, memory_gc_stress>>,
         request'.op \in {"context", "function", "array", "test_do_gc"},
         request'.op = "context" => request'.size = ContextWords,
         request'.op = "function" => request'.size = FunctionWords,
         request'.op = "array" => request'.size \in ArraySizes,
         request'.op \in {"context", "function"} => handles' = {HandleCell},
         request'.op = "test_do_gc" => handles' = {},
         StartGC \/ (request'.op # "test_do_gc" /\ pc' = "allocate" /\ UNCHANGED gc_vars)
  PROVE  Invariant'
<1>1. /\ gc_count' = 0 /\ ptrs = <<>> /\ scan = NoScan
      /\ other.objects = <<>>
      /\ \A o \in Objects(current) : Color(o) = COLOR_WHITE
      /\ memory_gc_stress' \in BOOLEAN
  BY Idle DEF Invariant, InvIdle, InvControl
<1>2. InvIdle'
  BY <1>1 DEF InvIdle, Objects, Color
<1>3. pc' \in {"walk", "allocate"}
  BY DEF StartGC
<1>4. pc' = "allocate" => request'.op # "test_do_gc"
  BY DEF StartGC
<1>5. InvControl'
  BY <1>1, <1>3, <1>4 DEF InvControl, Collecting
<1>6. CASE StartGC
  <2>1. /\ pc' = "walk" /\ ptrs' = <<>> /\ scan' = NoScan
        /\ walk' = [frame |-> Len(frames), p |-> Top]
    BY <1>6, <1>1 DEF StartGC
  <2>2. InvPointers' /\ InvWalk' /\ InvScan' /\ InvWorklist'
    BY <2>1, CollectionStarts DEF Invariant
  <2> QED BY <2>2, <1>2, <1>5 DEF Invariant
<1>7. CASE pc' = "allocate" /\ UNCHANGED gc_vars
  <2>1. InvPointers' /\ InvWalk' /\ InvScan' /\ InvWorklist'
    BY <1>1, <1>7, NotCollecting DEF gc_vars
  <2> QED BY <2>1, <1>2, <1>5 DEF Invariant
<1> QED BY <1>6, <1>7

(* A call that passes a pointer: the pointer goes to the handle.            *)
LEMMA EnterWithHandle ==
  ASSUME Invariant, pc = "program", NEW b \in Bases, WithHandle(mem[b]),
         NEW op \in {"context", "function"},
         EnterMemoryAllocate(op, IF op = "context" THEN ContextWords ELSE FunctionWords)
  PROVE  Invariant'
<1>1. /\ handles' = {HandleCell}
      /\ mem' = [mem EXCEPT ![HandleCell] = mem[b]]
      /\ UNCHANGED <<current, other, frames, gc_count, memory_gc_stress, identity>>
  BY DEF WithHandle, EnterMemoryAllocate
<1>2. b \in Stack /\ HasPointerTag(mem[b]) /\ UntagPointer(mem[b]) \in Objects(current)
  BY BaseObject
<1>3. mem[b] \in Int /\ AllObjects = Objects(current)
  BY <1>2, HarmlessWords, Idle DEF Harmless
<1>4. /\ \A i \in 1 .. Len(frames) : frames[i] # HandleCell
      /\ HandleCell \notin Bodies(current)
      /\ \A o \in AllObjects : HandleCell # o + SPILL_COUNT
  BY StackFacts, Regions DEF Invariant, SPILL_COUNT
<1>5. /\ InvHeap' /\ Top' = Top /\ LastWord(Top)' = LastWord(Top) /\ Stack' = Stack
      /\ \A o \in Objects(current) : mem'[o - 1] = mem[o - 1]
  BY <1>1, <1>2, <1>3, <1>4, HeapWrite DEF Invariant, PointsTo
<1>6. request' = [op |-> op, size |-> IF op = "context" THEN ContextWords ELSE FunctionWords]
  BY DEF EnterMemoryAllocate
<1>7. StartGC \/ (pc' = "allocate" /\ UNCHANGED gc_vars)
  BY DEF EnterMemoryAllocate
<1> QED BY <1>1, <1>5, <1>6, <1>7, EnterRuntime

(* The runtime is entered with the outer context in the handle.             *)
LEMMA CreateFunctionContextKeeps == Invariant /\ CreateFunctionContext => Invariant'
<1> SUFFICES ASSUME Invariant, CreateFunctionContext PROVE Invariant'
  OBVIOUS
<1>1. PICK b \in Bases : WithHandle(mem[b])
  BY DEF CreateFunctionContext
<1>2. pc = "program" /\ EnterMemoryAllocate("context", ContextWords)
  BY DEF CreateFunctionContext
<1> QED BY <1>1, <1>2, EnterWithHandle

(* The runtime is entered with the called context in the handle.            *)
LEMMA CreateFunctionKeeps == Invariant /\ CreateFunction => Invariant'
<1> SUFFICES ASSUME Invariant, CreateFunction PROVE Invariant'
  OBVIOUS
<1>1. PICK b \in Registers : IsCallable(mem[b]) /\ WithHandle(mem[b])
  BY DEF CreateFunction
<1>2. b \in Bases
  BY <1>1 DEF Bases, IsCallable
<1>3. pc = "program" /\ EnterMemoryAllocate("function", FunctionWords)
  BY DEF CreateFunction
<1> QED BY <1>1, <1>2, <1>3, EnterWithHandle

(* The runtime is entered without a handle.                                 *)
LEMMA NewArrayKeeps == Invariant /\ NewArray => Invariant'
<1> SUFFICES ASSUME Invariant, NewArray PROVE Invariant'
  OBVIOUS
<1>1. PICK n \in ArraySizes : EnterMemoryAllocate("array", n)
  BY DEF NewArray
<1>2. /\ pc = "program"
      /\ UNCHANGED <<mem, handles, current, other, frames, gc_count, memory_gc_stress, identity>>
      /\ request' = [op |-> "array", size |-> n]
      /\ StartGC \/ (pc' = "allocate" /\ UNCHANGED gc_vars)
  BY <1>1 DEF NewArray, EnterMemoryAllocate
<1>3. InvHeap' /\ Top' = Top /\ LastWord(Top)' = LastWord(Top) /\ Stack' = Stack
  BY <1>2, HeapUnchanged DEF Invariant
<1> QED BY <1>2, <1>3, EnterRuntime

(* A forced collection starts like any other.                               *)
LEMMA TestDoGCKeeps == Invariant /\ TestDoGC => Invariant'
<1> SUFFICES ASSUME Invariant, TestDoGC PROVE Invariant'
  OBVIOUS
<1>1. /\ pc = "program" /\ StartGC
      /\ UNCHANGED <<mem, handles, current, other, frames, gc_count, memory_gc_stress, identity>>
      /\ request'.op = "test_do_gc"
  BY DEF TestDoGC, NoRequest
<1>2. InvHeap' /\ Top' = Top /\ LastWord(Top)' = LastWord(Top) /\ Stack' = Stack
  BY <1>1, HeapUnchanged DEF Invariant
<1>3. handles' = {}
  BY <1>1, Idle
<1> QED BY <1>1, <1>2, <1>3, EnterRuntime

(* An allocation that fails leaves memory alone; a second collection may    *)
(* start.                                                                   *)
LEMMA AllocationFailsKeeps == Invariant /\ AllocationFails => Invariant'
<1> SUFFICES ASSUME Invariant, AllocationFails PROVE Invariant'
  OBVIOUS
<1>1. /\ pc = "allocate"
      /\ UNCHANGED <<mem, current, other, handles, frames, request, gc_count,
                     memory_gc_stress, identity>>
      /\ ptrs = <<>> /\ scan = NoScan
  BY Idle DEF AllocationFails
<1>2. /\ InvHeap' /\ Top' = Top /\ Stack' = Stack
      /\ \A l : LastWord(l)' = LastWord(l)
  BY <1>1, HeapUnchanged DEF Invariant
<1>3. InvIdle'
  BY <1>1 DEF Invariant, InvIdle, Objects, Color
<1>4. CASE memory_gc_stress
  <2>1. pc' = "out_of_memory" /\ UNCHANGED gc_vars
    BY <1>4 DEF AllocationFails
  <2>2. InvControl'
    BY <1>1, <2>1 DEF Invariant, InvControl, Collecting
  <2>3. InvPointers' /\ InvWalk' /\ InvScan' /\ InvWorklist'
    BY <1>1, <2>1, NotCollecting DEF gc_vars
  <2> QED BY <1>2, <1>3, <2>2, <2>3 DEF Invariant
<1>5. CASE ~memory_gc_stress
  <2>1. /\ pc' = "walk" /\ ptrs' = <<>> /\ scan' = NoScan
        /\ walk' = [frame |-> Len(frames), p |-> Top]
    BY <1>1, <1>5 DEF AllocationFails, StartGC
  <2>2. InvControl'
    BY <1>1, <1>5, <2>1 DEF Invariant, InvControl, Collecting
  <2>3. LastWord(Top)' = LastWord(Top)
    BY <1>2
  <2>4. InvPointers' /\ InvWalk' /\ InvScan' /\ InvWorklist'
    BY <1>1, <1>2, <2>1, <2>3, CollectionStarts DEF Invariant
  <2> QED BY <1>2, <1>3, <2>2, <2>4 DEF Invariant
<1> QED BY <1>4, <1>5

(* The word being walked is pushed if it is tagged, the base of the frame   *)
(* always is, and with it one more word of the stack has been visited.      *)
LEMMA WalkWordKeeps == Invariant /\ WalkWord => Invariant'
<1> SUFFICES ASSUME Invariant, WalkWord PROVE Invariant'
  OBVIOUS
<1>1. PICK f, ebp, p, last :
        f = walk.frame /\ ebp = frames[f] /\ p = walk.p /\ last = LastWord(ebp)
  OBVIOUS
<1>2. /\ pc = "walk"
      /\ UNCHANGED <<mem, current, other, handles, frames, request, gc_count, scan,
                     memory_gc_stress, identity>>
      /\ ptrs' = IF IsRoot(p, ebp) THEN Append(ptrs, <<p, UntagPointer(mem[p])>>) ELSE ptrs
  BY <1>1 DEF WalkWord
<1>3. \/ p < last /\ walk' = [walk EXCEPT !.p = p + 1] /\ pc' = "walk"
      \/ p = last /\ f # 1 /\ walk' = [frame |-> f - 1, p |-> frames[f - 1]] /\ pc' = "walk"
      \/ p = last /\ f = 1 /\ walk' = NoWalk /\ pc' = "handles"
  BY <1>1 DEF WalkWord, IsLastFrame
<1>4. /\ InvHeap' /\ Stack' = Stack /\ Roots' = Roots
      /\ Bodies(other)' = Bodies(other)
      /\ \A l : LastWord(l)' = LastWord(l)
      /\ \A l : Outstanding(l)' <=> Outstanding(l)
  BY <1>1, <1>2, HeapUnchanged DEF Invariant
<1>5. /\ f \in 1 .. Len(frames) /\ p \in Int /\ ebp <= p /\ p <= last
      /\ ebp \in Int /\ last \in Int /\ ebp < last /\ StackHigh <= ebp
      /\ last <= LastWord(Top) /\ LastWord(Top) \in Int
      /\ StackHigh \in Int
      /\ frames[1] = StackHigh
      /\ Len(frames) \in Nat
      /\ walk \in [frame : Int, p : Int]
  <2>1. f \in 1 .. Len(frames) /\ p \in ebp .. last /\ walk \in [frame : Int, p : Int]
    BY <1>1, <1>2 DEF Invariant, InvWalk
  <2>2. /\ ebp \in Int /\ last \in Int /\ ebp < last /\ StackHigh <= ebp
        /\ last <= LastWord(Top) /\ LastWord(Top) \in Int
        /\ frames[1] = StackHigh
        /\ Len(frames) \in Nat
    BY <2>1, <1>1, StackFacts DEF Invariant
  <2> QED BY <2>1, <2>2, Places
<1>6. p \in Stack /\ p \in Roots /\ \A l \in Stack : l \in Int /\ StackHigh <= l
  <2>1. \A l : l \in Stack <=> l \in StackHigh .. LastWord(Top)
    BY DEF Stack
  <2>2. PICK high : high = LastWord(Top)
    OBVIOUS
  <2>3. /\ high \in Int /\ StackHigh \in Int /\ ebp \in Int /\ last \in Int /\ p \in Int
        /\ StackHigh <= ebp /\ ebp <= p /\ p <= last /\ last <= high
    BY <2>2, <1>5
  <2>4. p \in StackHigh .. high /\ \A l \in StackHigh .. high : l \in Int /\ StackHigh <= l
    BY ONLY <2>3
  <2>5. p \in Stack /\ \A l \in Stack : l \in Int /\ StackHigh <= l
    BY <2>1, <2>2, <2>4
  <2> QED BY <2>5, Words DEF Invariant
<1>7. ~Visited(p)
  BY <1>1, <1>5 DEF Visited
<1>8. f # 1 => /\ f - 1 \in 1 .. Len(frames)
               /\ frames[f - 1] \in Int /\ LastWord(frames[f - 1]) \in Int
               /\ frames[f - 1] < LastWord(frames[f - 1])
               /\ ebp = LastWord(frames[f - 1]) + 1
  <2>1. f # 1 => f - 1 \in 1 .. Len(frames) - 1 /\ f - 1 \in 1 .. Len(frames) /\ f = (f - 1) + 1
    BY <1>5
  <2> QED BY <1>1, <2>1, StackFacts DEF Invariant, InvHeap, InvFrames
<1>9. InvWalk'
  <2>1. CASE p < last /\ walk' = [walk EXCEPT !.p = p + 1]
    <3>1. walk'.frame = f /\ walk'.p = p + 1
      BY <1>1, <2>1, <1>2, <1>4, <1>5 DEF Invariant, InvWalk
    <3>2. p + 1 \in ebp .. last
      BY <1>1, <2>1, <1>5
    <3>3. walk' \in [frame : Int, p : Int]
      BY <2>1, <1>5
    <3> QED BY <1>1, <3>1, <3>2, <3>3, <1>2, <1>4, <1>5 DEF InvWalk
  <2>2. CASE p = last /\ f # 1 /\ walk' = [frame |-> f - 1, p |-> frames[f - 1]]
    <3>1. walk'.frame = f - 1 /\ walk'.p = frames[f - 1]
      BY <1>1, <2>2
    <3> QED BY <1>1, <3>1, <2>2, <1>2, <1>4, <1>8 DEF InvWalk
  <2>3. CASE pc' = "handles"
    BY <1>1, <2>3 DEF InvWalk
  <2> QED BY <1>1, <2>1, <2>2, <2>3, <1>3
<1>10. \A l \in Stack : /\ pc' = "walk" => (Visited(l)' <=> Visited(l) \/ l = p)
                        /\ pc' = "handles" => Visited(l) \/ l = p
  <2> TAKE l \in Stack
  <2>1. l \in Int /\ StackHigh <= l
    BY <1>1, <1>6
  <2>2. Visited(l) <=> (ebp <= l /\ l < p) \/ last < l
    BY <1>1 DEF Visited
  <2>3. Visited(l)' <=> \/ frames[walk'.frame] <= l /\ l < walk'.p
                        \/ LastWord(frames[walk'.frame]) < l
    BY <1>1, <1>2, <1>4 DEF Visited
  <2>4. CASE p < last /\ walk' = [walk EXCEPT !.p = p + 1] /\ pc' = "walk"
    <3>1. walk'.frame = f /\ walk'.p = p + 1
      BY <1>1, <2>4, <1>2 DEF Invariant, InvWalk
    <3>2. Visited(l)' <=> (ebp <= l /\ l < p + 1) \/ last < l
      BY <1>1, <2>3, <3>1
    <3> QED BY <1>1, <3>2, <2>1, <2>2, <2>4, <1>5
  <2>5. CASE p = last /\ f # 1 /\ walk' = [frame |-> f - 1, p |-> frames[f - 1]] /\ pc' = "walk"
    <3>1. Visited(l)' <=> \/ frames[f - 1] <= l /\ l < frames[f - 1]
                          \/ LastWord(frames[f - 1]) < l
      BY <1>1, <2>3, <2>5
    <3>2. frames[f - 1] \in Int /\ LastWord(frames[f - 1]) \in Int /\ ebp = LastWord(frames[f - 1]) + 1
      BY <1>1, <2>5, <1>8
    <3>3. PICK x, y : x = frames[f - 1] /\ y = LastWord(frames[f - 1])
      OBVIOUS
    <3>4. /\ x \in Int /\ y \in Int /\ ebp = y + 1 /\ p = last /\ l \in Int
          /\ ebp \in Int /\ last \in Int /\ ebp <= p
      BY <3>2, <3>3, <2>1, <2>5, <1>5
    <3>5. (x <= l /\ l < x) \/ y < l <=> ((ebp <= l /\ l < p) \/ last < l) \/ l = p
      BY ONLY <3>4
    <3>6. Visited(l)' <=> Visited(l) \/ l = p
      BY <3>1, <3>3, <3>5, <2>2
    <3> QED BY <3>6, <2>5
  <2>6. CASE p = last /\ f = 1 /\ pc' = "handles"
    <3>1. ebp = StackHigh
      BY <1>1, <2>6, <1>5
    <3> QED BY <1>1, <3>1, <2>1, <2>2, <2>6, <1>5
  <2> QED BY <1>1, <2>4, <2>5, <2>6, <1>3
<1>11. pc' \in {"walk", "handles"} /\ Collecting'
  BY <1>1, <1>3 DEF Collecting
<1>12. ASSUME NEW e \in Entries PROVE UpToDate(e)' /\ e[1] # p
  <2>1. UpToDate(e)
    BY <1>1 DEF Invariant, InvPointers, Entries
  <2>2. e[1] \in Stack /\ Visited(e[1])
    BY <1>1, <2>1, <1>2 DEF UpToDate
  <2>3. e[1] # p
    BY <1>1, <2>2, <1>7
  <2>4. pc' = "walk" => Visited(e[1])'
    BY <1>1, <2>2, <1>10
  <2>5. UpToDate(e)'
    BY <2>1, <2>2, <2>4, <1>2, <1>4, EntryStaysUpToDate
  <2> QED BY <2>3, <2>5
<1>13. InvPointers' /\ \A x \in Stack : Pending(x) \/ (x = p /\ Outstanding(p)) => Pending(x)'
  <2>1. CASE IsRoot(p, ebp)
    <3>1. HasPointerTag(mem[p])
      BY <1>1, <2>1, <1>5 DEF IsRoot, Invariant, InvHeap, InvFrames, IsFrame
    <3>2. pc' = "walk" => Visited(p)'
      BY <1>1, <1>6, <1>10
    <3>3. p \notin Bodies(other)
      BY <1>1, <1>6, Words DEF Invariant
    <3>4. /\ p \in Roots' \cup Bodies(other)' /\ HasPointerTag(mem'[p])
          /\ UntagPointer(mem'[p]) = UntagPointer(mem[p])
          /\ p \notin Bodies(other)' /\ p \in Stack'
      BY <3>1, <3>3, <1>2, <1>4, <1>6
    <3>5. PICK v : v = UntagPointer(mem[p])
      OBVIOUS
    <3>6. UpToDate(<<p, v>>)'
      BY <3>2, <3>4, <3>5, EntryIsUpToDate
    <3>7. v \in Int
      BY <3>5, <1>6, Words DEF Invariant
    <3>8. ptrs' = Append(ptrs, <<p, v>>)
      BY <2>1, <3>5, <1>2
    <3>9. /\ InvPointers' /\ \A x : Pending(x)' <=> Pending(x) \/ x = p
      BY <3>6, <3>7, <3>8, <1>5, <1>11, <1>12, OnePushed DEF Invariant
    <3> QED BY <3>9
  <2>2. CASE ~IsRoot(p, ebp)
    <3>1. ~Outstanding(p)
      BY <1>1, <2>2 DEF IsRoot, Outstanding
    <3>2. ptrs' = ptrs
      BY <2>2, <1>2
    <3>3. InvPointers' /\ \A l : Pending(l)' <=> Pending(l)
      BY <3>2, <1>11, <1>12, NothingPushed DEF Invariant
    <3> QED BY <3>1, <3>3
  <2> QED BY <1>1, <2>1, <2>2
<1>14. InvWorklist'
  <2>1. \A l \in Stack : Visited(l) /\ Outstanding(l) => Pending(l)
    BY <1>1, <1>2 DEF Invariant, InvWorklist
  <2>2. \A l \in Stack : (pc' = "walk" /\ Visited(l)') \/ pc' = "handles" => Visited(l) \/ l = p
    BY <1>1, <1>10
  <2> QED BY <1>1, <2>1, <2>2, <1>4, <1>11, <1>13 DEF InvWorklist
<1>15. InvControl' /\ InvIdle' /\ InvScan'
  BY <1>1, <1>2, <1>11 DEF Invariant, InvControl, InvIdle, InvScan, Collecting, Objects, Color
<1> QED BY <1>1, <1>4, <1>9, <1>13, <1>14, <1>15 DEF Invariant

(* The handle is a root of its own, outside the stack.                      *)
LEMMA RootsFromHandlesKeeps == Invariant /\ RootsFromHandles => Invariant'
<1> SUFFICES ASSUME Invariant, RootsFromHandles PROVE Invariant'
  OBVIOUS
<1>1. /\ pc = "handles" /\ pc' = "trace" /\ Collecting'
      /\ UNCHANGED <<mem, current, other, handles, frames, request, gc_count, walk, scan,
                     memory_gc_stress, identity>>
      /\ ptrs' = IF HandleCell \in handles
                   THEN Append(ptrs, <<HandleCell, UntagPointer(mem[HandleCell])>>)
                   ELSE ptrs
  BY DEF RootsFromHandles, Collecting
<1>2. /\ InvHeap' /\ Stack' = Stack /\ Roots' = Roots
      /\ Bodies(other)' = Bodies(other)
      /\ \A l : Outstanding(l)' <=> Outstanding(l)
  BY <1>1, HeapUnchanged DEF Invariant
<1>3. Bodies(other) = {}
  BY <1>1 DEF Invariant, InvIdle, Bodies
<1>4. ASSUME NEW e \in Entries PROVE UpToDate(e)' /\ e[1] # HandleCell
  <2>1. UpToDate(e)
    BY DEF Invariant, InvPointers, Entries
  <2>2. e[1] \in Stack
    BY <2>1, <1>1 DEF UpToDate
  <2> QED BY <2>1, <2>2, <1>1, <1>2, <1>3, StackFacts DEF UpToDate, Invariant
<1>5. InvPointers' /\ \A l \in Roots : Outstanding(l) => Pending(l)'
  <2>1. \A l \in Stack : Outstanding(l) => Pending(l)
    BY <1>1 DEF Invariant, InvWorklist
  <2>2. \A l \in Roots : l \in Stack \/ (l = HandleCell /\ HandleCell \in handles)
    BY Words DEF Invariant
  <2>3. CASE HandleCell \in handles
    <3>1. HasPointerTag(mem[HandleCell]) /\ UntagPointer(mem[HandleCell]) \in Int
          /\ HandleCell \in Int
      BY <2>3, StackFacts, Words, Places DEF Invariant, InvHeap, InvWords
    <3>2. HandleCell \in Roots
      BY <2>3 DEF Roots
    <3>3. \A v : v = UntagPointer(mem[HandleCell]) => UpToDate(<<HandleCell, v>>)'
      BY <3>1, <3>2, <1>1, <1>2, <1>3 DEF UpToDate
    <3> QED BY <2>1, <2>2, <2>3, <3>1, <3>3, <1>1, <1>4, OnePushed DEF Invariant
  <2>4. CASE HandleCell \notin handles
    BY <2>1, <2>2, <2>4, <1>1, <1>4, NothingPushed DEF Invariant
  <2> QED BY <2>3, <2>4
<1>6. InvWorklist'
  BY <1>1, <1>2, <1>3, <1>5 DEF InvWorklist
<1>7. InvControl' /\ InvIdle' /\ InvScan' /\ InvWalk'
  BY <1>1 DEF Invariant, InvControl, InvIdle, InvScan, InvWalk, Collecting
<1> QED BY <1>2, <1>5, <1>6, <1>7 DEF Invariant

(* The pointer on top of the stack, and what the collector finds there.     *)
LEMMA TopPointer ==
  ASSUME Invariant, Tracing
  PROVE  /\ Location \in Roots \cup Bodies(other) /\ Location \in Address
         /\ HasPointerTag(mem[Location])
         /\ mem[Location] \in Int
         /\ UntagPointer(mem[Location]) = Pointer /\ Pointer \in Int
         /\ Location \in Bodies(other) => IsInCurrentChunk(mem[Location])
         /\ Outstanding(Location) => IsInCurrentChunk(INT_SIZE * Pointer)
         /\ IsInCurrentChunk(INT_SIZE * Pointer) =>
              /\ Pointer \in Objects(current)
              /\ FindObject(Pointer) = [found |-> TRUE, object |-> Pointer, offset |-> 0]
<1>1. Len(ptrs) \in 1 .. Len(ptrs)
  BY DEF Tracing, Invariant, InvPointers
<1>2. UpToDate(ptrs[Len(ptrs)])
  BY <1>1 DEF Invariant, InvPointers
<1>3. /\ Location \in Roots \cup Bodies(other)
      /\ HasPointerTag(mem[Location])
      /\ UntagPointer(mem[Location]) = Pointer
      /\ Location \in Bodies(other) => IsInCurrentChunk(mem[Location])
  BY <1>2 DEF UpToDate, Location, Pointer, Last
<1>4. Location \in Address /\ mem[Location] \in Int /\ Pointer \in Int
  BY <1>3, Words DEF Invariant
<1>5. InHeap(Pointer) => Pointer \in AllObjects
  BY <1>3 DEF Invariant, InvHeap, InvWords, PointsTo
<1>6. IsInCurrentChunk(INT_SIZE * Pointer) => Pointer \in Objects(current)
  BY <1>4, <1>5, InChunk DEF Invariant, AllObjects
<1>7. Outstanding(Location) => Pointer \in Objects(current)
  BY <1>3, <1>4, <1>5, InChunk DEF Outstanding, Invariant, AllObjects
<1>8. Outstanding(Location) => IsInCurrentChunk(INT_SIZE * Pointer)
  BY <1>3, <1>4, <1>7, InChunk DEF Invariant
<1>9. current \in Space /\ Layout(current)
  BY Chunks DEF Invariant
<1>10. Pointer \in Objects(current) =>
         FindObject(Pointer) = [found |-> TRUE, object |-> Pointer, offset |-> 0]
  BY <1>9, FindExact
<1> QED BY <1>3, <1>4, <1>6, <1>8, <1>10

(* A pointer that is skipped does not point at an object being left.        *)
LEMMA SkipPointerKeeps == Invariant /\ SkipPointer => Invariant'
<1> SUFFICES ASSUME Invariant, SkipPointer PROVE Invariant'
  OBVIOUS
<1>1. /\ Tracing /\ pc = "trace" /\ pc' = "trace" /\ Collecting' /\ ptrs # <<>> /\ ptrs' = Pop
      /\ UNCHANGED <<mem, current, other, handles, frames, request, gc_count, walk, scan,
                     memory_gc_stress, identity>>
  BY DEF SkipPointer, Tracing, Collecting
<1>2. /\ InvHeap' /\ Stack' = Stack /\ Roots' = Roots
      /\ Bodies(other)' = Bodies(other)
      /\ \A l : Outstanding(l)' <=> Outstanding(l)
  BY <1>1, HeapUnchanged DEF Invariant
<1>3. ~Outstanding(Location)
  <2>1. ~(IsInCurrentChunk(INT_SIZE * Pointer) /\ FindObject(Pointer).found)
    BY DEF SkipPointer
  <2> QED BY <2>1, <1>1, TopPointer
<1>4. ASSUME NEW e \in Entries PROVE UpToDate(e)'
  <2>1. UpToDate(e)
    BY DEF Invariant, InvPointers, Entries
  <2>2. \A w : IsInCurrentChunk(w)' <=> IsInCurrentChunk(w)
    BY <1>1 DEF IsInCurrentChunk
  <2> QED BY <2>1, <2>2, <1>1, <1>2 DEF UpToDate
<1>5. InvPointers' /\ \A l : Pending(l) => Pending(l)' \/ l = Location
  BY <1>1, <1>4, OnePopped DEF Invariant
<1>6. InvWorklist'
  BY <1>1, <1>2, <1>3, <1>5 DEF Invariant, InvWorklist
<1>7. InvControl' /\ InvIdle' /\ InvScan' /\ InvWalk'
  BY <1>1 DEF Invariant, InvControl, InvIdle, InvScan, InvWalk, Collecting
<1> QED BY <1>2, <1>5, <1>6, <1>7 DEF Invariant

(* Replacing the address of a moved object by that of its copy.             *)
LEMMA Forwarding ==
  ASSUME Invariant, NEW l \in Roots \cup Bodies(other), NEW o \in Objects(current),
         HasPointerTag(mem[l]), UntagPointer(mem[l]) = o,
         Color(o) = COLOR_MOVED,
         mem' = [mem EXCEPT ![l] = TagPointer(Size(o))],
         UNCHANGED <<current, other, handles, frames, identity>>
  PROVE  /\ InvHeap'
         /\ l \in Address
         /\ \A a \in Address : a # l => mem'[a] = mem[a]
         /\ ~Outstanding(l)'
         /\ Stack' = Stack /\ Roots' = Roots /\ Bodies(other)' = Bodies(other)
         /\ Objects(current)' = Objects(current)
         /\ \A x \in AllObjects : mem'[x - 1] = mem[x - 1] /\ mem'[x - 2] = mem[x - 2]
<1> DEFINE copy == Size(o)
           w == TagPointer(copy)
<1>1. InvHeap
  BY DEF Invariant
<1>2. /\ copy \in Objects(other)
      /\ identity[copy] = identity[o]
      /\ IsContextObject(o) => mem[copy + SPILL_COUNT] = mem[o + SPILL_COUNT]
  BY <1>1 DEF InvHeap, InvForwarding
<1>3. copy \in AllObjects /\ copy \in Int /\ o \in AllObjects /\ o \in Int /\ InHeap(o)
  BY <1>1, <1>2, Regions DEF AllObjects
<1>4. w \in Int /\ HasPointerTag(w) /\ UntagPointer(w) = copy
  BY <1>3, TagUntag
<1>5. l \notin Bodies(current) /\ l \in Address
  BY <1>1, Words, Regions
<1>6. l \in Stack \cup {HandleCell} \cup Bodies(current) \cup Bodies(other)
  BY <1>1, Words
<1>7. ASSUME NEW x \in AllObjects, IsContextObject(x) PROVE l # x + SPILL_COUNT
  <2>1. mem[x + SPILL_COUNT] \in 0 .. MaxSpills
    BY <1>1, <1>7 DEF InvHeap, InvIdentity
  <2>2. mem[x + SPILL_COUNT] \in 0 .. 100
    BY <2>1, MemoryAssumption
  <2>3. ~InHeap(UntagPointer(mem[x + SPILL_COUNT]))
    BY <2>2, SmallWords
  <2> QED BY <2>3, <1>3
<1>8. ASSUME NEW i \in 1 .. Len(frames), frames[i] = l
      PROVE  IsContextObject(copy) /\ mem[copy + SPILL_COUNT] = SpillCount(l)
  <2>1. FunctionContext(l) = o
    BY DEF FunctionContext
  <2>2. IsContextObject(o) /\ SpillCount(l) = mem[o + SPILL_COUNT]
    BY <2>1, <1>1, <1>8 DEF InvHeap, InvFrames, IsFrame, SpillCount
  <2> QED BY <2>2, <1>2 DEF IsContextObject
<1>9. handles' \subseteq {HandleCell} /\ handles' = handles
  BY <1>1 DEF InvHeap, InvTypes
<1>10. PointsTo(w, AllObjects)
  BY <1>3, <1>4 DEF PointsTo
<1> HIDE DEF copy, w
<1>11. mem' = [mem EXCEPT ![l] = w]
  BY DEF w, copy
<1>12. /\ InvHeap'
       /\ \A a \in Address : mem'[a] = IF a = l THEN w ELSE mem[a]
       /\ Stack' = Stack /\ Roots' = Stack \cup handles'
       /\ Bodies(other)' = Bodies(other)
       /\ Objects(current)' = Objects(current)
       /\ \A x \in AllObjects : mem'[x - 1] = mem[x - 1] /\ mem'[x - 2] = mem[x - 2]
  BY <1>1, <1>3, <1>4, <1>5, <1>6, <1>7, <1>8, <1>9, <1>10, <1>11, HeapWrite
<1>13. Roots' = Roots
  BY <1>9, <1>12 DEF Roots, Stack
<1>14. ~Outstanding(l)'
  <2>1. ~IsInCurrentChunk(w)
    BY <1>1, <1>2, <1>4, InChunk
  <2>2. mem'[l] = w
    BY <1>5, <1>12
  <2> QED BY <2>1, <2>2 DEF Outstanding, IsInCurrentChunk
<1> QED BY <1>5, <1>12, <1>13, <1>14

(* The location popped off the stack now holds the address of the copy, and *)
(* no other location of the stack has changed.                              *)
LEMMA ForwardPointerKeeps == Invariant /\ ForwardPointer => Invariant'
<1> SUFFICES ASSUME Invariant, ForwardPointer PROVE Invariant'
  OBVIOUS
<1>1. /\ Tracing /\ pc = "trace" /\ pc' = "trace" /\ Collecting' /\ ptrs # <<>> /\ ptrs' = Pop
      /\ IsInCurrentChunk(INT_SIZE * Pointer)
      /\ UNCHANGED <<current, other, handles, frames, request, gc_count, walk, scan,
                     memory_gc_stress, identity>>
  BY DEF ForwardPointer, Tracing, Collecting
<1>2. PICK l, o : l = Location /\ o = Pointer
  OBVIOUS
<1>3. /\ l \in Roots \cup Bodies(other) /\ HasPointerTag(mem[l]) /\ UntagPointer(mem[l]) = o
      /\ o \in Objects(current)
      /\ FindObject(Pointer) = [found |-> TRUE, object |-> o, offset |-> 0]
  BY <1>1, <1>2, TopPointer
<1>4. Size(o) \in Int
  BY <1>3, Words DEF AllObjects, Size, Invariant
<1>5. Color(o) = COLOR_MOVED /\ mem' = [mem EXCEPT ![l] = TagPointer(Size(o))]
  <2>1. /\ Color(FindObject(Pointer).object) = COLOR_MOVED
        /\ mem' = [mem EXCEPT ![Location] = ForwardedPointer(FindObject(Pointer))]
    BY DEF ForwardPointer
  <2>2. FindObject(Pointer).object = o /\ FindObject(Pointer).offset = 0
    BY <1>3
  <2>3. ForwardedPointer(FindObject(Pointer)) = TagPointer(Size(o) + 0)
    BY <2>2 DEF ForwardedPointer
  <2>4. Size(o) + 0 = Size(o)
    BY <1>4
  <2> QED BY <2>1, <2>2, <2>3, <2>4, <1>2
<1>6. /\ InvHeap'
      /\ \A a \in Address : a # l => mem'[a] = mem[a]
      /\ ~Outstanding(l)'
      /\ Stack' = Stack /\ Roots' = Roots /\ Bodies(other)' = Bodies(other)
  BY <1>1, <1>3, <1>5, Forwarding
<1>7. \A a \in Roots \cup Bodies(other) : a # l => mem'[a] = mem[a]
  BY <1>6, Words DEF Invariant
<1>8. \A w : IsInCurrentChunk(w)' <=> IsInCurrentChunk(w)
  BY <1>1 DEF IsInCurrentChunk
<1>9. ASSUME NEW e \in Entries, e[1] # l PROVE UpToDate(e)'
  <2>1. UpToDate(e)
    BY DEF Invariant, InvPointers, Entries
  <2>2. mem'[e[1]] = mem[e[1]]
    BY <2>1, <1>7, <1>9 DEF UpToDate
  <2> QED BY <2>1, <2>2, <1>1, <1>6, <1>8 DEF UpToDate
<1>10. InvPointers' /\ \A x : Pending(x) => Pending(x)' \/ x = l
  BY <1>1, <1>2, <1>9, OnePopped DEF Invariant
<1>11. InvWorklist'
  <2>1. \A x \in Roots \cup Bodies(other) : Outstanding(x)' => Outstanding(x) /\ x # l
    BY <1>6, <1>7, <1>8 DEF Outstanding
  <2> QED BY <2>1, <1>1, <1>6, <1>10 DEF Invariant, InvWorklist
<1>12. InvControl' /\ InvIdle' /\ InvScan' /\ InvWalk'
  BY <1>1 DEF Invariant, InvControl, InvIdle, InvScan, InvWalk, Collecting
<1> QED BY <1>6, <1>10, <1>11, <1>12 DEF Invariant

(* move_object returns, and the location the object was found through gets  *)
(* the address of the copy.                                                 *)
LEMMA ScanDoneKeeps == Invariant /\ ScanDone => Invariant'
<1> SUFFICES ASSUME Invariant, ScanDone PROVE Invariant'
  OBVIOUS
<1>1. /\ pc = "scan" /\ pc' = "trace" /\ Collecting' /\ ptrs' = ptrs /\ scan' = NoScan
      /\ scan.p = scan.end
      /\ mem' = [mem EXCEPT ![scan.location] = scan.new_ptr]
      /\ UNCHANGED <<current, other, handles, frames, request, gc_count, walk,
                     memory_gc_stress, identity>>
  BY DEF ScanDone, Collecting
<1>2. PICK l, o : l = scan.location /\ o = UntagPointer(mem[scan.location])
  OBVIOUS
<1>3. /\ l \in Roots \cup Bodies(other) /\ HasPointerTag(mem[l]) /\ UntagPointer(mem[l]) = o
      /\ o \in Objects(current) /\ Color(o) = COLOR_MOVED
      /\ scan.new_ptr = TagPointer(Size(o))
      /\ \A i \in 1 .. Len(ptrs) : ptrs[i][1] # l
  BY <1>1, <1>2 DEF Invariant, InvScan
<1>4. /\ InvHeap'
      /\ \A a \in Address : a # l => mem'[a] = mem[a]
      /\ ~Outstanding(l)'
      /\ Stack' = Stack /\ Roots' = Roots /\ Bodies(other)' = Bodies(other)
  BY <1>1, <1>2, <1>3, Forwarding
<1>5. \A a \in Roots \cup Bodies(other) : a # l => mem'[a] = mem[a]
  BY <1>4, Words DEF Invariant
<1>6. \A w : IsInCurrentChunk(w)' <=> IsInCurrentChunk(w)
  BY <1>1 DEF IsInCurrentChunk
<1>7. ASSUME NEW e \in Entries PROVE UpToDate(e)'
  <2>1. UpToDate(e)
    BY DEF Invariant, InvPointers, Entries
  <2>2. mem'[e[1]] = mem[e[1]]
    BY <2>1, <1>3, <1>5 DEF UpToDate, Entries
  <2> QED BY <2>1, <2>2, <1>1, <1>4, <1>6 DEF UpToDate
<1>8. InvPointers' /\ \A x : Pending(x)' <=> Pending(x)
  BY <1>1, <1>7, NothingPushed DEF Invariant
<1>9. InvWorklist'
  <2>1. \A x \in Roots \cup Bodies(other) : Outstanding(x)' => Outstanding(x) /\ x # l
    BY <1>4, <1>5, <1>6 DEF Outstanding
  <2>2. scan.p \in Int /\ \A x : x \in scan.p .. scan.end - 1 => FALSE
    BY <1>1 DEF Invariant, InvScan
  <2> QED BY <2>1, <2>2, <1>1, <1>2, <1>4, <1>8 DEF Invariant, InvWorklist
<1>10. InvControl' /\ InvIdle' /\ InvScan' /\ InvWalk'
  BY <1>1 DEF Invariant, InvControl, InvIdle, InvScan, InvWalk, Collecting
<1> QED BY <1>4, <1>8, <1>9, <1>10 DEF Invariant

(* The word of the copy being scanned is pushed if it points at an object   *)
(* being left, and the scan goes on behind it.                              *)
LEMMA ScanWordKeeps == Invariant /\ ScanWord => Invariant'
<1> SUFFICES ASSUME Invariant, ScanWord PROVE Invariant'
  OBVIOUS
<1>1. /\ pc = "scan" /\ pc' = "scan" /\ Collecting' /\ scan.p < scan.end
      /\ scan' = [scan EXCEPT !.p = @ + 1]
      /\ UNCHANGED <<mem, current, other, handles, frames, request, gc_count, walk,
                     memory_gc_stress, identity>>
  BY DEF ScanWord, Collecting
<1>2. PICK l, end, copy, location :
        /\ l = scan.p /\ end = scan.end /\ copy = Last(other.objects)
        /\ location = scan.location
  OBVIOUS
<1>3. ptrs' = IF MustMove(mem[l]) THEN Append(ptrs, <<l, UntagPointer(mem[l])>>) ELSE ptrs
  BY <1>2 DEF ScanWord
<1>4. /\ scan \in [p : Int, end : Int, location : Int, new_ptr : Int]
      /\ other.objects # <<>> /\ end = other.cursor /\ l \in copy .. end /\ l < end
      /\ location \notin copy .. end - 1
      /\ \A i \in 1 .. Len(ptrs) : ptrs[i][1] \notin {location} \cup (l .. end - 1)
  BY <1>1, <1>2 DEF Invariant, InvScan
<1>5. /\ InvHeap' /\ Stack' = Stack /\ Roots' = Roots
      /\ Bodies(other)' = Bodies(other)
      /\ Objects(current)' = Objects(current)
      /\ \A x : Outstanding(x)' <=> Outstanding(x)
  BY <1>1, HeapUnchanged DEF Invariant
<1>6. /\ other \in Space /\ Len(other.objects) \in 1 .. Len(other.objects)
      /\ copy = other.objects[Len(other.objects)] /\ copy \in Int
      /\ end = End(other, Len(other.objects)) /\ end \in Int /\ l \in Int
  <2>1. other \in Space
    BY Chunks DEF Invariant
  <2>2. Len(other.objects) \in 1 .. Len(other.objects)
    BY <2>1, <1>4 DEF Space
  <2> QED BY <2>1, <2>2, <1>2, <1>4, SpaceTypes DEF Last, End
<1>7. l \in copy .. end - 1
  BY <1>4, <1>6
<1>8. l \in Bodies(other) /\ l # location
  BY <1>4, <1>6, <1>7, BodiesByEnd
<1>9. ASSUME NEW e \in Entries PROVE UpToDate(e)' /\ e[1] # l
  <2>1. UpToDate(e)
    BY DEF Invariant, InvPointers, Entries
  <2>2. e[1] \notin l .. end - 1
    BY <1>4 DEF Entries
  <2>3. l \in l .. end - 1
    BY <1>4, <1>6
  <2>4. \A w : IsInCurrentChunk(w)' <=> IsInCurrentChunk(w)
    BY <1>1 DEF IsInCurrentChunk
  <2> QED BY <2>1, <2>2, <2>3, <2>4, <1>1, <1>5 DEF UpToDate
<1>10. /\ InvPointers'
       /\ \A x : Pending(x)' <=> Pending(x) \/ (x = l /\ Outstanding(l))
  <2>1. MustMove(mem[l]) <=> Outstanding(l)
    BY DEF MustMove, Outstanding
  <2>2. CASE MustMove(mem[l])
    <3>1. HasPointerTag(mem[l]) /\ IsInCurrentChunk(mem[l])
      BY <2>2 DEF MustMove
    <3>2. UntagPointer(mem[l]) \in Int
      BY <1>8, Words DEF Invariant
    <3>3. \A w : IsInCurrentChunk(w)' <=> IsInCurrentChunk(w)
      BY <1>1 DEF IsInCurrentChunk
    <3>4. \A v : v = UntagPointer(mem[l]) => UpToDate(<<l, v>>)'
      BY <3>1, <3>3, <1>1, <1>5, <1>8 DEF UpToDate
    <3> QED BY <2>1, <2>2, <3>2, <3>4, <1>1, <1>3, <1>6, <1>9, OnePushed DEF Invariant
  <2>3. CASE ~MustMove(mem[l])
    BY <2>1, <2>3, <1>1, <1>3, <1>9, NothingPushed DEF Invariant
  <2> QED BY <2>2, <2>3
<1>11. /\ scan'.p = l + 1 /\ scan'.end = end /\ scan'.location = location
       /\ scan'.new_ptr = scan.new_ptr
       /\ scan' \in [p : Int, end : Int, location : Int, new_ptr : Int]
  <2>1. scan' = [scan EXCEPT !.p = l + 1] /\ l + 1 \in Int
    BY <1>1, <1>2, <1>6
  <2>2. scan' \in [p : Int, end : Int, location : Int, new_ptr : Int]
    BY <2>1, <1>4
  <2>3. scan'.p = l + 1
    BY <2>1, <1>4
  <2>4. scan'.end = scan.end /\ scan'.location = scan.location /\ scan'.new_ptr = scan.new_ptr
    BY <2>1, <1>4
  <2> QED BY <2>2, <2>3, <2>4, <1>2
<1>12. InvScan'
  <2>1. l + 1 \in copy .. end
    BY <1>4, <1>6
  <2>2. \A x : Pending(x) => x \notin {location} \cup (l .. end - 1)
    BY <1>4 DEF Pending
  <2>3. \A x : x \in l + 1 .. end - 1 => x \in l .. end - 1 /\ x # l
    BY <1>6
  <2>4. \A x : Pending(x)' => x \notin {location} \cup (l + 1 .. end - 1)
    BY <2>2, <2>3, <1>8, <1>10
  <2>5. \A i \in 1 .. Len(ptrs') : ptrs'[i][1] \notin {location} \cup (l + 1 .. end - 1)
    BY <2>4 DEF Pending
  <2>6. /\ scan.new_ptr = TagPointer(copy)
        /\ location \in (Roots \cup Bodies(other)) \ (copy .. end - 1)
        /\ HasPointerTag(mem[location])
        /\ UntagPointer(mem[location]) \in Objects(current)
        /\ Color(UntagPointer(mem[location])) = COLOR_MOVED
        /\ Size(UntagPointer(mem[location])) = copy
    BY <1>1, <1>2 DEF Invariant, InvScan
  <2>7. /\ Color(UntagPointer(mem[location]))' = COLOR_MOVED
        /\ Size(UntagPointer(mem[location]))' = copy
    BY <2>6, <1>1 DEF Color, Size
  <2>8. /\ other'.objects # <<>> /\ scan'.end = other'.cursor /\ Last(other.objects)' = copy
        /\ scan'.p \in copy .. scan'.end
    BY <2>1, <1>1, <1>2, <1>4, <1>11 DEF Last
  <2> QED BY <2>5, <2>6, <2>7, <2>8, <1>1, <1>5, <1>11 DEF InvScan, Color, Size
<1>13. InvWorklist'
  <2>1. \A x \in Roots \cup Bodies(other) :
          Outstanding(x) => Pending(x) \/ x \in l .. end - 1 \/ x = location
    BY <1>1, <1>2 DEF Invariant, InvWorklist
  <2>2. \A x : x \in l .. end - 1 => x = l \/ x \in l + 1 .. end - 1
    BY <1>6
  <2>3. \A x \in Roots \cup Bodies(other) :
          Outstanding(x) => Pending(x)' \/ x \in l + 1 .. end - 1 \/ x = location
    BY <2>1, <2>2, <1>10
  <2> QED BY <2>3, <1>1, <1>5, <1>11 DEF InvWorklist
<1>14. InvControl' /\ InvIdle' /\ InvWalk'
  BY <1>1 DEF Invariant, InvControl, InvIdle, InvWalk, Collecting
<1> QED BY <1>5, <1>10, <1>12, <1>13, <1>14 DEF Invariant

(* move_object copies the object and goes on to scan the copy.              *)
LEMMA MoveObjectKeeps == Invariant /\ MoveObject => Invariant'
<1> SUFFICES ASSUME Invariant, MoveObject PROVE Invariant'
  OBVIOUS
<1>1. /\ Tracing /\ pc = "trace" /\ pc' = "scan" /\ Collecting' /\ ptrs # <<>> /\ ptrs' = Pop
      /\ IsInCurrentChunk(INT_SIZE * Pointer)
      /\ UNCHANGED <<current, handles, frames, request, gc_count, walk, memory_gc_stress>>
  BY DEF MoveObject, Tracing, Collecting
<1>2. PICK l, o, copy, size, end :
        /\ l = Location /\ o = Pointer /\ size = Size(o)
        /\ copy = other.cursor + 2 /\ end = copy + size
  OBVIOUS
<1>3. /\ l \in Roots \cup Bodies(other) /\ l \in Address
      /\ HasPointerTag(mem[l]) /\ UntagPointer(mem[l]) = o
      /\ o \in Objects(current)
      /\ FindObject(Pointer) = [found |-> TRUE, object |-> o, offset |-> 0]
  BY <1>1, <1>2, TopPointer
<1>4. InvHeap /\ copy \in Int /\ other.cursor \in Int /\ l \in Int
  BY <1>2, <1>3, Chunks, Places DEF Invariant
<1>5. PICK f : f = FindObject(Pointer)
  OBVIOUS
<1>6. f.object = o /\ f.offset = 0
  BY <1>3, <1>5
<1>7. /\ Color(o) # COLOR_MOVED
      /\ mem' = MemoryWithCopy(o, other.cursor + 2)
      /\ other' = [chunk |-> other.chunk, cursor |-> other.cursor + Size(o) + 2,
                   objects |-> Append(other.objects, other.cursor + 2)]
      /\ scan' = [p |-> copy, end |-> end, location |-> l, new_ptr |-> TagPointer(copy + 0)]
      /\ identity' = [a \in DOMAIN identity \cup {other.cursor + 2} |->
                        IF a = other.cursor + 2 THEN identity[o] ELSE identity[a]]
  BY <1>2, <1>5, <1>6 DEF MoveObject
<1>8. /\ InvHeap'
      /\ Stack' = Stack /\ Roots' = Roots /\ Objects(current)' = Objects(current)
      /\ \A a : a \in Bodies(other)' <=> a \in Bodies(other) \/ a \in copy .. end - 1
      /\ \A a \in Roots \cup Bodies(other) : mem'[a] = mem[a] /\ a \notin copy .. end - 1
      /\ Color(o)' = COLOR_MOVED /\ Size(o)' = copy
      /\ size \in Int /\ size >= 2
      /\ other'.objects # <<>> /\ Last(other.objects)' = copy
  <2>1. /\ InvHeap'
        /\ Stack' = Stack /\ Roots' = Roots /\ Objects(current)' = Objects(current)
        /\ \A a : a \in Bodies(other)' <=>
                    a \in Bodies(other) \/ a \in other.cursor + 2 .. other.cursor + 2 + Size(o) - 1
        /\ \A a \in Roots \cup Bodies(other) :
             mem'[a] = mem[a] /\ a \notin other.cursor + 2 .. other.cursor + 2 + Size(o) - 1
        /\ Color(o)' = COLOR_MOVED /\ Size(o)' = other.cursor + 2
        /\ Size(o) \in Int /\ Size(o) >= 2
        /\ other'.objects # <<>> /\ Last(other.objects)' = other.cursor + 2
    BY <1>1, <1>3, <1>4, <1>7, Copying
  <2>2. \A a : a \in other.cursor + 2 .. other.cursor + 2 + Size(o) - 1
                 <=> a \in copy .. copy + size - 1
    BY <1>2
  <2>3. \A a : a \in copy .. copy + size - 1 <=> a \in copy .. end - 1
    BY <2>1, <1>2, <1>4
  <2> QED BY <2>1, <2>2, <2>3, <1>2
<1>9. /\ scan'.p = copy /\ scan'.end = end /\ scan'.location = l
      /\ scan'.new_ptr = TagPointer(copy) /\ end = other'.cursor /\ end \in Int
      /\ copy \in copy .. end
      /\ scan' \in [p : Int, end : Int, location : Int, new_ptr : Int]
  <2>1. copy + 0 = copy /\ end \in Int /\ copy \in copy .. end
    BY <1>2, <1>4, <1>8
  <2>2. other.cursor + size + 2 = end
    BY <1>2, <1>4, <1>8
  <2>3. other'.cursor = other.cursor + size + 2
    BY <1>2, <1>7
  <2>4. TagPointer(copy) \in Int
    BY <1>4, TagUntag
  <2> QED BY <2>1, <2>2, <2>3, <2>4, <1>4, <1>7
<1>10. \A w : IsInCurrentChunk(w)' <=> IsInCurrentChunk(w)
  BY <1>1 DEF IsInCurrentChunk
<1>11. ASSUME NEW e \in Entries PROVE UpToDate(e)' /\ e[1] \notin copy .. end - 1
  <2>1. UpToDate(e)
    BY DEF Invariant, InvPointers, Entries
  <2>2. e[1] \in Roots \cup Bodies(other)
    BY <2>1 DEF UpToDate
  <2> QED BY <2>1, <2>2, <1>1, <1>8, <1>10 DEF UpToDate
<1>12. /\ InvPointers'
       /\ \A x : Pending(x) => Pending(x)' \/ x = l
       /\ \A x : Pending(x)' => Pending(x) /\ x # l
  BY <1>1, <1>2, <1>11, OnePopped DEF Invariant
<1>13. InvScan'
  <2>1. \A x : Pending(x)' => x \notin {l} \cup (copy .. end - 1)
    BY <1>11, <1>12 DEF Pending, Entries
  <2>2. \A i \in 1 .. Len(ptrs') : ptrs'[i][1] \notin {l} \cup (copy .. end - 1)
    BY <2>1 DEF Pending
  <2>3. /\ l \in (Roots' \cup Bodies(other)') \ (copy .. end - 1)
        /\ HasPointerTag(mem'[l]) /\ UntagPointer(mem'[l]) = o
    BY <1>3, <1>8
  <2> QED BY <2>2, <2>3, <1>1, <1>3, <1>8, <1>9 DEF InvScan
<1>14. InvWorklist'
  <2>1. scan = NoScan
    BY <1>1 DEF Invariant, InvScan
  <2>2. \A x : x \notin scan.p .. scan.end - 1
    BY <2>1 DEF NoScan
  <2>3. \A x \in Roots \cup Bodies(other) : Outstanding(x) => Pending(x)
    BY <2>2, <1>1 DEF Invariant, InvWorklist
  <2>4. \A x \in Roots \cup Bodies(other) : Outstanding(x)' => Outstanding(x)
    BY <1>8, <1>10 DEF Outstanding
  <2>5. \A x \in Roots' \cup Bodies(other)' :
          Outstanding(x)' => Pending(x)' \/ x \in copy .. end - 1 \/ x = l
    BY <2>3, <2>4, <1>8, <1>12
  <2> QED BY <2>5, <1>1, <1>9 DEF InvWorklist
<1>15. InvControl' /\ InvIdle' /\ InvWalk'
  BY <1>1 DEF Invariant, InvControl, InvIdle, InvWalk, Collecting
<1> QED BY <1>8, <1>12, <1>13, <1>14, <1>15 DEF Invariant

(* When nothing is left on the stack of pointers, no word that the program  *)
(* can read points at an original.                                          *)
LEMMA NothingOutstanding ==
  ASSUME Invariant, pc = "trace", ptrs = <<>>
  PROVE  \A l \in Roots \cup Bodies(other) : ~Outstanding(l)
<1>1. scan = NoScan
  BY DEF Invariant, InvScan
<1>2. \A l : l \notin scan.p .. scan.end - 1
  BY <1>1 DEF NoScan
<1>3. \A l : ~Pending(l)
  BY DEF Pending
<1> QED BY <1>2, <1>3 DEF Invariant, InvWorklist

(* The end of do_gc.                                                        *)
LEMMA FinishGCKeeps == Invariant /\ FinishGC => Invariant'
<1> SUFFICES ASSUME Invariant, FinishGC PROVE Invariant'
  OBVIOUS
<1>1. /\ pc = "trace" /\ ptrs = <<>> /\ Collecting
      /\ pc' = AfterGC
      /\ UNCHANGED <<handles, frames, ptrs, walk, scan, memory_gc_stress>>
      /\ SwapChunks(pc')
  BY DEF FinishGC, SwapChunks, Collecting
<1>2. IF AfterGC = "program" THEN request' = NoRequest /\ gc_count' = 0
      ELSE request' = request /\ gc_count' = gc_count + 1
  BY DEF FinishGC, Counted
<1>3. scan = NoScan
  BY <1>1 DEF Invariant, InvScan
<1>4. \A l \in Roots \cup Bodies(other) : ~Outstanding(l)
  BY <1>1, NothingOutstanding
<1>5. InvHeap' /\ other'.objects = <<>> /\ \A o \in Objects(current)' : Color(o)' = COLOR_WHITE
  BY <1>1, <1>4, Swapping DEF Invariant
<1>6. pc' \in {"program", "allocate", "out_of_memory"}
  BY <1>1 DEF AfterGC
<1>7. InvIdle'
  BY <1>5 DEF InvIdle
<1>8. /\ gc_count \in 0 .. 1 /\ (memory_gc_stress => gc_count = 0)
      /\ request.op \in {"context", "function", "array", "test_do_gc"}
      /\ memory_gc_stress \in BOOLEAN
  BY <1>1 DEF Invariant, InvControl
<1>9. InvControl'
  <2>1. CASE request.op = "test_do_gc"
    <3>1. pc' = "program" /\ request' = NoRequest /\ gc_count' = 0
      BY <2>1, <1>1, <1>2 DEF AfterGC
    <3>2. handles' = {}
      BY <2>1, <1>1 DEF Invariant, InvControl
    <3> QED BY <3>1, <3>2, <1>1, <1>8 DEF InvControl, NoRequest, Collecting
  <2>2. CASE request.op # "test_do_gc"
    <3>1. pc' \in {"allocate", "out_of_memory"} /\ request' = request /\ gc_count' = gc_count + 1
      BY <2>2, <1>1, <1>2 DEF AfterGC
    <3>2. gc_count + 1 \in 0 .. 2 /\ (memory_gc_stress => gc_count + 1 <= 1)
      BY <1>8
    <3>3. pc' = "allocate" => gc_count' <= 1
      BY <2>2, <3>1, <3>2, <1>1 DEF AfterGC, TriesAgain, Counted
    <3> QED BY <2>2, <3>1, <3>2, <3>3, <1>1, <1>8 DEF InvControl, Collecting, Invariant
  <2> QED BY <2>1, <2>2
<1>10. InvPointers' /\ InvWalk' /\ InvScan' /\ InvWorklist'
  BY <1>1, <1>3, <1>6, NotCollecting
<1> QED BY <1>5, <1>7, <1>9, <1>10 DEF Invariant

(* An allocation of a block of a size with fields and an identity, whose    *)
(* address goes to the register r.                                          *)
AllocationOf(size, fields, id, r) ==
  /\ size \in Int /\ size >= 2
  /\ current.cursor + size + 2 <= current.chunk + ChunkWords + 1
  /\ fields \in [0 .. size - 1 -> Int]
  /\ r \in Stack /\ \A i \in 1 .. Len(frames) : frames[i] # r
  /\ \A j \in 0 .. size - 1 :
       /\ PointsTo(fields[j], Objects(current))
       /\ fields[j] = 0 \/ (HandleCell \in Roots /\ fields[j] = mem[HandleCell])
  /\ id = NewIdentity(request.op) /\ id.kind \in {"context", "function", "array"}
  /\ id.kind = "context" => size = ContextWords /\ fields[SPILL_COUNT] = 0
  /\ mem' = MemoryWithResult(size, fields, r)
  /\ ReserveAtCursor(size)
  /\ identity' = IdentityWithObject(id)
  /\ UNCHANGED <<other, frames>>
  /\ handles' = {}

(* That is what an allocation is: there is room, and the fields are zeros   *)
(* but for the pointer that comes back out of the handle.                   *)
LEMMA AllocationInputs ==
  ASSUME NoTinyObjects, Invariant, AllocationSucceeds
  PROVE  \E size, fields, id, r : AllocationOf(size, fields, id, r)
<1>1. /\ pc = "allocate" /\ pc' = "program" /\ Fits(request.size)
      /\ handles' = {} /\ request' = NoRequest /\ gc_count' = 0
      /\ UNCHANGED <<other, frames, ptrs, walk, scan, memory_gc_stress>>
  BY DEF AllocationSucceeds, gc_vars
<1>2. PICK size, fields, id :
        size = request.size /\ fields = InitialFields /\ id = NewIdentity(request.op)
  OBVIOUS
<1>3. PICK r \in Registers :
        mem' = [MemoryWithObject(size, fields) EXCEPT
                  ![r] = TagPointer(current.cursor + 2), ![HandleCell] = 0]
  BY <1>2 DEF AllocationSucceeds
<1>4. ReserveAtCursor(size) /\ identity' = IdentityWithObject(id)
  BY <1>2 DEF AllocationSucceeds, IdentityWithObject
<1>5. /\ InvHeap /\ AllObjects = Objects(current)
      /\ other.objects = <<>> /\ ptrs = <<>> /\ scan = NoScan
      /\ \A o \in Objects(current) : Color(o) = COLOR_WHITE
  BY <1>1, Idle DEF Invariant, InvIdle
<1>6. /\ request.op \in {"context", "function", "array"}
      /\ request.op = "context" => size = ContextWords
      /\ request.op = "function" => size = FunctionWords
      /\ request.op = "array" => size \in ArraySizes
      /\ request.op \in {"context", "function"} => handles = {HandleCell}
      /\ memory_gc_stress \in BOOLEAN
  BY <1>1, <1>2 DEF Invariant, InvControl
<1>7. size \in Int /\ size >= 2
  <2>1. ContextWords \in Int /\ ContextWords >= 2
    BY RuntimeAssumption DEF ContextWords, HEADER_WORDS
  <2>2. FunctionWords \in Int /\ FunctionWords >= 2 /\ \A n \in ArraySizes : n \in Int /\ n >= 2
    BY RuntimeAssumption DEF NoTinyObjects
  <2> QED BY ONLY <2>1, <2>2, <1>6
<1>8. current.cursor + size + 2 <= current.chunk + ChunkWords + 1
  <2>1. PICK cursor, low, end :
          cursor = current.cursor /\ low = current.chunk /\ end = ChunkEnd(current.chunk)
    OBVIOUS
  <2>2. cursor \in Int /\ low \in Int /\ ChunkWords \in Nat /\ end = low + ChunkWords
    BY <2>1, <1>5, Chunks, Places
  <2>3. 4 * (cursor + size) + 2 < 4 * end
    BY <2>1, <1>1, <1>2 DEF Fits, INT_SIZE
  <2>4. cursor + size + 2 <= low + ChunkWords + 1
    BY ONLY <2>2, <2>3, <1>7
  <2> QED BY <2>1, <2>4
<1>9. /\ DOMAIN fields = 0 .. size - 1
      /\ \A j \in 0 .. size - 1 :
           fields[j] = IF j = 0 /\ request.op \in {"context", "function"}
                       THEN mem[HandleCell] ELSE 0
      /\ fields = [j \in 0 .. size - 1 |-> fields[j]]
  BY <1>2 DEF InitialFields, OUTER
<1>10. mem[HandleCell] \in Int
  BY <1>5, StackFacts, Words
<1>11. fields \in [0 .. size - 1 -> Int]
  <2>1. \A j \in 0 .. size - 1 : fields[j] \in Int
    BY ONLY <1>9, <1>10
  <2> QED BY ONLY <2>1, <1>9
<1>12. PointsTo(0, Objects(current))
  BY DEF PointsTo, HasPointerTag, PTR_TAG
<1>13. ASSUME NEW j \in 0 .. size - 1
       PROVE  /\ PointsTo(fields[j], Objects(current))
              /\ fields[j] = 0 \/ (HandleCell \in Roots /\ fields[j] = mem[HandleCell])
  <2>1. CASE j = 0 /\ request.op \in {"context", "function"}
    <3>1. HandleCell \in Roots
      BY <2>1, <1>6 DEF Roots
    <3>2. PointsTo(mem[HandleCell], Objects(current))
      BY <3>1, <1>5 DEF InvHeap, InvWords
    <3> QED BY <2>1, <3>1, <3>2, <1>9
  <2>2. CASE ~(j = 0 /\ request.op \in {"context", "function"})
    BY <2>2, <1>9, <1>12
  <2> QED BY <2>1, <2>2
<1>14. /\ id.kind \in {"context", "function", "array"}
       /\ id.kind = "context" => size = ContextWords /\ fields[SPILL_COUNT] = 0
  <2>1. id.kind = request.op
    BY <1>2 DEF NewIdentity
  <2>2. 1 \in 0 .. size - 1
    BY ONLY <1>7
  <2>3. fields[1] = 0
    BY ONLY <2>2, <1>9
  <2> QED BY <2>1, <2>3, <1>6 DEF SPILL_COUNT
<1>15. r \in Stack /\ \A i \in 1 .. Len(frames) : frames[i] # r
  BY <1>5, FrameWords
<1>16. mem' = MemoryWithResult(size, fields, r)
  BY <1>3 DEF MemoryWithResult
<1>17. id = NewIdentity(request.op)
  BY <1>2
<1> QED BY <1>1, <1>4, <1>7, <1>8, <1>11, <1>13, <1>14, <1>15, <1>16, <1>17 DEF AllocationOf

(* An allocation that succeeds returns to the program.                      *)
LEMMA AllocationSucceedsKeeps ==
  ASSUME NoTinyObjects
  PROVE  Invariant /\ AllocationSucceeds => Invariant'
<1> SUFFICES ASSUME Invariant, AllocationSucceeds PROVE Invariant'
  OBVIOUS
<1>1. /\ pc = "allocate" /\ pc' = "program"
      /\ handles' = {} /\ request' = NoRequest /\ gc_count' = 0
      /\ UNCHANGED <<other, frames, ptrs, walk, scan, memory_gc_stress>>
  BY DEF AllocationSucceeds, gc_vars
<1>2. /\ InvHeap /\ other.objects = <<>> /\ ptrs = <<>> /\ scan = NoScan
      /\ \A o \in Objects(current) : Color(o) = COLOR_WHITE
      /\ memory_gc_stress \in BOOLEAN
  BY <1>1, Idle DEF Invariant, InvIdle, InvControl
<1>3. PICK size, fields, id, r : AllocationOf(size, fields, id, r)
  BY AllocationInputs
<1>4. /\ size \in Int /\ size >= 2
      /\ current.cursor + size + 2 <= current.chunk + ChunkWords + 1
      /\ fields \in [0 .. size - 1 -> Int]
      /\ r \in Stack /\ \A i \in 1 .. Len(frames) : frames[i] # r
      /\ \A j \in 0 .. size - 1 : PointsTo(fields[j], Objects(current))
      /\ id.kind \in {"context", "function", "array"}
      /\ id.kind = "context" => size = ContextWords /\ fields[SPILL_COUNT] = 0
      /\ mem' = MemoryWithResult(size, fields, r)
      /\ ReserveAtCursor(size) /\ identity' = IdentityWithObject(id)
  BY <1>3 DEF AllocationOf
<1>5. InvHeap' /\ \A o \in Objects(current)' : Color(o)' = COLOR_WHITE
  BY ONLY <1>1, <1>2, <1>4, Allocating
<1>6. InvIdle'
  BY <1>1, <1>2, <1>5 DEF InvIdle
<1>7. InvControl'
  BY <1>1, <1>2 DEF InvControl, NoRequest, Collecting
<1>8. InvPointers' /\ InvWalk' /\ InvScan' /\ InvWorklist'
  BY <1>1, <1>2, NotCollecting
<1> QED BY <1>5, <1>6, <1>7, <1>8 DEF Invariant

(* A return removes the last frame, and the others stay as they are.        *)
LEMMA ReturnKeeps == Invariant /\ Return => Invariant'
<1> SUFFICES ASSUME Invariant, Return PROVE Invariant'
  OBVIOUS
<1>1. /\ pc = "program" /\ pc' = "program" /\ Len(frames) > 1
      /\ frames' = SubSeq(frames, 1, Len(frames) - 1)
      /\ mem' = [a \in Address |-> IF a \in Top .. LastWord(Top) THEN 0 ELSE mem[a]]
      /\ UNCHANGED <<current, other, handles, request, gc_count, ptrs, walk, scan,
                     memory_gc_stress, identity>>
  BY DEF Return, gc_vars
<1>2. /\ InvHeap /\ other.objects = <<>> /\ AllObjects = Objects(current)
      /\ handles = {} /\ ptrs = <<>> /\ scan = NoScan
      /\ \A o \in Objects(current) : Color(o) = COLOR_WHITE
  BY <1>1, Idle DEF Invariant, InvIdle
<1> DEFINE n == Len(frames)
           last(i) == LastWord(frames[i])
           cleared == Top .. LastWord(Top)
<1>3. /\ n \in Nat /\ n - 1 \in 1 .. n /\ n \in 1 .. n /\ Top = frames[n]
      /\ \A i \in 1 .. n - 1 : i \in 1 .. n /\ i < n
  BY <1>1, <1>2, StackFacts DEF Top
<1>4. /\ frames' \in Seq(Int) /\ Len(frames') = n - 1
      /\ \A i \in 1 .. n - 1 : frames'[i] = frames[i]
  <2> DEFINE m == n - 1
  <2>1. m \in Int /\ m >= 0 /\ \A i \in 1 .. m : frames[i] \in Int
    <3>1. m \in Int /\ m >= 0
      BY <1>1, <1>3
    <3>2. \A i \in 1 .. n : frames[i] \in Int
      BY <1>2, StackFacts
    <3> QED BY <3>1, <3>2, <1>3
  <2>2. frames' = SubSeq(frames, 1, m)
    BY <1>1
  <2> HIDE DEF n, m
  <2>3. /\ SubSeq(frames, 1, m) \in Seq(Int)
        /\ Len(SubSeq(frames, 1, m)) = IF 1 <= m THEN m - 1 + 1 ELSE 0
        /\ \A i \in 1 .. m - 1 + 1 : SubSeq(frames, 1, m)[i] = frames[1 + i - 1]
    BY ONLY <2>1, SubSeqProperties
  <2>4. \A i \in 1 .. m : frames[1 + i - 1] = frames[i] /\ i \in 1 .. m - 1 + 1
    BY ONLY <2>1
  <2>5. Len(SubSeq(frames, 1, m)) = m /\ \A i \in 1 .. m : SubSeq(frames, 1, m)[i] = frames[i]
    BY ONLY <2>1, <2>3, <2>4
  <2> QED BY ONLY <2>2, <2>3, <2>5 DEF m
<1>5. \A a \in Address : a \notin cleared => mem'[a] = mem[a]
  BY <1>1
<1>6. \A l \in cleared : l \in Stack
  <2>1. PICK low, top, end : low = StackHigh /\ top = Top /\ end = LastWord(Top)
    OBVIOUS
  <2>2. low \in Int /\ top \in Int /\ end \in Int /\ low <= top
    BY <1>2, <1>3, <2>1, StackFacts, Places
  <2>3. \A l \in top .. end : l \in low .. end
    BY ONLY <2>2
  <2> QED BY <2>1, <2>3 DEF Stack
<1>7. /\ \A o \in AllObjects : mem'[o - 1] = mem[o - 1] /\ mem'[o - 2] = mem[o - 2]
      /\ \A l \in Bodies(current) : mem'[l] = mem[l]
  <2>1. \A l \in Address : l \notin Stack => mem'[l] = mem[l]
    BY <1>5, <1>6
  <2>2. \A l \in Bodies(current) : l \in Address /\ l \notin Stack
    BY <1>2, Words, Regions, StackFacts
  <2>3. \A o \in AllObjects : /\ o - 1 \in Address /\ o - 1 \notin Stack
                              /\ o - 2 \in Address /\ o - 2 \notin Stack
    BY <1>2, Words, Regions, StackFacts
  <2> QED BY <2>1, <2>2, <2>3
<1>8. \A o \in AllObjects :
        /\ o + SPILL_COUNT \in Bodies(current)
        /\ IsContextObject(o) => mem'[o + SPILL_COUNT] \in 0 .. MaxSpills
  <2>1. \A o \in AllObjects : o + SPILL_COUNT \in Bodies(current)
    BY <1>2, Regions DEF SPILL_COUNT
  <2>2. \A o \in AllObjects : IsContextObject(o) => mem[o + SPILL_COUNT] \in 0 .. MaxSpills
    BY <1>2 DEF InvHeap, InvIdentity
  <2> QED BY <2>1, <2>2, <1>7
<1>9. /\ InvLayout' /\ InvRoom' /\ InvIdentity' /\ InvForwarding'
      /\ Objects(current)' = Objects(current) /\ AllObjects' = Objects(current)
      /\ Bodies(current)' = Bodies(current) /\ Bodies(other)' = {}
      /\ \A o \in Objects(current)' : Color(o)' = COLOR_WHITE
  BY <1>1, <1>2, <1>7, <1>8, HeadersKept
<1>10. InvTypes'
  <2>1. mem' \in [Address -> Int]
    BY <1>1, <1>2, Words
  <2>2. frames' # <<>>
    BY <1>3, <1>4
  <2> QED BY <2>1, <2>2, <1>1, <1>2, <1>4 DEF InvHeap, InvTypes
<1>11. \A i \in 1 .. n - 1 : /\ frames[i] \in Int /\ last(i) \in Int /\ StackHigh <= frames[i]
                             /\ frames[i] < last(i) /\ last(i) < Top
                             /\ frames[i] \in Stack
  <2>1. \A i \in 1 .. n - 1 : last(i) < Top
    BY <1>2, <1>3 DEF InvHeap, InvFrames
  <2> QED BY <2>1, <1>2, <1>3, StackFacts
<1>12. Top \in Int /\ LastWord(Top) \in Int
  BY <1>2, StackFacts
<1>13. ASSUME NEW i \in 1 .. n - 1, NEW e, e = frames[i]
       PROVE  IsFrame(e)' /\ LastWord(e)' = LastWord(e)
  <2>1. IsFrame(e)
    BY <1>2, <1>3, <1>13 DEF InvHeap, InvFrames
  <2>2. e \in Address /\ e \notin cleared
    BY <1>2, <1>11, <1>12, <1>13, StackFacts
  <2>3. FunctionContext(e)' = FunctionContext(e)
    BY <1>5, <2>2 DEF FunctionContext
  <2>4. SpillCount(e)' = SpillCount(e)
    <3>1. FunctionContext(e) + SPILL_COUNT \in Bodies(current)
      BY <1>8, <2>1 DEF IsFrame
    <3> QED BY <1>7, <2>3, <3>1 DEF SpillCount
  <2>5. LastWord(e)' = LastWord(e)
    BY <2>4 DEF LastWord
  <2>6. HasPointerTag(mem'[e])
    BY <1>5, <2>1, <2>2 DEF IsFrame
  <2>7. FunctionContext(e)' \in AllObjects' /\ IsContextObject(FunctionContext(e))'
    BY <1>1, <1>2, <1>9, <2>1, <2>3 DEF IsFrame, IsContextObject
  <2> QED BY <2>1, <2>4, <2>5, <2>6, <2>7 DEF IsFrame
<1> HIDE DEF n, last, cleared
<1>14. \A i \in 1 .. n - 1 : IsFrame(frames[i])' /\ LastWord(frames[i])' = LastWord(frames[i])
  <2> TAKE i \in 1 .. n - 1
  <2>1. PICK e : e = frames[i]
    OBVIOUS
  <2>2. IsFrame(e)' /\ LastWord(e)' = LastWord(e) /\ frames'[i] = e
    BY <1>4, <1>13, <2>1
  <2> QED BY <2>1, <2>2
<1>15. InvFrames'
  <2>1. frames'[1] = StackHigh
    BY <1>1, <1>2, <1>3, <1>4 DEF InvHeap, InvFrames, n
  <2>2. \A i \in 1 .. n - 1 : IsFrame(frames[i])'
    BY <1>14
  <2>3. ASSUME NEW i \in 1 .. n - 1 - 1 PROVE frames'[i + 1] = LastWord(frames[i])' + 1
    <3>1. i \in 1 .. n - 1 /\ i + 1 \in 1 .. n - 1
      BY <1>3
    <3>2. frames[i + 1] = LastWord(frames[i]) + 1
      BY <1>2, <3>1 DEF InvHeap, InvFrames, n
    <3> QED BY <1>4, <1>14, <3>1, <3>2
  <2>4. ASSUME NEW i \in 1 .. n - 1, NEW j \in 1 .. n - 1, i < j
        PROVE  LastWord(frames[i])' < frames'[j]
    <3>1. LastWord(frames[i]) < frames[j]
      BY <1>2, <1>3, <2>4 DEF InvHeap, InvFrames, n
    <3> QED BY <1>4, <1>14, <3>1
  <2> QED BY <1>4, <2>1, <2>2, <2>3, <2>4 DEF InvFrames
<1>16. \A l \in Roots' : l \in Stack /\ l \notin cleared
  <2>1. n - 1 \in 1 .. n - 1
    BY <1>1, <1>3 DEF n
  <2>2. Top' = frames[n - 1] /\ LastWord(Top)' = LastWord(frames[n - 1])
    BY <1>4, <1>14, <2>1 DEF Top
  <2>3. PICK low, top, end, new : /\ low = StackHigh /\ top = Top /\ end = LastWord(Top)
                                  /\ new = LastWord(frames[n - 1])
    OBVIOUS
  <2>4. /\ low \in Int /\ top \in Int /\ end \in Int /\ new \in Int
        /\ new < top /\ top <= end
    <3>1. last(n - 1) \in Int /\ last(n - 1) < Top /\ Top \in Int
      BY <1>11, <1>12, <2>1
    <3>2. last(n - 1) = LastWord(frames[n - 1])
      BY DEF last
    <3>3. Top < LastWord(Top) /\ LastWord(Top) \in Int
      BY <1>2, <1>3, StackFacts DEF n
    <3> QED BY <2>3, <3>1, <3>2, <3>3, Places
  <2>5. \A l \in low .. new : l \in low .. end /\ l \notin top .. end
    BY ONLY <2>4
  <2>6. Roots' = low .. new
    BY <1>1, <1>2, <2>2, <2>3 DEF Roots
  <2> QED BY <2>3, <2>5, <2>6 DEF Stack, cleared
<1>17. InvWords'
  <2>1. ASSUME NEW l \in Roots' PROVE PointsTo(mem'[l], AllObjects')
    <3>1. l \in Stack /\ l \notin cleared /\ l \in Address /\ l \in Roots
      BY <1>2, <1>16, <2>1, StackFacts, Words
    <3>2. PointsTo(mem[l], AllObjects)
      BY <1>2, <3>1 DEF InvHeap, InvWords
    <3> QED BY <1>2, <1>5, <1>9, <3>1, <3>2
  <2>2. ASSUME NEW l \in Bodies(current) PROVE PointsTo(mem'[l], Objects(current)')
    <3>1. PointsTo(mem[l], Objects(current))
      BY <1>2, <2>2 DEF InvHeap, InvWords
    <3> QED BY <1>7, <1>9, <2>2, <3>1
  <2>3. handles' = {}
    BY <1>1, <1>2
  <2>4. /\ \A l \in (Roots \cup Bodies(other))' : PointsTo(mem[l], AllObjects)'
        /\ \A l \in Bodies(current)' : PointsTo(mem[l], Objects(current))'
    BY <1>9, <2>1, <2>2 DEF PointsTo
  <2> QED BY <2>3, <2>4 DEF InvWords
<1>18. InvHeap'
  BY <1>9, <1>10, <1>15, <1>17 DEF InvHeap
<1>19. InvIdle'
  BY <1>1, <1>2, <1>9 DEF InvIdle
<1>20. InvControl'
  BY <1>1 DEF Invariant, InvControl, Collecting
<1>21. InvPointers' /\ InvWalk' /\ InvScan' /\ InvWorklist'
  BY <1>1, <1>2, NotCollecting
<1> QED BY <1>18, <1>19, <1>20, <1>21 DEF Invariant

(* The memory after a call.                                                 *)
MemoryOfCall(r, n, kept, context, ebp) ==
  [a \in Address |->
     IF a = ebp THEN mem[r]
     ELSE IF a = context + SPILL_COUNT THEN n
     ELSE IF a \in ebp + 1 .. ebp + n THEN TagInt(0)
     ELSE IF a \in ebp + n + 1 .. ebp + n + PushedRegisters
          THEN IF a - ebp - n \in kept THEN mem[Register(a - ebp - n)] ELSE EXTERNAL
     ELSE mem[a]]

(* A call adds a frame whose context knows how many spills it has.  The     *)
(* context may have other frames, of the same function.                     *)
LEMMA CallFunctionKeeps == Invariant /\ CallFunction => Invariant'
<1> SUFFICES ASSUME Invariant, CallFunction PROVE Invariant'
  OBVIOUS
<1>1. /\ pc = "program" /\ pc' = "program"
      /\ UNCHANGED <<current, other, handles, request, gc_count, ptrs, walk, scan,
                     memory_gc_stress, identity>>
  BY DEF CallFunction, gc_vars
<1>2. /\ InvHeap /\ other.objects = <<>> /\ AllObjects = Objects(current)
      /\ handles = {} /\ ptrs = <<>> /\ scan = NoScan
      /\ \A o \in Objects(current) : Color(o) = COLOR_WHITE
  BY <1>1, Idle DEF Invariant, InvIdle
<1>3. PICK r \in Registers, n \in SpillCounts, kept \in SUBSET (2 .. PushedRegisters) :
        /\ IsCallable(mem[r])
        /\ mem[UntagPointer(mem[r]) + SPILL_COUNT] \in {0, n}
        /\ LastWord(Top) + 1 + n + PushedRegisters < StackEnd
        /\ frames' = Append(frames, LastWord(Top) + 1)
        /\ mem' = MemoryOfCall(r, n, kept, UntagPointer(mem[r]), LastWord(Top) + 1)
  BY DEF CallFunction, MemoryOfCall
<1>4. PICK context, ebp : context = UntagPointer(mem[r]) /\ ebp = LastWord(Top) + 1
  OBVIOUS
<1>5. /\ IsCallable(mem[r])
      /\ mem[context + SPILL_COUNT] \in {0, n}
      /\ ebp + n + PushedRegisters < StackEnd
      /\ frames' = Append(frames, ebp)
      /\ mem' = MemoryOfCall(r, n, kept, context, ebp)
  BY <1>3, <1>4
<1>6. PICK m : m = Len(frames)
  OBVIOUS
<1> DEFINE end == ebp + n + PushedRegisters
<1>7. /\ r \in Stack /\ mem[r] \in Int /\ HasPointerTag(mem[r])
      /\ context \in AllObjects /\ IsContextObject(context)
      /\ context \in Int /\ InHeap(context) /\ context + SPILL_COUNT \in Bodies(current)
  <2>1. r \in Stack /\ r \in Address
    BY <1>2, <1>3, FrameWords, StackFacts
  <2>2. HasPointerTag(mem[r]) /\ context \in AllObjects /\ IsContextObject(context)
    BY <1>2, <1>4, <1>5 DEF IsCallable, IsObject, IsContextObject, InvHeap, InvIdentity
  <2>3. mem[r] \in Int /\ context \in Int /\ InHeap(context)
    BY <1>2, <2>1, <2>2, Words, Regions
  <2>4. context + 1 \in Bodies(current)
    BY <1>2, <2>2, Regions
  <2> QED BY <2>1, <2>2, <2>3, <2>4 DEF SPILL_COUNT
<1>8. /\ n \in Nat \ {0} /\ n \in 1 .. MaxSpills /\ n \in 0 .. 100 /\ n \in 0 .. MaxSpills
      /\ ebp \in Int /\ end \in Int /\ PushedRegisters \in Nat \ {0}
      /\ StackHigh < ebp /\ HandleCell < ebp /\ FirstChunk < ebp
      /\ StackHigh \in Int /\ StackEnd \in Int /\ LastWord(Top) \in Int
      /\ ebp < end /\ end < StackEnd
  <2>1. n \in 1 .. MaxSpills /\ MaxSpills \in 1 .. 100
    BY <1>3, RuntimeAssumption, Places
  <2>2. n \in Nat \ {0} /\ n \in 0 .. 100 /\ n \in 0 .. MaxSpills
    BY <2>1
  <2>3. StackHigh <= LastWord(Top) /\ LastWord(Top) \in Int
    <3>1. 1 \in 1 .. m
      BY <1>2, StackFacts, <1>6
    <3>2. /\ frames[1] \in Int /\ StackHigh <= frames[1] /\ frames[1] < LastWord(frames[1])
          /\ LastWord(frames[1]) <= LastWord(Top) /\ LastWord(frames[1]) \in Int
          /\ LastWord(Top) \in Int
      BY <1>2, <3>1, StackFacts, <1>6
    <3> QED BY <3>2, Places
  <2>4. ebp \in Int /\ StackHigh < ebp
    BY <1>4, <2>3, Places
  <2>5. end < StackEnd
    BY <1>5
  <2> QED BY <2>1, <2>2, <2>3, <2>4, <2>5, Places
<1>9. /\ \A a : a \in ebp .. end => a \in Address /\ ~InHeap(a)
      /\ \A l \in Stack : l < ebp
      /\ \A l : l \in StackHigh .. end => l \in Stack \/ l = ebp \/ l \in ebp + 1 .. end
  <2>1. \A a : a \in ebp .. end => a \in Address /\ ~InHeap(a)
    BY <1>8, Places DEF InHeap
  <2>2. \A l \in Stack : l < ebp
    BY <1>4, <1>8 DEF Stack
  <2>3. \A l : l \in StackHigh .. end => l \in Stack \/ l = ebp \/ l \in ebp + 1 .. end
    BY <1>4, <1>8 DEF Stack
  <2> QED BY <2>1, <2>2, <2>3
<1>10. /\ \A l \in Stack \cup Bodies(current) : Harmless(mem[l])
       /\ Harmless(TagInt(0)) /\ Harmless(EXTERNAL)
  BY <1>1, HarmlessWords DEF Invariant
<1> HIDE DEF end
<1>11. /\ mem'[ebp] = mem[r]
       /\ mem'[context + SPILL_COUNT] = n
       /\ \A a \in Address :
            a \notin ebp .. end /\ a # context + SPILL_COUNT => mem'[a] = mem[a]
  <2>1. /\ ebp \in Address /\ context + SPILL_COUNT \in Address /\ context + SPILL_COUNT # ebp
    <3>1. context + SPILL_COUNT \in Address /\ InHeap(context + SPILL_COUNT)
      BY <1>2, <1>7, Words, Regions
    <3>2. ebp \in ebp .. end
      BY <1>8
    <3> QED BY <3>1, <3>2, <1>9
  <2>2. mem'[ebp] = mem[r] /\ mem'[context + SPILL_COUNT] = n
    BY <2>1, <1>5 DEF MemoryOfCall
  <2>3. /\ ebp \in ebp .. end
        /\ \A a : a \in ebp + 1 .. ebp + n => a \in ebp .. end
        /\ \A a : a \in ebp + n + 1 .. ebp + n + PushedRegisters => a \in ebp .. end
    BY ONLY <1>8 DEF end
  <2>4. ASSUME NEW a \in Address, a \notin ebp .. end, a # context + SPILL_COUNT
        PROVE  mem'[a] = mem[a]
    BY <1>5, <2>3, <2>4 DEF MemoryOfCall
  <2> QED BY <2>2, <2>4
<1>12. ASSUME NEW a \in ebp + 1 .. end PROVE Harmless(mem'[a])
  <2>1. a \in Int /\ a # ebp /\ a \in ebp .. end
    BY ONLY <1>8, <1>12
  <2>2. a \in Address /\ a # context + SPILL_COUNT
    BY <2>1, <1>2, <1>7, <1>9, Regions
  <2>3. CASE a \in ebp + 1 .. ebp + n
    BY <1>5, <1>10, <2>1, <2>2, <2>3 DEF MemoryOfCall
  <2>4. CASE a \notin ebp + 1 .. ebp + n
    <3>1. a \in ebp + n + 1 .. ebp + n + PushedRegisters
      BY ONLY <1>8, <1>12, <2>1, <2>4 DEF end
    <3>2. mem'[a] = IF a - ebp - n \in kept THEN mem[Register(a - ebp - n)] ELSE EXTERNAL
      BY <1>5, <2>1, <2>2, <2>4, <3>1 DEF MemoryOfCall
    <3>3. CASE a - ebp - n \in kept
      <4>1. PICK k : k = a - ebp - n
        OBVIOUS
      <4>2. k \in 2 .. PushedRegisters
        BY <3>3, <4>1
      <4>3. k \in 1 .. PushedRegisters
        BY ONLY <4>2, <1>8
      <4>4. Register(k) \in Stack
        BY <4>3, <1>2, FrameWords DEF Registers
      <4> QED BY <3>2, <3>3, <4>1, <4>4, <1>10
    <3>4. CASE a - ebp - n \notin kept
      BY <3>2, <3>4, <1>10
    <3> QED BY <3>3, <3>4
  <2> QED BY <2>3, <2>4
<1>13. /\ \A l \in Stack : mem'[l] = mem[l]
       /\ \A l \in Bodies(current) : l # context + SPILL_COUNT => mem'[l] = mem[l]
       /\ \A o \in AllObjects : mem'[o - 1] = mem[o - 1] /\ mem'[o - 2] = mem[o - 2]
  <2>1. \A l \in Stack : l \in Address /\ l \notin ebp .. end /\ l # context + SPILL_COUNT
    <3> TAKE l \in Stack
    <3>1. l \in Int /\ l < ebp /\ l \in Address /\ ~InHeap(l)
      BY <1>2, <1>9, StackFacts
    <3>2. l \notin ebp .. end
      BY ONLY <3>1, <1>8
    <3>3. InHeap(context + SPILL_COUNT)
      BY <1>2, <1>7, Regions
    <3> QED BY <3>1, <3>2, <3>3
  <2>2. \A l \in Bodies(current) : l \in Address /\ l \notin ebp .. end
    BY <1>2, <1>9, Words, Regions
  <2>3. \A o \in AllObjects :
          /\ o - 1 \in Address /\ o - 1 \notin ebp .. end /\ o - 1 # context + SPILL_COUNT
          /\ o - 2 \in Address /\ o - 2 \notin ebp .. end /\ o - 2 # context + SPILL_COUNT
    BY <1>2, <1>7, <1>9, Words, Regions
  <2> QED BY <2>1, <2>2, <2>3, <1>11
<1>14. \A o \in AllObjects :
         /\ o + SPILL_COUNT \in Bodies(current)
         /\ IsContextObject(o) => mem'[o + SPILL_COUNT] \in 0 .. MaxSpills
  <2>1. \A o \in AllObjects : o + SPILL_COUNT \in Bodies(current)
    BY <1>2, Regions DEF SPILL_COUNT
  <2>2. \A o \in AllObjects : IsContextObject(o) => mem[o + SPILL_COUNT] \in 0 .. MaxSpills
    BY <1>2 DEF InvHeap, InvIdentity
  <2> QED BY <2>1, <2>2, <1>8, <1>11, <1>13
<1>15. /\ InvLayout' /\ InvRoom' /\ InvIdentity' /\ InvForwarding'
       /\ Objects(current)' = Objects(current) /\ AllObjects' = Objects(current)
       /\ Bodies(current)' = Bodies(current) /\ Bodies(other)' = {}
       /\ \A o \in Objects(current)' : Color(o)' = COLOR_WHITE
  BY <1>1, <1>2, <1>13, <1>14, HeadersKept
<1>16. /\ m \in Nat /\ m \in 1 .. m /\ Len(frames') = m + 1 /\ frames' \in Seq(Int)
       /\ \A i \in 1 .. m : frames'[i] = frames[i]
       /\ frames'[m + 1] = ebp
       /\ Top = frames[m]
  <2>1. m \in Nat /\ m \in 1 .. m /\ Top = frames[m] /\ frames \in Seq(Int)
    BY <1>2, StackFacts, <1>6 DEF InvHeap, InvTypes, Top
  <2>2. frames' = Append(frames, ebp) /\ ebp \in Int /\ m = Len(frames)
    BY <1>5, <1>8, <1>6
  <2>3. /\ Len(frames') = m + 1 /\ frames' \in Seq(Int)
        /\ \A i \in 1 .. m : frames'[i] = frames[i]
        /\ frames'[m + 1] = ebp
    BY ONLY <2>1, <2>2
  <2> QED BY <2>1, <2>3
<1>17. InvTypes'
  <2>1. ASSUME NEW a \in Address PROVE mem'[a] \in Int
    <3>1. CASE a = ebp \/ a = context + SPILL_COUNT
      BY <3>1, <1>7, <1>8, <1>11
    <3>2. CASE a \in ebp + 1 .. end
      BY <3>2, <1>12 DEF Harmless
    <3>3. CASE a \notin ebp .. end /\ a # context + SPILL_COUNT
      BY <3>3, <1>2, <1>11, Words
    <3>4. a \in ebp .. end => a = ebp \/ a \in ebp + 1 .. end
      BY ONLY <1>8
    <3> QED BY <3>1, <3>2, <3>3, <3>4
  <2>2. mem' = [a \in Address |-> mem'[a]]
    BY <1>5 DEF MemoryOfCall
  <2>3. mem' \in [Address -> Int]
    BY ONLY <2>1, <2>2
  <2>4. frames' # <<>>
    BY <1>16
  <2> QED BY <2>3, <2>4, <1>1, <1>2, <1>16 DEF InvHeap, InvTypes
<1>18. ASSUME NEW i \in 1 .. m, NEW e, e = frames[i]
       PROVE  IsFrame(e)' /\ LastWord(e)' = LastWord(e) /\ LastWord(e) < ebp
  <2>1. /\ IsFrame(e) /\ e \in Stack
        /\ LastWord(e) \in Int /\ LastWord(e) <= LastWord(Top)
    BY <1>2, <1>18, StackFacts, <1>6 DEF InvHeap, InvFrames
  <2>2. mem'[e] = mem[e]
    BY <1>13, <2>1
  <2>3. FunctionContext(e)' = FunctionContext(e)
    BY <2>2 DEF FunctionContext
  <2>4. /\ FunctionContext(e) \in AllObjects /\ FunctionContext(e) + SPILL_COUNT \in Bodies(current)
        /\ SpillCount(e) \in 1 .. MaxSpills /\ HasPointerTag(mem[e])
        /\ IsContextObject(FunctionContext(e))
    BY <1>14, <2>1 DEF IsFrame
  <2>5. SpillCount(e)' = SpillCount(e)
    <3>1. CASE FunctionContext(e) + SPILL_COUNT = context + SPILL_COUNT
      <4>1. SpillCount(e) \in {0, n}
        BY <3>1, <1>5 DEF SpillCount
      <4>2. SpillCount(e) = n
        BY <4>1, <2>4, <1>8, Places
      <4> QED BY <3>1, <4>2, <2>3, <1>11 DEF SpillCount
    <3>2. CASE FunctionContext(e) + SPILL_COUNT # context + SPILL_COUNT
      BY <3>2, <2>3, <2>4, <1>13 DEF SpillCount
    <3> QED BY <3>1, <3>2
  <2>6. LastWord(e)' = LastWord(e)
    BY <2>5 DEF LastWord
  <2>7. FunctionContext(e)' \in AllObjects' /\ IsContextObject(FunctionContext(e))'
    BY <1>1, <1>2, <1>15, <2>3, <2>4 DEF IsContextObject
  <2>8. LastWord(e) < ebp
    BY <1>4, <1>8, <2>1
  <2> QED BY <2>1, <2>2, <2>4, <2>5, <2>6, <2>7, <2>8 DEF IsFrame
<1>19. IsFrame(ebp)' /\ LastWord(ebp)' = end
  <2>1. FunctionContext(ebp)' = context
    BY <1>4, <1>11 DEF FunctionContext
  <2>2. SpillCount(ebp)' = n
    BY <2>1, <1>11 DEF SpillCount
  <2>3. LastWord(ebp)' = end
    BY <2>2 DEF LastWord, end
  <2>4. FunctionContext(ebp)' \in AllObjects' /\ IsContextObject(FunctionContext(ebp))'
    BY <1>1, <1>2, <1>7, <1>15, <2>1 DEF IsContextObject
  <2>5. HasPointerTag(mem'[ebp]) /\ StackHigh <= ebp
    BY <1>7, <1>8, <1>11
  <2> QED BY <2>2, <2>3, <2>4, <2>5, <1>8 DEF IsFrame
<1>20. /\ \A i \in 1 .. m : /\ IsFrame(frames[i])' /\ LastWord(frames[i])' = LastWord(frames[i])
                            /\ LastWord(frames[i]) < ebp
       /\ IsFrame(frames[m + 1])' /\ LastWord(frames[m + 1])' = end
       /\ \A i \in 1 .. m + 1 : i \in 1 .. m \/ i = m + 1
  <2>1. \A i \in 1 .. m + 1 : i \in 1 .. m \/ i = m + 1
    BY ONLY <1>16
  <2>2. IsFrame(frames[m + 1])' /\ LastWord(frames[m + 1])' = end
    BY <1>16, <1>19
  <2>3. ASSUME NEW i \in 1 .. m
        PROVE  /\ IsFrame(frames[i])' /\ LastWord(frames[i])' = LastWord(frames[i])
               /\ LastWord(frames[i]) < ebp
    <3>1. PICK e : e = frames[i]
      OBVIOUS
    <3>2. IsFrame(e)' /\ LastWord(e)' = LastWord(e) /\ LastWord(e) < ebp /\ frames'[i] = e
      BY <1>16, <1>18, <3>1
    <3> QED BY <3>1, <3>2
  <2> QED BY <2>1, <2>2, <2>3
<1>21. InvFrames'
  <2>1. frames'[1] = StackHigh
    BY <1>2, <1>16, StackFacts, <1>6
  <2>2. ASSUME NEW i \in 1 .. m + 1 PROVE IsFrame(frames[i])'
    BY <1>20
  <2>3. ASSUME NEW i \in 1 .. Len(frames') - 1 PROVE frames'[i + 1] = LastWord(frames[i])' + 1
    <3>1. i \in 1 .. m
      BY <1>16
    <3>2. CASE i = m
      BY <3>2, <1>4, <1>16, <1>20
    <3>3. CASE i # m
      <4>1. i \in 1 .. m - 1 /\ i + 1 \in 1 .. m
        BY <3>1, <3>3, <1>16
      <4>2. frames[i + 1] = LastWord(frames[i]) + 1
        BY <4>1, <1>2, <1>6 DEF InvHeap, InvFrames
      <4> QED BY <3>1, <4>1, <4>2, <1>16, <1>20
    <3> QED BY <3>2, <3>3
  <2>4. ASSUME NEW i \in 1 .. m + 1, NEW j \in 1 .. m + 1, i < j
        PROVE  LastWord(frames[i])' < frames'[j]
    <3>1. i \in 1 .. m
      BY <2>4, <1>16
    <3>2. CASE j = m + 1
      BY <3>1, <3>2, <1>16, <1>20
    <3>3. CASE j \in 1 .. m
      <4>1. LastWord(frames[i]) < frames[j]
        BY <2>4, <3>1, <3>3, <1>2, <1>6 DEF InvHeap, InvFrames
      <4> QED BY <3>1, <3>3, <4>1, <1>16, <1>20
    <3>4. j \in 1 .. m \/ j = m + 1
      BY <1>20
    <3> QED BY <3>2, <3>3, <3>4
  <2>5. Len(frames') = m + 1
    BY <1>16
  <2>6. \A i \in 1 .. Len(frames') : IsFrame(frames[i])'
    BY <2>2, <2>5
  <2>7. \A i \in 1 .. Len(frames') - 1 : frames'[i + 1] = LastWord(frames[i])' + 1
    BY <2>3
  <2>8. \A i, j \in 1 .. Len(frames') : i < j => LastWord(frames[i])' < frames'[j]
    BY <2>4, <2>5
  <2> QED BY <2>1, <2>6, <2>7, <2>8 DEF InvFrames
<1>22. \A l \in Roots' : l \in Stack \/ l = ebp \/ l \in ebp + 1 .. end
  <2>1. Top' = ebp
    BY <1>16 DEF Top
  <2>2. LastWord(Top)' = end
    BY <2>1, <1>19
  <2>3. Roots' = StackHigh .. end
    BY <2>2, <1>1, <1>2 DEF Roots
  <2> QED BY <2>3, <1>9
<1>23. InvWords'
  <2>1. ASSUME NEW l \in Roots' PROVE PointsTo(mem'[l], Objects(current))
    <3>1. CASE l \in Stack
      BY <3>1, <1>10, <1>13 DEF Harmless
    <3>2. CASE l = ebp
      BY <3>2, <1>7, <1>10, <1>11 DEF Harmless
    <3>3. CASE l \in ebp + 1 .. end
      BY <3>3, <1>12 DEF Harmless
    <3> QED BY <3>1, <3>2, <3>3, <1>22
  <2>2. ASSUME NEW l \in Bodies(current) PROVE PointsTo(mem'[l], Objects(current))
    <3>1. CASE l = context + SPILL_COUNT
      BY <3>1, <1>8, <1>11, SmallWords DEF PointsTo
    <3>2. CASE l # context + SPILL_COUNT
      BY <3>2, <1>10, <1>13 DEF Harmless
    <3> QED BY <3>1, <3>2
  <2>3. handles' = {}
    BY <1>1, <1>2
  <2>4. /\ \A l \in (Roots \cup Bodies(other))' : PointsTo(mem[l], AllObjects)'
        /\ \A l \in Bodies(current)' : PointsTo(mem[l], Objects(current))'
    BY <1>15, <2>1, <2>2 DEF PointsTo
  <2> QED BY <2>3, <2>4 DEF InvWords
<1>24. InvHeap'
  BY <1>15, <1>17, <1>21, <1>23 DEF InvHeap
<1>25. InvIdle'
  BY <1>1, <1>2, <1>15 DEF InvIdle
<1>26. InvControl'
  BY <1>1 DEF Invariant, InvControl, Collecting
<1>27. InvPointers' /\ InvWalk' /\ InvScan' /\ InvWorklist'
  BY <1>1, <1>2, NotCollecting
<1> QED BY <1>24, <1>25, <1>26, <1>27 DEF Invariant

-----------------------------------------------------------------------------
(* The state memory_init and the prologue of main leave.                    *)
LEMMA InitInvariant == Init => Invariant
<1> SUFFICES ASSUME Init PROVE Invariant
  OBVIOUS
<1>1. PICK n \in SpillCounts :
        mem = [a \in Address |->
                IF a = MainContext - 2 THEN ContextWords
                ELSE IF a = MainContext - 1 THEN COLOR_WHITE
                ELSE IF a = MainContext + SPILL_COUNT THEN n
                ELSE IF a \in MainContext .. MainContext + ContextWords - 1 THEN 0
                ELSE IF a \in FirstChunk .. ChunkEnd(FirstChunk) - 1 THEN ZAP_WORD
                ELSE IF a = StackHigh THEN TagPointer(MainContext)
                ELSE 0]
  BY DEF Init
<1>2. /\ current = [chunk |-> FirstChunk, cursor |-> MainContext + ContextWords,
                    objects |-> <<MainContext>>]
      /\ other = [chunk |-> SecondChunk, cursor |-> SecondChunk, objects |-> <<>>]
      /\ handles = {} /\ frames = <<StackHigh>>
      /\ pc = "program" /\ request = NoRequest /\ gc_count = 0
      /\ ptrs = <<>> /\ walk = NoWalk /\ scan = NoScan
      /\ memory_gc_stress \in BOOLEAN
      /\ identity = [a \in {MainContext} |-> [kind |-> "main", n |-> 1]]
  BY RuntimeAssumption DEF Init
<1>3. /\ n \in 1 .. MaxSpills /\ n \in 0 .. 100 /\ n \in Int
      /\ ContextWords \in Int /\ 2 <= ContextWords /\ ContextWords < ChunkWords
      /\ MainContext = 34 /\ MainContext \in Int
  BY RuntimeAssumption, MainContextFits, Places DEF ContextWords, HEADER_WORDS, MainContext
<1>4. /\ Len(current.objects) = 1 /\ current.objects[1] = MainContext
      /\ 1 .. Len(current.objects) = {1}
      /\ Len(other.objects) = 0 /\ 1 .. Len(other.objects) = {}
      /\ current.chunk = FirstChunk /\ current.cursor = MainContext + ContextWords
      /\ other.chunk = SecondChunk /\ other.cursor = SecondChunk
      /\ other.objects = <<>>
  BY <1>2
<1>5. /\ Objects(current) = {MainContext} /\ Objects(other) = {} /\ AllObjects = {MainContext}
      /\ End(current, 1) = MainContext + ContextWords
      /\ Bodies(other) = {}
  BY <1>4 DEF Objects, AllObjects, End, Bodies
<1>6. \A l \in Bodies(current) : l \in MainContext .. MainContext + ContextWords - 1
  <2>1. \A l \in Bodies(current) : l \in MainContext .. MainContext + Extent(current, 1) - 1
    <3> TAKE l \in Bodies(current)
    <3>1. PICK i \in 1 .. Len(current.objects) :
            l \in current.objects[i] .. current.objects[i] + Extent(current, i) - 1
      BY DEF Bodies
    <3>2. i = 1
      BY <1>4
    <3> QED BY <3>1, <3>2, <1>4
  <2>2. PICK x, y : x = MainContext /\ y = MainContext + ContextWords
    OBVIOUS
  <2>3. current.cursor = y /\ current.objects[1] = x /\ x \in Int /\ y \in Int
    BY <2>2, <1>3, <1>4
  <2>4. Extent(current, 1) = y - x
    BY <2>3, <1>4 DEF Extent
  <2>5. x + Extent(current, 1) - 1 = y - 1
    BY ONLY <2>3, <2>4
  <2>6. \A l \in Bodies(current) : l \in x .. y - 1
    BY ONLY <2>1, <2>2, <2>5
  <2> QED BY <2>2, <2>3, <2>6, <1>3
<1>7. /\ MainContext - 2 \in Address /\ MainContext - 1 \in Address
      /\ MainContext + SPILL_COUNT \in Address /\ StackHigh \in Address
      /\ \A a \in MainContext .. MainContext + ContextWords - 1 :
           a \in Address /\ a # MainContext - 2 /\ a # MainContext - 1
      /\ \A a : a \in Int /\ StackHigh <= a =>
           /\ a # MainContext - 2 /\ a # MainContext - 1 /\ a # MainContext + SPILL_COUNT
           /\ a \notin MainContext .. MainContext + ContextWords - 1
           /\ a \notin FirstChunk .. ChunkEnd(FirstChunk) - 1
      /\ StackHigh \in Int
      /\ StackHigh + n + PushedRegisters < StackEnd
  <2>1. 1 + n + PushedRegisters <= StackWords
    BY <1>3, MemoryAssumption
  <2> QED BY <2>1, <1>3, Places DEF SPILL_COUNT
<1>8. /\ Size(MainContext) = ContextWords /\ Color(MainContext) = COLOR_WHITE
      /\ mem[MainContext + SPILL_COUNT] = n
      /\ mem[StackHigh] = TagPointer(MainContext)
  <2>1. mem[MainContext - 2] = ContextWords
    BY <1>1, <1>7
  <2>2. mem[MainContext - 1] = COLOR_WHITE
    BY <1>1, <1>3, <1>7
  <2>3. mem[MainContext + SPILL_COUNT] = n
    BY <1>1, <1>3, <1>7 DEF SPILL_COUNT
  <2>4. mem[StackHigh] = TagPointer(MainContext)
    BY <1>1, <1>7
  <2> QED BY <2>1, <2>2, <2>3, <2>4 DEF Size, Color
<1>9. /\ \A a \in MainContext .. MainContext + ContextWords - 1 : mem[a] \in {0, n}
      /\ \A a \in Address : a \in Int /\ StackHigh <= a /\ a # StackHigh => mem[a] = 0
  BY <1>1, <1>7
<1>10. TagPointer(MainContext) \in Int /\ HasPointerTag(TagPointer(MainContext))
       /\ UntagPointer(TagPointer(MainContext)) = MainContext
  BY <1>3, TagUntag
<1>11. mem \in [Address -> Int]
  BY <1>1, <1>3, <1>10 DEF COLOR_WHITE, ZAP_WORD
<1>12. InvTypes
  <2>1. FirstChunk \in Chunk /\ SecondChunk \in Chunk /\ FirstChunk # SecondChunk
        /\ FirstChunk \in Int /\ SecondChunk \in Int
    BY Places DEF Chunk
  <2>2. /\ current \in [chunk : Chunk, cursor : Int, objects : Seq(Int)]
        /\ other \in [chunk : Chunk, cursor : Int, objects : Seq(Int)]
    BY <2>1, <1>2, <1>3
  <2>3. frames \in Seq(Int) /\ frames # <<>>
    BY <1>2, <1>7
  <2> QED BY <2>1, <2>2, <2>3, <1>2, <1>4, <1>11 DEF InvTypes
<1>13. InvLayout
  <2>1. Layout(current)
    <3>1. \A i, j \in 1 .. Len(current.objects) : i = 1 /\ ~(i < j)
      BY <1>4
    <3>2. /\ MainContext = current.chunk + 2
          /\ MainContext + 2 <= MainContext + ContextWords
          /\ current.chunk + 2 <= MainContext
      BY <1>3, <1>4, Places
    <3>3. MainContext + ContextWords <= current.cursor
      BY <1>3, <1>4
    <3> QED BY <3>1, <3>2, <3>3, <1>4, <1>5 DEF Layout
  <2>2. Layout(other)
    BY <1>4 DEF Layout
  <2>3. InvHeaders(current)
    BY <1>3, <1>4, <1>5, <1>8 DEF InvHeaders
  <2>4. InvHeaders(other)
    BY <1>4 DEF InvHeaders
  <2>5. current.cursor <= ChunkEnd(current.chunk) + 1
    BY <1>3, <1>4, Places
  <2> QED BY <2>1, <2>2, <2>3, <2>4, <2>5, <1>5 DEF InvLayout
<1>14. InvRoom
  <2>1. MovedWords = {}
    BY <1>4, <1>8 DEF MovedWords, COLOR_WHITE, COLOR_MOVED
  <2>2. Cardinality(MovedWords) = 0
    BY <2>1, FS_EmptySet
  <2>3. SecondChunk - SecondChunk = 0
    BY Places
  <2> QED BY <2>2, <2>3, <1>4 DEF InvRoom
<1>15. InvIdentity
  BY <1>2, <1>3, <1>5, <1>8 DEF InvIdentity
<1>16. InvForwarding
  BY <1>5, <1>8 DEF InvForwarding, COLOR_WHITE, COLOR_MOVED
<1>17. /\ FunctionContext(StackHigh) = MainContext /\ SpillCount(StackHigh) = n
       /\ LastWord(StackHigh) = StackHigh + n + PushedRegisters
       /\ Top = StackHigh
  BY <1>2, <1>8, <1>10 DEF FunctionContext, SpillCount, LastWord, Top
<1>18. InvFrames
  <2>1. IsFrame(StackHigh)
    BY <1>2, <1>3, <1>5, <1>7, <1>8, <1>10, <1>17 DEF IsFrame, IsContextObject
  <2>2. Len(frames) = 1 /\ frames[1] = StackHigh
    BY <1>2
  <2> QED BY <2>1, <2>2 DEF InvFrames
<1>19. InvWords
  <2>1. Roots = StackHigh .. StackHigh + n + PushedRegisters
    BY <1>2, <1>17 DEF Roots
  <2>2. ASSUME NEW l \in Roots PROVE PointsTo(mem[l], AllObjects)
    <3>1. CASE l = StackHigh
      BY <3>1, <1>5, <1>8, <1>10 DEF PointsTo
    <3>2. CASE l # StackHigh
      <4>1. l \in Int /\ StackHigh <= l /\ l < StackEnd
        BY <2>1, <2>2, <1>3, <1>7, Places
      <4>2. l \in Address
        BY <4>1, Places
      <4>3. mem[l] = 0
        BY <3>2, <4>1, <4>2, <1>9
      <4> QED BY <4>3, SmallWords DEF PointsTo
    <3> QED BY <3>1, <3>2
  <2>3. ASSUME NEW l \in Bodies(current) PROVE PointsTo(mem[l], Objects(current))
    <3>1. mem[l] \in {0, n}
      BY <1>6, <1>9
    <3>2. mem[l] \in 0 .. 100
      BY <3>1, <1>3
    <3> QED BY <3>2, SmallWords DEF PointsTo
  <2> QED BY <2>2, <2>3, <1>2, <1>5 DEF InvWords
<1>20. InvHeap
  BY <1>12, <1>13, <1>14, <1>15, <1>16, <1>18, <1>19 DEF InvHeap
<1>21. InvControl /\ InvIdle
  BY <1>2, <1>4, <1>5, <1>8 DEF InvControl, InvIdle, Collecting, NoRequest
<1>22. InvPointers /\ InvWalk /\ InvScan /\ InvWorklist
  BY <1>2 DEF InvPointers, InvWalk, InvScan, InvWorklist, Collecting
<1> QED BY <1>20, <1>21, <1>22 DEF Invariant

(* Every step of the program, of the runtime and of the collector keeps the *)
(* invariant.                                                               *)
LEMMA NextInvariant ==
  ASSUME NoTinyObjects
  PROVE  Invariant /\ [Next]_vars => Invariant'
<1> SUFFICES ASSUME Invariant, [Next]_vars PROVE Invariant'
  OBVIOUS
<1>1. CASE SetRegister
  BY <1>1, SetRegisterKeeps
<1>2. CASE LoadField
  BY <1>2, LoadFieldKeeps
<1>3. CASE StoreField
  BY <1>3, StoreFieldKeeps
<1>4. CASE StoreSpilled
  BY <1>4, StoreSpilledKeeps
<1>5. CASE LoadSpilled
  BY <1>5, LoadSpilledKeeps
<1>6. CASE CallFunction
  BY <1>6, CallFunctionKeeps
<1>7. CASE Return
  BY <1>7, ReturnKeeps
<1>8. CASE CreateFunctionContext
  BY <1>8, CreateFunctionContextKeeps
<1>9. CASE CreateFunction
  BY <1>9, CreateFunctionKeeps
<1>10. CASE NewArray
  BY <1>10, NewArrayKeeps
<1>11. CASE TestDoGC
  BY <1>11, TestDoGCKeeps
<1>12. CASE AllocationSucceeds
  BY <1>12, AllocationSucceedsKeeps
<1>13. CASE AllocationFails
  BY <1>13, AllocationFailsKeeps
<1>14. CASE WalkWord
  BY <1>14, WalkWordKeeps
<1>15. CASE RootsFromHandles
  BY <1>15, RootsFromHandlesKeeps
<1>16. CASE SkipPointer
  BY <1>16, SkipPointerKeeps
<1>17. CASE ForwardPointer
  BY <1>17, ForwardPointerKeeps
<1>18. CASE MoveObject
  BY <1>18, MoveObjectKeeps
<1>19. CASE ScanWord
  BY <1>19, ScanWordKeeps
<1>20. CASE ScanDone
  BY <1>20, ScanDoneKeeps
<1>21. CASE FinishGC
  BY <1>21, FinishGCKeeps
<1>22. CASE UNCHANGED vars
  <2>1. InvHeap' /\ Stack' = Stack /\ Roots' = Roots /\ Bodies(other)' = Bodies(other)
        /\ \A l : Outstanding(l)' <=> Outstanding(l)
    BY <1>22, HeapUnchanged DEF vars, Invariant
  <2>2. InvControl' /\ InvIdle' /\ InvWalk'
    BY <1>22 DEF vars, gc_vars, Invariant, InvControl, Collecting, InvIdle, InvWalk, Objects, Color,
                 LastWord, SpillCount, FunctionContext
  <2>3. InvPointers'
    BY <1>22 DEF vars, gc_vars, Invariant, InvPointers, UpToDate, Visited, Collecting, Roots, Stack,
                 Bodies, Extent, Top, LastWord, SpillCount, FunctionContext, IsInCurrentChunk
  <2>4. InvScan'
    BY <1>22 DEF vars, gc_vars, Invariant, InvScan, Roots, Bodies, Extent, Top, LastWord,
                 SpillCount, FunctionContext, Objects, Color, Size
  <2>5. InvWorklist'
    BY <1>22 DEF vars, gc_vars, Invariant, InvWorklist, Outstanding, Pending, Visited, Roots,
                 Stack, Bodies, Extent, Top, LastWord, SpillCount, FunctionContext,
                 IsInCurrentChunk
  <2> QED BY <2>1, <2>2, <2>3, <2>4, <2>5 DEF Invariant
<1> QED
  BY <1>1, <1>2, <1>3, <1>4, <1>5, <1>6, <1>7, <1>8, <1>9, <1>10, <1>11, <1>12, <1>13, <1>14,
     <1>15, <1>16, <1>17, <1>18, <1>19, <1>20, <1>21, <1>22
     DEF Next, ProgramStep, RuntimeStep, GCStep

-----------------------------------------------------------------------------
(* What the invariant says of one state.                                    *)

(* Every address the runtime keeps is inside the memory it has.             *)
LEMMA InvariantTypes == Invariant => TypeOK
<1> SUFFICES ASSUME Invariant PROVE TypeOK
  OBVIOUS
<1>1. InvHeap
  BY DEF Invariant
<1>2. /\ current.chunk \in Int /\ other.chunk \in Int
      /\ current.cursor \in Int /\ other.cursor \in Int
      /\ FirstChunk <= current.chunk /\ FirstChunk <= other.chunk
      /\ current.chunk <= current.cursor /\ other.chunk <= other.cursor
      /\ current.cursor <= HandleCell /\ other.cursor <= HandleCell
  BY <1>1, Chunks
<1>3. current.cursor \in Address /\ other.cursor \in Address
  <2>1. FirstChunk \in Int /\ HandleCell \in Int /\ HandleCell < StackEnd /\ StackEnd \in Int
    BY Places
  <2>2. /\ FirstChunk <= current.cursor /\ current.cursor < StackEnd
        /\ FirstChunk <= other.cursor /\ other.cursor < StackEnd
    BY <1>2, <2>1
  <2> QED BY <1>2, <2>2, Places
<1>4. ASSUME NEW s \in Seq(Int), \A i \in 1 .. Len(s) : s[i] \in Address
      PROVE  s \in Seq(Address)
  <2>1. s = [i \in 1 .. Len(s) |-> s[i]] /\ Len(s) \in Nat
    OBVIOUS
  <2> QED BY <1>4, <2>1
<1>5. current.objects \in Seq(Address) /\ other.objects \in Seq(Address)
  <2>1. current.objects \in Seq(Int) /\ other.objects \in Seq(Int)
    BY <1>1 DEF InvHeap, InvTypes
  <2>2. /\ \A i \in 1 .. Len(current.objects) : current.objects[i] \in AllObjects
        /\ \A i \in 1 .. Len(other.objects) : other.objects[i] \in AllObjects
    BY DEF AllObjects, Objects
  <2> QED BY <1>1, <1>4, <2>1, <2>2, Words
<1>6. /\ current \in [chunk : Chunk, cursor : Address, objects : Seq(Address)]
      /\ other \in [chunk : Chunk, cursor : Address, objects : Seq(Address)]
  BY <1>1, <1>3, <1>5 DEF InvHeap, InvTypes
<1>7. frames \in Seq(Address)
  <2>1. frames \in Seq(Int)
    BY <1>1 DEF InvHeap, InvTypes
  <2>2. \A i \in 1 .. Len(frames) : frames[i] \in Address
    BY <1>1, StackFacts
  <2> QED BY <1>4, <2>1, <2>2
<1>8. ptrs \in Seq(Address \X Int)
  <2>1. ptrs \in Seq(Int \X Int)
    BY DEF Invariant, InvPointers
  <2>2. ASSUME NEW i \in 1 .. Len(ptrs) PROVE ptrs[i] \in Address \X Int
    <3>1. ptrs[i] \in Int \X Int
      BY <2>1
    <3>2. ptrs[i][1] \in Roots \cup Bodies(other)
      BY DEF Invariant, InvPointers, UpToDate
    <3>3. ptrs[i][1] \in Address
      BY <1>1, <3>2, Words
    <3> QED BY <3>1, <3>3
  <2>3. ptrs = [i \in 1 .. Len(ptrs) |-> ptrs[i]] /\ Len(ptrs) \in Nat
    BY <2>1
  <2> QED BY <2>2, <2>3
<1>9. /\ pc \in {"program", "allocate", "out_of_memory"} \/ Collecting
      /\ gc_count \in 0 .. 2 /\ memory_gc_stress \in BOOLEAN
  BY DEF Invariant, InvControl, Collecting
<1> QED BY <1>1, <1>6, <1>7, <1>8, <1>9 DEF TypeOK, InvHeap, InvTypes

(* The layout the search of find_object relies on.                          *)
LEMMA InvariantLayout == Invariant => HeapLayout
<1> SUFFICES ASSUME Invariant, NEW space \in {current, other}
             PROVE  LET n == Len(space.objects)
                    IN /\ n = 0 => space.cursor = space.chunk
                       /\ n > 0 => space.objects[1] = space.chunk + 2
                       /\ \A i \in 1 .. n :
                            /\ Extent(space, i) >= 0
                            /\ Color(space.objects[i]) # COLOR_MOVED
                                 => Size(space.objects[i]) = Extent(space, i)
  BY DEF HeapLayout
<1>1. space \in Space /\ Layout(space) /\ InvHeaders(space)
  BY Chunks DEF Invariant, InvHeap, InvLayout
<1>2. ASSUME NEW i \in 1 .. Len(space.objects)
      PROVE  /\ Extent(space, i) = End(space, i) - space.objects[i]
             /\ Extent(space, i) >= 0
             /\ Color(space.objects[i]) # COLOR_MOVED => Size(space.objects[i]) = Extent(space, i)
  <2>1. Extent(space, i) = End(space, i) - space.objects[i]
    BY DEF Extent, End
  <2>2. space.objects[i] + 2 <= End(space, i) /\ space.objects[i] \in Int /\ End(space, i) \in Int
    BY <1>1, SpaceTypes DEF Layout
  <2>3. Color(space.objects[i]) # COLOR_MOVED
          => Size(space.objects[i]) = End(space, i) - space.objects[i]
    BY <1>1 DEF InvHeaders
  <2>4. Extent(space, i) >= 0
    BY <2>1, <2>2
  <2> QED BY <2>1, <2>3, <2>4
<1> QED BY <1>1, <1>2 DEF Layout

(* Between two requests every word that points into the heap points at an   *)
(* object of the current chunk.                                             *)
LEMMA InvariantPointers == Invariant => NoDanglingPointers
<1> SUFFICES ASSUME Invariant, ~Collecting,
                    NEW l \in Roots \cup Bodies(current),
                    HasPointerTag(mem[l]),
                    UntagPointer(mem[l]) \in FirstChunk .. HandleCell - 1
             PROVE  UntagPointer(mem[l]) \in Objects(current)
  BY DEF NoDanglingPointers
<1>1. pc \in {"program", "allocate", "out_of_memory"}
  BY DEF Invariant, InvControl, Collecting
<1>2. AllObjects = Objects(current)
  BY <1>1, Idle
<1>3. InHeap(UntagPointer(mem[l]))
  BY Places DEF InHeap
<1> QED BY <1>2, <1>3 DEF Invariant, InvHeap, InvWords, PointsTo

(* No word that still has to be updated is lost.                            *)
LEMMA InvariantWorklist == Invariant => WorklistComplete
<1> SUFFICES ASSUME Invariant, pc \in {"trace", "scan"} PROVE WorklistComplete
  BY DEF WorklistComplete
<1>1. ASSUME NEW i \in 1 .. Len(ptrs)
      PROVE  /\ UntagPointer(mem[ptrs[i][1]]) = ptrs[i][2]
             /\ ptrs[i] = <<ptrs[i][1], UntagPointer(mem[ptrs[i][1]])>>
  <2>1. UpToDate(ptrs[i]) /\ ptrs \in Seq(Int \X Int)
    BY DEF Invariant, InvPointers
  <2>2. PICK e : e = ptrs[i]
    OBVIOUS
  <2>3. e \in Int \X Int
    BY <2>1, <2>2
  <2>4. UntagPointer(mem[e[1]]) = e[2]
    BY <2>1, <2>2 DEF UpToDate
  <2>5. e = <<e[1], e[2]>>
    BY ONLY <2>3
  <2> QED BY <2>2, <2>4, <2>5
<1>2. \A i \in 1 .. Len(ptrs) :
        /\ UntagPointer(mem[ptrs[i][1]]) = ptrs[i][2]
        /\ ptrs[i] = <<ptrs[i][1], UntagPointer(mem[ptrs[i][1]])>>
  BY <1>1
<1>3. ASSUME NEW l \in Roots \cup Bodies(other), Outstanding(l)
      PROVE  \/ \E i \in 1 .. Len(ptrs) : ptrs[i] = <<l, UntagPointer(mem[l])>>
             \/ l \in scan.p .. scan.end - 1
             \/ pc = "scan" /\ l = scan.location
  <2>1. Pending(l) \/ l \in scan.p .. scan.end - 1 \/ (pc = "scan" /\ l = scan.location)
    BY <1>3 DEF Invariant, InvWorklist
  <2>2. CASE Pending(l)
    <3>1. PICK i \in 1 .. Len(ptrs) : ptrs[i][1] = l
      BY <2>2 DEF Pending
    <3> QED BY <3>1, <1>2
  <2> QED BY <2>1, <2>2
<1> QED BY <1>2, <1>3 DEF WorklistComplete, Outstanding

-----------------------------------------------------------------------------
(* The theorems, for every size of the chunks and the stack, every number   *)
(* of registers and every program, as long as no object has less than two   *)
(* words: an object of one word at the end of the chunk is not recognised.  *)

(* The invariant of the memory manager and the program that runs on it.     *)
THEOREM InvariantHolds ==
  ASSUME NoTinyObjects
  PROVE  Spec => []Invariant
<1>1. Init => Invariant
  BY InitInvariant
<1>2. Invariant /\ [Next]_vars => Invariant'
  BY NextInvariant
<1> QED BY <1>1, <1>2, PTL DEF Spec

(* The variables have their types: no object, frame or root outside memory. *)
THEOREM RuntimeTypes ==
  ASSUME NoTinyObjects
  PROVE  Spec => []TypeOK
BY InvariantHolds, InvariantTypes, PTL

(* The list of objects and the headers always describe the whole chunk.     *)
THEOREM RuntimeLayout ==
  ASSUME NoTinyObjects
  PROVE  Spec => []HeapLayout
BY InvariantHolds, InvariantLayout, PTL

(* No request leaves the program a pointer to where an object used to be.   *)
THEOREM RuntimePointers ==
  ASSUME NoTinyObjects
  PROVE  Spec => []NoDanglingPointers
BY InvariantHolds, InvariantPointers, PTL

(* The collector never loses a word it has to update.                       *)
THEOREM RuntimeWorklist ==
  ASSUME NoTinyObjects
  PROVE  Spec => []WorklistComplete
BY InvariantHolds, InvariantWorklist, PTL

(* A collection never overruns the chunk it copies to.                      *)
THEOREM RuntimeCopyFits ==
  ASSUME NoTinyObjects
  PROVE  Spec => []CopyFits
<1>1. Invariant => CopyFits
  BY Chunks DEF Invariant, CopyFits
<1> QED BY <1>1, InvariantHolds, PTL

-----------------------------------------------------------------------------
(* Every object keeps its identity through a collection, and has one copy:  *)
(* ForwardingConsistent holds for every value of the constants.  Half of it *)
(* is InvForwarding; the other half, that no identity is given twice, is    *)
(* inductive relative to the invariant.                                     *)

(* A chunk has finitely many objects.                                       *)
LEMMA FiniteObjects ==
  ASSUME NEW space \in Space
  PROVE  IsFiniteSet(Objects(space))
<1> DEFINE index == 1 .. Len(space.objects)
           f == [i \in index |-> space.objects[i]]
<1>1. Len(space.objects) \in Nat
  BY SpaceTypes
<1>2. IsFiniteSet(index)
  BY <1>1, FS_Interval
<1>3. f \in Surjection(index, Objects(space))
  BY DEF Surjection, Objects
<1> QED BY <1>2, <1>3, FS_Surjection

(* Of Cardinality(S) + 1 numbers one is not the number of a record in S.    *)
LEMMA FreshNumber ==
  ASSUME NEW S, IsFiniteSet(S)
  PROVE  \E n \in 1 .. Cardinality(S) + 1 : \A i \in S : i.n # n
<1> DEFINE numbers == 1 .. Cardinality(S) + 1
           f == [n \in numbers |-> CHOOSE i \in S : i.n = n]
<1>1. Cardinality(S) \in Nat
  BY FS_CardinalityType
<1>2. IsFiniteSet(numbers) /\ Cardinality(numbers) = Cardinality(S) + 1
  BY <1>1, FS_Interval
<1>3. SUFFICES ASSUME \A n \in numbers : \E i \in S : i.n = n PROVE FALSE
  OBVIOUS
<1>4. ASSUME NEW n \in numbers PROVE f[n] \in S /\ f[n].n = n
  BY <1>3
<1>5. f \in [numbers -> S]
  BY <1>4
<1>6. Cardinality(S) < Cardinality(numbers)
  BY <1>1, <1>2
<1> HIDE DEF f, numbers
<1>7. \E x, y \in numbers : x # y /\ f[x] = f[y]
  BY <1>2, <1>5, <1>6, FS_PigeonHole
<1> QED BY <1>4, <1>7

(* The identity given to a new object is nobody else's.                     *)
LEMMA FreshIdentity ==
  ASSUME Invariant, pc = "allocate"
  PROVE  \A op : NewIdentity(op) \notin Identities
<1>1. IsFiniteSet(DOMAIN identity)
  <2>1. AllObjects = Objects(current)
    BY Idle
  <2>2. current \in Space
    BY Chunks DEF Invariant
  <2> QED BY <2>1, <2>2, FiniteObjects DEF Invariant, InvHeap, InvIdentity
<1>2. IsFiniteSet(Identities)
  <2> DEFINE f == [a \in DOMAIN identity |-> identity[a]]
  <2>1. f \in Surjection(DOMAIN identity, Identities)
    BY DEF Surjection, Identities
  <2> QED BY <1>1, <2>1, FS_Surjection
<1>3. \E n \in 1 .. Cardinality(Identities) + 1 : \A i \in Identities : i.n # n
  BY <1>2, FreshNumber
<1>4. ASSUME NEW op PROVE \A i \in Identities : i.n # NewIdentity(op).n
  BY <1>3 DEF NewIdentity
<1> QED BY <1>4

(* With no copies, only the objects in use have to differ.                  *)
LEMMA NoCopies ==
  ASSUME other'.objects = <<>>,
         \A c, d \in Objects(current)' : identity'[c] = identity'[d] => c = d
  PROVE  DistinctIdentities'
<1>1. Objects(other)' = {}
  BY DEF Objects
<1> QED BY <1>1 DEF DistinctIdentities

(* What leaves the chunks, the identities and the headers alone.            *)
LEMMA HeadersUnchanged ==
  ASSUME DistinctIdentities, UNCHANGED <<current, other, identity>>,
         \A o \in Objects(current) : mem'[o - 1] = mem[o - 1] /\ mem'[o - 2] = mem[o - 2]
  PROVE  DistinctIdentities'
<1>1. Objects(current)' = Objects(current) /\ Objects(other)' = Objects(other)
  BY DEF Objects
<1>2. \A o \in Objects(current) : Color(o)' = Color(o) /\ Size(o)' = Size(o)
  BY DEF Color, Size
<1> QED BY <1>1, <1>2 DEF DistinctIdentities

(* The program, and the beginning of a collection: there are no copies.     *)
LEMMA ProgramKeepsIdentities ==
  ASSUME Invariant, DistinctIdentities, other.objects = <<>>,
         UNCHANGED <<current, other, identity>>
  PROVE  DistinctIdentities'
<1>1. Objects(current)' = Objects(current)
  BY DEF Objects
<1> QED BY <1>1, NoCopies DEF DistinctIdentities

(* A pointer is updated in a root or in a copy, which are not headers.      *)
LEMMA UpdateKeepsIdentities ==
  ASSUME Invariant, DistinctIdentities, NEW l \in Roots \cup Bodies(other), NEW w,
         mem' = [mem EXCEPT ![l] = w], UNCHANGED <<current, other, identity>>
  PROVE  DistinctIdentities'
<1>1. InvHeap
  BY DEF Invariant
<1>2. ASSUME NEW o \in Objects(current) PROVE l # o - 1 /\ l # o - 2
  <2>1. o \in AllObjects /\ InHeap(o - 1) /\ InHeap(o - 2)
    BY <1>1, Regions DEF AllObjects
  <2>2. CASE l \in Bodies(other)
    BY <2>1, <2>2, <1>1, Regions
  <2>3. CASE l \in Roots
    BY <2>1, <2>3, <1>1, Words, StackFacts
  <2> QED BY <2>2, <2>3
<1>3. \A o \in Objects(current) : mem'[o - 1] = mem[o - 1] /\ mem'[o - 2] = mem[o - 2]
  BY <1>1, <1>2, Words DEF InvHeap, InvTypes, AllObjects
<1> QED BY <1>3, HeadersUnchanged

(* Only an object that has no copy yet is copied.                           *)
LEMMA MoveKeepsIdentities ==
  ASSUME Invariant, DistinctIdentities, MoveObject
  PROVE  DistinctIdentities'
<1>1. /\ Tracing /\ IsInCurrentChunk(INT_SIZE * Pointer) /\ current' = current
  BY DEF MoveObject
<1>2. PICK o, copy : o = Pointer /\ copy = other.cursor + 2
  OBVIOUS
<1>3. o \in Objects(current) /\ FindObject(Pointer) = [found |-> TRUE, object |-> o, offset |-> 0]
  BY <1>1, <1>2, TopPointer
<1>4. PICK f : f = FindObject(Pointer)
  OBVIOUS
<1>5. f.object = o
  BY <1>3, <1>4
<1>6. /\ Color(o) # COLOR_MOVED
      /\ mem' = MemoryWithCopy(o, other.cursor + 2)
      /\ other'.objects = Append(other.objects, copy)
      /\ identity' = [a \in DOMAIN identity \cup {copy} |->
                        IF a = copy THEN identity[o] ELSE identity[a]]
  BY <1>2, <1>4, <1>5 DEF MoveObject
<1>7. InvHeap /\ other.objects \in Seq(Int)
  BY Chunks DEF Invariant, Space
<1>8. Objects(current)' = Objects(current) /\ Objects(other)' = Objects(other) \cup {copy}
  <2>1. PICK s : s = other.objects
    OBVIOUS
  <2>2. s \in Seq(Int) /\ copy \in Int
    BY <1>7, <2>1, <1>2, Chunks DEF Space
  <2>3. {Append(s, copy)[i] : i \in 1 .. Len(Append(s, copy))} = {s[i] : i \in 1 .. Len(s)} \cup {copy}
    BY ONLY <2>2
  <2> QED BY <2>1, <2>3, <1>1, <1>6 DEF Objects
<1>9. copy \notin AllObjects
  <2>1. /\ Size(o) \in Int /\ Size(o) >= 2 /\ other.cursor \in Int
        /\ other.cursor + Size(o) + 2 <= other.chunk + ChunkWords + 1
    BY <1>3, <1>6, <1>7, ObjectToCopy, Chunks
  <2>2. PICK size : size = Size(o)
    OBVIOUS
  <2>3. other.cursor + 2 \in other.cursor .. other.cursor + size + 1
    BY <2>1, <2>2
  <2>4. \A x \in AllObjects : other.cursor + 2 # x
    BY <2>1, <2>2, <2>3, <1>7, BlockAtOtherCursor
  <2> QED BY <2>4, <1>2
<1>10. /\ identity'[copy] = identity[o]
       /\ \A x \in Objects(current) \cup Objects(other) : identity'[x] = identity[x] /\ x # copy
  BY <1>6, <1>7, <1>9 DEF AllObjects, InvHeap, InvIdentity
<1>11. /\ Color(o)' = COLOR_MOVED /\ Size(o)' = copy
       /\ \A x \in Objects(current) : x # o => Color(x)' = Color(x) /\ Size(x)' = Size(x)
  <2>1. /\ mem'[o - 1] = COLOR_MOVED /\ mem'[o - 2] = other.cursor + 2
        /\ \A x \in Objects(current) :
             x # o => mem'[x - 1] = mem[x - 1] /\ mem'[x - 2] = mem[x - 2]
    BY <1>3, <1>6, <1>7, CopyMemory
  <2> QED BY <2>1, <1>2 DEF Color, Size
<1>12. \A c \in Objects(other) : identity[c] # identity[o]
  BY <1>3, <1>6 DEF DistinctIdentities
<1>13. ASSUME NEW c \in Objects(current)', NEW d \in Objects(current)', identity'[c] = identity'[d]
       PROVE  c = d
  BY <1>8, <1>10, <1>13 DEF DistinctIdentities
<1>14. ASSUME NEW c \in Objects(other)', NEW d \in Objects(other)', identity'[c] = identity'[d]
       PROVE  c = d
  <2>1. CASE c \in Objects(other) /\ d \in Objects(other)
    BY <2>1, <1>10, <1>14 DEF DistinctIdentities
  <2>2. CASE c = copy \/ d = copy
    BY <2>2, <1>8, <1>10, <1>12, <1>14
  <2> QED BY <2>1, <2>2, <1>8
<1>15. ASSUME NEW x \in Objects(current)', NEW c \in Objects(other)', identity'[c] = identity'[x]
       PROVE  Color(x)' = COLOR_MOVED /\ Size(x)' = c
  <2>1. CASE c = copy
    <3>1. identity[x] = identity[o] /\ x \in Objects(current)
      BY <2>1, <1>8, <1>10, <1>15
    <3>2. x = o
      BY <3>1, <1>3 DEF DistinctIdentities
    <3> QED BY <2>1, <3>2, <1>11
  <2>2. CASE c \in Objects(other)
    <3>1. identity[c] = identity[x] /\ x \in Objects(current)
      BY <2>2, <1>8, <1>10, <1>15
    <3>2. Color(x) = COLOR_MOVED /\ Size(x) = c /\ x # o
      BY <2>2, <3>1, <1>12 DEF DistinctIdentities
    <3> QED BY <3>1, <3>2, <1>11
  <2> QED BY <2>1, <2>2, <1>8
<1> QED BY <1>13, <1>14, <1>15 DEF DistinctIdentities

(* A new object gets an identity of its own.                                *)
LEMMA AllocationKeepsIdentities ==
  ASSUME NoTinyObjects, Invariant, DistinctIdentities, AllocationSucceeds
  PROVE  DistinctIdentities'
<1>1. PICK object, id : object = current.cursor + 2 /\ id = NewIdentity(request.op)
  OBVIOUS
<1>2. /\ pc = "allocate" /\ other' = other
      /\ current'.objects = Append(current.objects, object)
      /\ identity' = [a \in DOMAIN identity \cup {object} |->
                        IF a = object THEN id ELSE identity[a]]
  BY <1>1 DEF AllocationSucceeds, ReserveAtCursor
<1>3. /\ other.objects = <<>> /\ AllObjects = Objects(current)
      /\ id \notin Identities /\ DOMAIN identity = Objects(current)
  BY <1>1, <1>2, Idle, FreshIdentity DEF Invariant, InvHeap, InvIdentity
<1>4. current \in Space /\ current.objects \in Seq(Int) /\ object \in Int
  BY <1>1, Chunks DEF Invariant, Space
<1>5. Objects(current)' = Objects(current) \cup {object}
  BY <1>2, <1>4 DEF Objects
<1>6. object \notin Objects(current)
  <2>1. current.cursor \in Int /\ Layout(current)
    BY Chunks DEF Invariant
  <2>2. \A o \in Objects(current) : o \in Int /\ o + 2 <= current.cursor
    BY <2>1, <1>4, LayoutFacts
  <2> QED BY <2>1, <2>2, <1>1
<1>7. /\ identity'[object] = id
      /\ \A o \in Objects(current) : identity'[o] = identity[o] /\ identity[o] # id /\ o # object
  BY <1>2, <1>3, <1>6 DEF Identities
<1>8. ASSUME NEW c \in Objects(current)', NEW d \in Objects(current)', identity'[c] = identity'[d]
      PROVE  c = d
  BY <1>5, <1>7, <1>8 DEF DistinctIdentities
<1> QED BY <1>2, <1>3, <1>8, NoCopies

(* When the chunks change places the originals are gone.                    *)
LEMMA FinishKeepsIdentities ==
  ASSUME Invariant, DistinctIdentities, FinishGC
  PROVE  DistinctIdentities'
<1>1. /\ current' = other /\ other'.objects = <<>>
      /\ identity' = [a \in {b \in DOMAIN identity : \E i \in 1 .. Len(other.objects) :
                                                       b = other.objects[i]} |-> identity[a]]
  BY DEF FinishGC, SwapChunks
<1>2. Objects(current)' = Objects(other)
  BY <1>1 DEF Objects
<1>3. \A c \in Objects(other) : c \in DOMAIN identity
  BY DEF Invariant, InvHeap, InvIdentity, AllObjects
<1>4. \A c \in Objects(other) : identity'[c] = identity[c]
  BY <1>1, <1>3 DEF Objects
<1>5. \A c, d \in Objects(current)' : identity'[c] = identity'[d] => c = d
  BY <1>2, <1>4 DEF DistinctIdentities
<1> QED BY <1>1, <1>5, NoCopies

(* A pointer to an object that has moved is updated where it was found.     *)
LEMMA ForwardKeepsIdentities ==
  ASSUME Invariant, DistinctIdentities, ForwardPointer
  PROVE  DistinctIdentities'
<1>1. Tracing /\ UNCHANGED <<current, other, identity>>
  BY DEF ForwardPointer
<1>2. PICK l, w : l = Location /\ mem' = [mem EXCEPT ![l] = w]
  BY DEF ForwardPointer
<1>3. l \in Roots \cup Bodies(other)
  BY <1>1, <1>2, TopPointer
<1> QED BY <1>1, <1>2, <1>3, UpdateKeepsIdentities

(* So is the pointer through which an object was moved, once it is scanned. *)
LEMMA ScanDoneKeepsIdentities ==
  ASSUME Invariant, DistinctIdentities, ScanDone
  PROVE  DistinctIdentities'
<1>1. /\ pc = "scan" /\ UNCHANGED <<current, other, identity>>
      /\ mem' = [mem EXCEPT ![scan.location] = scan.new_ptr]
  BY DEF ScanDone
<1>2. scan.location \in Roots \cup Bodies(other)
  BY <1>1 DEF Invariant, InvScan
<1> QED BY <1>1, <1>2, UpdateKeepsIdentities

-----------------------------------------------------------------------------
(* Main's context is alone.                                                 *)
LEMMA InitIdentities == Init => DistinctIdentities
<1> SUFFICES ASSUME Init PROVE DistinctIdentities
  OBVIOUS
<1>1. current.objects = <<MainContext>> /\ other.objects = <<>>
  BY DEF Init
<1>2. Objects(current) = {MainContext} /\ Objects(other) = {}
  BY <1>1 DEF Objects
<1> QED BY <1>2 DEF DistinctIdentities

(* Every step keeps the identities apart.                                   *)
LEMMA NextIdentities ==
  ASSUME NoTinyObjects
  PROVE  Invariant /\ DistinctIdentities /\ [Next]_vars => DistinctIdentities'
<1> SUFFICES ASSUME Invariant, DistinctIdentities, [Next]_vars PROVE DistinctIdentities'
  OBVIOUS
<1>1. CASE ProgramStep
  <2>1. pc = "program"
    BY <1>1 DEF ProgramStep, SetRegister, LoadField, StoreField, StoreSpilled, LoadSpilled,
                CallFunction, Return, CreateFunctionContext, CreateFunction, NewArray, TestDoGC
  <2>2. UNCHANGED <<current, other, identity>>
    BY <1>1 DEF ProgramStep, SetRegister, LoadField, StoreField, StoreSpilled, LoadSpilled,
                CallFunction, Return, CreateFunctionContext, CreateFunction, NewArray, TestDoGC,
                OnlyMemChanges, EnterMemoryAllocate
  <2> QED BY <2>1, <2>2, Idle, ProgramKeepsIdentities
<1>2. CASE AllocationSucceeds
  BY <1>2, AllocationKeepsIdentities
<1>3. CASE AllocationFails \/ WalkWord \/ RootsFromHandles
  <2>1. pc \in {"allocate", "walk", "handles"} /\ UNCHANGED <<current, other, identity>>
    BY <1>3 DEF AllocationFails, WalkWord, RootsFromHandles
  <2>2. other.objects = <<>>
    BY <2>1 DEF Invariant, InvIdle
  <2> QED BY <2>1, <2>2, ProgramKeepsIdentities
<1>4. CASE SkipPointer \/ ScanWord \/ UNCHANGED vars
  <2>1. UNCHANGED <<mem, current, other, identity>>
    BY <1>4 DEF SkipPointer, ScanWord, vars
  <2> QED BY <2>1, HeadersUnchanged
<1>5. CASE ForwardPointer
  BY <1>5, ForwardKeepsIdentities
<1>6. CASE MoveObject
  BY <1>6, MoveKeepsIdentities
<1>7. CASE ScanDone
  BY <1>7, ScanDoneKeepsIdentities
<1>8. CASE FinishGC
  BY <1>8, FinishKeepsIdentities
<1> QED BY <1>1, <1>2, <1>3, <1>4, <1>5, <1>6, <1>7, <1>8
        DEF Next, RuntimeStep, GCStep

(* What the two invariants say of one state.                                *)
LEMMA IdentitiesForwarding == Invariant /\ DistinctIdentities => ForwardingConsistent
<1> SUFFICES ASSUME Invariant, DistinctIdentities PROVE ForwardingConsistent
  OBVIOUS
<1>1. ASSUME NEW o \in Objects(current)
      PROVE  IF Color(o) = COLOR_MOVED
             THEN Size(o) \in Objects(other) /\ identity[Size(o)] = identity[o]
             ELSE \A c \in Objects(other) : identity[c] # identity[o]
  BY DEF Invariant, InvHeap, InvForwarding, DistinctIdentities
<1> QED BY <1>1 DEF ForwardingConsistent, DistinctIdentities

(* An object is marked moved exactly when it has a copy, it has one, and    *)
(* that copy is where its header says: do_gc never moves an object twice    *)
(* and never sends a pointer to the copy of another object.                 *)
THEOREM RuntimeForwarding ==
  ASSUME NoTinyObjects
  PROVE  Spec => []ForwardingConsistent
<1>1. Init => DistinctIdentities
  BY InitIdentities
<1>2. Invariant /\ DistinctIdentities /\ [Next]_vars => DistinctIdentities'
  BY NextIdentities
<1>3. Invariant /\ DistinctIdentities => ForwardingConsistent
  BY IdentitiesForwarding
<1> QED BY <1>1, <1>2, <1>3, InvariantHolds, PTL DEF Spec
================================================================================
