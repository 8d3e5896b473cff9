--------------------------- MODULE RefinementProofs ---------------------------
(***************************************************************************)
(* Runtime implements ObjectGraph, and gives up only when no collection can *)
(* help, for every value of the constants: every step of the program is a   *)
(* step on the graph of objects, the steps of a collection are invisible,   *)
(* and its end removes the objects that the roots do not reach.             *)
(***************************************************************************)
EXTENDS RuntimeProofs, Induction

HeapInvariant == Invariant /\ DistinctIdentities

(* Where an object is: its copy, once it has one.                           *)
Live == Objects(other) \cup {o \in Objects(current) : Color(o) # COLOR_MOVED}

(* Every object is somewhere, at one address, which is its Home.            *)
LiveFacts ==
  /\ Live \subseteq AllObjects
  /\ \A o \in AllObjects : \E a \in Live : identity[a] = identity[o]
  /\ \A a, b \in Live : identity[a] = identity[b] => a = b
  /\ \A a \in Live : Home(identity[a]) = a

(* An object that has moved is where its forwarding address says.           *)
LEMMA LiveHolds == HeapInvariant => LiveFacts
<1> SUFFICES ASSUME HeapInvariant PROVE LiveFacts
  OBVIOUS
<1>1. /\ DOMAIN identity = AllObjects
      /\ \A o \in Objects(current) : o \notin Objects(other)
      /\ \A o \in Objects(current) :
           Color(o) = COLOR_MOVED =>
             Size(o) \in Objects(other) /\ identity[Size(o)] = identity[o]
  BY Regions DEF HeapInvariant, Invariant, InvHeap, InvIdentity, InvForwarding
<1>2. /\ \A c, d \in Objects(current) : identity[c] = identity[d] => c = d
      /\ \A c, d \in Objects(other) : identity[c] = identity[d] => c = d
      /\ \A o \in Objects(current), c \in Objects(other) :
           identity[c] = identity[o] => Color(o) = COLOR_MOVED /\ Size(o) = c
  BY DEF HeapInvariant, DistinctIdentities
<1>3. Live \subseteq AllObjects
  BY DEF Live, AllObjects
<1>4. \A o \in AllObjects : \E a \in Live : identity[a] = identity[o]
  BY <1>1 DEF Live, AllObjects
<1>5. \A a, b \in Live : identity[a] = identity[b] => a = b
  BY <1>2 DEF Live
<1>6. ASSUME NEW a \in Live PROVE Home(identity[a]) = a
  <2> DEFINE IsHome(x) == /\ identity[x] = identity[a]
                          /\ \A b \in DOMAIN identity :
                               identity[b] = identity[a] => b = x \/ b \in Objects(current)
  <2>1. a \in DOMAIN identity /\ IsHome(a)
    <3>1. ASSUME NEW b \in DOMAIN identity, identity[b] = identity[a], b \notin Objects(current)
          PROVE  b = a
      <4>1. b \in Live
        BY <3>1, <1>1 DEF Live, AllObjects
      <4> QED BY <4>1, <3>1, <1>5
    <3> QED BY <3>1, <1>1, <1>3
  <2>2. ASSUME NEW x \in DOMAIN identity, IsHome(x) PROVE x = a
    <3>1. CASE a \in Objects(other)
      BY <3>1, <2>1, <2>2, <1>1
    <3>2. CASE a \in Objects(current) /\ Color(a) # COLOR_MOVED
      BY <3>2, <2>2, <1>1, <1>2 DEF AllObjects
    <3> QED BY <3>1, <3>2 DEF Live
  <2>3. Home(identity[a]) = CHOOSE x \in DOMAIN identity : IsHome(x)
    BY DEF Home
  <2> HIDE DEF IsHome
  <2> QED BY <2>1, <2>2, <2>3
<1> QED BY <1>3, <1>4, <1>5, <1>6 DEF LiveFacts

(* Where the words of the objects lie.                                      *)
BodyFacts ==
  /\ \A a \in Live :
       /\ a \in Int /\ Size(a) \in Int /\ Size(a) >= 2
       /\ \A k \in 0 .. Size(a) - 1 : a + k \in Bodies(current) \cup Bodies(other)
  /\ \A c \in Objects(other) : \A k \in 0 .. Size(c) - 1 : c + k \in Bodies(other)
  /\ \A l \in Bodies(other) : \E c \in Objects(other) : \E k \in 0 .. Size(c) - 1 : l = c + k

(* The size an object records is the room it has.                           *)
LEMMA BodiesHold == HeapInvariant => BodyFacts
<1> SUFFICES ASSUME HeapInvariant PROVE BodyFacts
  OBVIOUS
<1>1. InvHeap /\ other \in Space /\ Layout(other)
  BY Chunks DEF HeapInvariant, Invariant
<1>2. ASSUME NEW i \in 1 .. Len(other.objects)
      PROVE  /\ other.objects[i] \in Int /\ End(other, i) \in Int
             /\ other.objects[i] + 2 <= End(other, i)
             /\ Size(other.objects[i]) = End(other, i) - other.objects[i]
  <2>1. /\ other.objects[i] \in Int /\ End(other, i) \in Int
        /\ other.objects[i] + 2 <= End(other, i)
    BY <1>1, SpaceTypes DEF Layout
  <2>2. Color(other.objects[i]) = COLOR_WHITE
    BY <1>1 DEF InvHeap, InvLayout, Objects
  <2> QED BY <2>1, <2>2, <1>1 DEF InvHeap, InvLayout, InvHeaders
<1>3. ASSUME NEW c \in Objects(other)
      PROVE  /\ c \in Int /\ Size(c) \in Int /\ Size(c) >= 2
             /\ \A k \in 0 .. Size(c) - 1 : c + k \in Bodies(other)
  <2>1. PICK i \in 1 .. Len(other.objects) : c = other.objects[i]
    BY DEF Objects
  <2>2. PICK end \in Int : end = End(other, i)
    BY <1>2
  <2>3. c \in Int /\ Size(c) = end - c /\ c + 2 <= end
    BY <2>1, <2>2, <1>2
  <2>4. ASSUME NEW k \in 0 .. Size(c) - 1 PROVE c + k \in Bodies(other)
    <3>1. c + k \in c .. end - 1
      BY <2>3
    <3> QED BY <3>1, <2>1, <2>2, <1>1, BodiesByEnd
  <2> QED BY <2>3, <2>4
<1>4. ASSUME NEW l \in Bodies(other)
      PROVE  \E c \in Objects(other) : \E k \in 0 .. Size(c) - 1 : l = c + k
  <2>1. PICK i \in 1 .. Len(other.objects) : l \in other.objects[i] .. End(other, i) - 1
    BY <1>1, BodiesByEnd
  <2>2. PICK c \in Int, end \in Int : c = other.objects[i] /\ end = End(other, i)
    BY <1>2
  <2>3. c \in Objects(other) /\ Size(c) = end - c /\ l \in c .. end - 1
    BY <2>1, <2>2, <1>2 DEF Objects
  <2>4. l - c \in 0 .. Size(c) - 1 /\ l = c + (l - c)
    BY <2>2, <2>3
  <2> QED BY <2>3, <2>4
<1>5. ASSUME NEW a \in Objects(current), Color(a) # COLOR_MOVED
      PROVE  /\ a \in Int /\ Size(a) \in Int /\ Size(a) >= 2
             /\ \A k \in 0 .. Size(a) - 1 : a + k \in Bodies(current)
  BY <1>1, <1>5, ObjectToCopy
<1> QED BY <1>3, <1>4, <1>5 DEF BodyFacts, Live

(* The graph that the memory stands for.                                    *)
GraphFacts ==
  /\ \A i \in Identities : \E a \in Live : identity[a] = i
  /\ \A a \in Live : identity[a] \in Identities
  /\ DOMAIN GraphObjects = Identities
  /\ \A a \in Live :
       GraphObjects[identity[a]] = [k \in 0 .. Size(a) - 1 |-> Value(mem[a + k])]
  /\ DOMAIN GraphRoots = Roots
  /\ \A l \in Roots : GraphRoots[l] = Value(mem[l])

(* An object has the fields of its body.                                    *)
LEMMA GraphHolds == HeapInvariant => GraphFacts
<1> SUFFICES ASSUME HeapInvariant PROVE GraphFacts
  OBVIOUS
<1>1. LiveFacts /\ DOMAIN identity = AllObjects
  BY LiveHolds DEF HeapInvariant, Invariant, InvHeap, InvIdentity
<1>2. \A i \in Identities : \E a \in Live : identity[a] = i
  BY <1>1 DEF LiveFacts, Identities
<1>3. \A a \in Live : identity[a] \in Identities
  BY <1>1 DEF LiveFacts, Identities
<1>4. DOMAIN GraphObjects = Identities
  BY DEF GraphObjects
<1>5. ASSUME NEW a \in Live
      PROVE  GraphObjects[identity[a]] = [k \in 0 .. Size(a) - 1 |-> Value(mem[a + k])]
  <2>1. PICK home : home = Home(identity[a])
    OBVIOUS
  <2>2. GraphObjects[identity[a]] = [k \in 0 .. Size(home) - 1 |-> Value(mem[home + k])]
    BY <2>1, <1>3 DEF GraphObjects
  <2>3. home = a
    BY <2>1, <1>1 DEF LiveFacts
  <2> QED BY <2>2, <2>3
<1>6. DOMAIN GraphRoots = Roots /\ \A l \in Roots : GraphRoots[l] = Value(mem[l])
  BY DEF GraphRoots
<1> QED BY <1>2, <1>3, <1>4, <1>5, <1>6 DEF GraphFacts

IsFunction(f) == f = [x \in DOMAIN f |-> f[x]]

(* Functions that agree everywhere are equal.                               *)
LEMMA SameFunction ==
  ASSUME NEW f, NEW g, IsFunction(f), IsFunction(g),
         DOMAIN g = DOMAIN f, \A x \in DOMAIN f : g[x] = f[x]
  PROVE  g = f
BY DEF IsFunction

(* Functions that agree but in one place.                                   *)
LEMMA OneFieldDiffers ==
  ASSUME NEW f, NEW g, IsFunction(f), IsFunction(g),
         DOMAIN g = DOMAIN f, NEW k \in DOMAIN f, \A x \in DOMAIN f : x # k => g[x] = f[x]
  PROVE  g = [f EXCEPT ![k] = g[k]]
BY DEF IsFunction

(* The fields of an object, one by one.                                     *)
FieldFacts ==
  \A a \in Live :
    /\ DOMAIN GraphObjects[identity[a]] = 0 .. Size(a) - 1
    /\ \A k \in 0 .. Size(a) - 1 : GraphObjects[identity[a]][k] = Value(mem[a + k])
    /\ IsFunction(GraphObjects[identity[a]])

(* They are the words of its body.                                          *)
LEMMA FieldsHold == HeapInvariant => FieldFacts
<1> SUFFICES ASSUME HeapInvariant, NEW a \in Live
             PROVE  /\ DOMAIN GraphObjects[identity[a]] = 0 .. Size(a) - 1
                    /\ \A k \in 0 .. Size(a) - 1 : GraphObjects[identity[a]][k] = Value(mem[a + k])
                    /\ IsFunction(GraphObjects[identity[a]])
  BY DEF FieldFacts
<1>1. PICK i, size : i = identity[a] /\ size = Size(a)
  OBVIOUS
<1>2. GraphObjects[i] = [k \in 0 .. size - 1 |-> Value(mem[a + k])]
  BY <1>1, GraphHolds DEF GraphFacts
<1>3. /\ DOMAIN GraphObjects[i] = 0 .. size - 1
      /\ \A k \in 0 .. size - 1 : GraphObjects[i][k] = Value(mem[a + k])
      /\ IsFunction(GraphObjects[i])
  BY ONLY <1>2 DEF IsFunction
<1> QED BY <1>1, <1>3

(* What words stand for.                                                    *)
WordFacts ==
  /\ DOMAIN identity = AllObjects
  /\ \A w : IsObject(w) <=> HasPointerTag(w) /\ UntagPointer(w) \in AllObjects
  /\ \A w : ~InHeap(UntagPointer(w)) => ~IsObject(w)
  /\ \A w \in 0 .. 100 : ~IsObject(w)
  /\ ~IsObject(EXTERNAL) /\ ~IsObject(TagInt(0))

(* A word out of the heap is no object.                                     *)
LEMMA WordsHold == HeapInvariant => WordFacts
<1> SUFFICES ASSUME HeapInvariant PROVE WordFacts
  OBVIOUS
<1>1. InvHeap /\ DOMAIN identity = AllObjects
  BY DEF HeapInvariant, Invariant, InvHeap, InvIdentity
<1>2. \A w : IsObject(w) <=> HasPointerTag(w) /\ UntagPointer(w) \in AllObjects
  BY <1>1 DEF IsObject
<1>3. \A w : ~InHeap(UntagPointer(w)) => ~IsObject(w)
  BY <1>1, <1>2, Regions
<1>4. \A w \in 0 .. 100 : ~IsObject(w)
  BY <1>3, SmallWords
<1>5. EXTERNAL \in 0 .. 100 /\ TagInt(0) \in 0 .. 100
  BY DEF EXTERNAL, TagPointer, TagInt, INT_SIZE, PTR_TAG, INT_TAG
<1> QED BY <1>1, <1>2, <1>3, <1>4, <1>5 DEF WordFacts

(* The same in the next state.                                              *)
LEMMA NextFacts ==
  ASSUME HeapInvariant'
  PROVE  LiveFacts' /\ BodyFacts' /\ GraphFacts' /\ FieldFacts' /\ WordFacts'
<1>1. HeapInvariant' => LiveFacts'
  BY LiveHolds, PTL
<1>2. HeapInvariant' => BodyFacts'
  BY BodiesHold, PTL
<1>3. HeapInvariant' => GraphFacts'
  BY GraphHolds, PTL
<1>4. HeapInvariant' => FieldFacts'
  BY FieldsHold, PTL
<1>5. HeapInvariant' => WordFacts'
  BY WordsHold, PTL
<1> QED BY <1>1, <1>2, <1>3, <1>4, <1>5

-----------------------------------------------------------------------------
(* Steps that the program cannot see.                                       *)

(* The graph stays when every object is somewhere with the same fields.     *)
LEMMA SameGraph ==
  ASSUME HeapInvariant, HeapInvariant',
         \A a \in Live : \E b \in Live' :
           /\ identity'[b] = identity[a] /\ Size(b)' = Size(a)
           /\ \A k \in 0 .. Size(a) - 1 : Value(mem[b + k])' = Value(mem[a + k]),
         \A b \in Live' : \E a \in Live : identity'[b] = identity[a],
         Roots' = Roots, \A l \in Roots : Value(mem[l])' = Value(mem[l])
  PROVE  GraphObjects' = GraphObjects /\ GraphRoots' = GraphRoots
<1>1. GraphFacts /\ GraphFacts'
  BY GraphHolds, NextFacts
<1>2. ASSUME NEW a \in Live
      PROVE  /\ identity[a] \in DOMAIN GraphObjects'
             /\ GraphObjects'[identity[a]] = GraphObjects[identity[a]]
  <2>1. PICK b \in Live' :
          /\ identity'[b] = identity[a] /\ Size(b)' = Size(a)
          /\ \A k \in 0 .. Size(a) - 1 : Value(mem[b + k])' = Value(mem[a + k])
    OBVIOUS
  <2>2. /\ identity'[b] \in DOMAIN GraphObjects'
        /\ GraphObjects'[identity'[b]] = [k \in 0 .. Size(b)' - 1 |-> Value(mem[b + k])']
    BY <1>1 DEF GraphFacts
  <2>3. [k \in 0 .. Size(b)' - 1 |-> Value(mem[b + k])']
          = [k \in 0 .. Size(a) - 1 |-> Value(mem[a + k])]
    BY <2>1
  <2> QED BY <2>1, <2>2, <2>3, <1>1 DEF GraphFacts
<1>3. DOMAIN GraphObjects' = DOMAIN GraphObjects
  <2>1. ASSUME NEW i \in DOMAIN GraphObjects PROVE i \in DOMAIN GraphObjects'
    BY <1>1, <1>2 DEF GraphFacts
  <2>2. ASSUME NEW i \in DOMAIN GraphObjects' PROVE i \in DOMAIN GraphObjects
    <3>1. PICK b \in Live' : identity'[b] = i
      BY <1>1, <2>2 DEF GraphFacts
    <3>2. PICK a \in Live : identity[a] = i
      BY <3>1
    <3> QED BY <3>2, <1>1 DEF GraphFacts
  <2> QED BY <2>1, <2>2
<1>4. \A i \in DOMAIN GraphObjects : GraphObjects'[i] = GraphObjects[i]
  BY <1>1, <1>2 DEF GraphFacts
<1>5. /\ GraphObjects = [i \in DOMAIN GraphObjects |-> GraphObjects[i]]
      /\ GraphObjects' = [i \in DOMAIN GraphObjects' |-> GraphObjects'[i]]
  BY DEF GraphObjects
<1>6. GraphObjects' = GraphObjects
  BY <1>3, <1>4, <1>5
<1>7. GraphRoots' = GraphRoots
  <2>1. GraphRoots = [l \in Roots |-> Value(mem[l])]
    BY DEF GraphRoots
  <2>2. GraphRoots' = [l \in Roots' |-> Value(mem[l])']
    BY DEF GraphRoots
  <2> QED BY <2>1, <2>2
<1> QED BY <1>6, <1>7

(* A step that leaves memory and the chunks alone.                          *)
LEMMA UnchangedGraph ==
  ASSUME HeapInvariant, HeapInvariant',
         UNCHANGED <<mem, current, other, handles, frames, identity>>
  PROVE  GraphObjects' = GraphObjects /\ GraphRoots' = GraphRoots
<1>1. /\ Objects(current)' = Objects(current) /\ Objects(other)' = Objects(other)
      /\ \A o : Color(o)' = Color(o) /\ Size(o)' = Size(o)
  BY DEF Objects, Color, Size
<1>2. Live' = Live
  BY <1>1 DEF Live
<1>3. \A w : Value(w)' = Value(w)
  BY DEF Value, IsObject
<1>4. \A l : Value(mem[l])' = Value(mem[l])
  BY DEF Value, IsObject
<1>5. Roots' = Roots
  BY HeapUnchanged DEF HeapInvariant, Invariant
<1> QED BY <1>1, <1>2, <1>4, <1>5, SameGraph

(* A pointer is redirected to another address of the same object.           *)
LEMMA RedirectedPointer ==
  ASSUME HeapInvariant, HeapInvariant', NEW l \in Roots \cup Bodies(other), NEW w,
         mem' = [mem EXCEPT ![l] = w], Value(w) = Value(mem[l]),
         UNCHANGED <<current, other, identity>>, Roots' = Roots
  PROVE  GraphObjects' = GraphObjects /\ GraphRoots' = GraphRoots
<1>1. InvHeap /\ mem \in [Address -> Int]
  BY DEF HeapInvariant, Invariant, InvHeap, InvTypes
<1>2. \A a \in Address : mem'[a] = IF a = l THEN w ELSE mem[a]
  BY <1>1
<1>3. \A o \in AllObjects : /\ o - 1 \in Address /\ o - 2 \in Address
                            /\ l # o - 1 /\ l # o - 2
  <2>1. ASSUME NEW o \in AllObjects
        PROVE  /\ o - 1 \in Address /\ o - 2 \in Address
               /\ InHeap(o - 1) /\ InHeap(o - 2)
               /\ \A x \in Bodies(current) \cup Bodies(other) : x # o - 1 /\ x # o - 2
    BY <1>1, Words, Regions
  <2>2. l \notin Bodies(other) => ~InHeap(l)
    BY <1>1, Words, StackFacts
  <2> QED BY <2>1, <2>2
<1>4. \A o \in AllObjects : Color(o)' = Color(o) /\ Size(o)' = Size(o)
  BY <1>2, <1>3 DEF Color, Size
<1>5. Objects(current)' = Objects(current) /\ Objects(other)' = Objects(other)
  BY DEF Objects
<1>6. Live' = Live
  BY <1>4, <1>5 DEF Live, AllObjects
<1>7. \A a \in Address : Value(mem[a])' = Value(mem[a])
  BY <1>2 DEF Value, IsObject
<1>8. \A a \in Live : \A k \in 0 .. Size(a) - 1 : a + k \in Address
  <2>1. BodyFacts
    BY BodiesHold
  <2> QED BY <2>1, <1>1, Words DEF BodyFacts
<1>9. Live \subseteq AllObjects
  BY DEF Live, AllObjects
<1>10. \A l2 \in Roots : l2 \in Address
  BY <1>1, Words
<1> QED BY <1>4, <1>6, <1>7, <1>8, <1>9, <1>10, SameGraph

(* The original and its copy are one object.                                *)
LEMMA SameValue ==
  ASSUME HeapInvariant, NEW l \in Roots \cup Bodies(other), NEW o \in Objects(current),
         HasPointerTag(mem[l]), UntagPointer(mem[l]) = o, Color(o) = COLOR_MOVED
  PROVE  Value(TagPointer(Size(o))) = Value(mem[l])
<1>1. /\ InvHeap /\ Size(o) \in Objects(other) /\ identity[Size(o)] = identity[o]
  BY DEF HeapInvariant, Invariant, InvHeap, InvForwarding
<1>2. PICK c : c = Size(o)
  OBVIOUS
<1>3. c \in AllObjects /\ o \in AllObjects /\ c \in Int
  BY <1>1, <1>2, Regions DEF AllObjects
<1>4. HasPointerTag(TagPointer(c)) /\ UntagPointer(TagPointer(c)) = c
  BY <1>3, TagUntag
<1>5. IsObject(TagPointer(c)) /\ IsObject(mem[l])
  BY <1>3, <1>4, WordsHold DEF WordFacts
<1>6. Value(TagPointer(c)) = <<"object", identity[c]>> /\ Value(mem[l]) = <<"object", identity[o]>>
  BY <1>4, <1>5 DEF Value
<1> QED BY <1>1, <1>2, <1>6

(* A pointer to a moved object is updated.                                  *)
LEMMA ForwardPointerInvisible ==
  ASSUME HeapInvariant, HeapInvariant', ForwardPointer
  PROVE  GraphObjects' = GraphObjects /\ GraphRoots' = GraphRoots
<1>1. /\ Tracing /\ IsInCurrentChunk(INT_SIZE * Pointer)
      /\ UNCHANGED <<current, other, handles, frames, identity>>
  BY DEF ForwardPointer
<1>2. PICK l, o : l = Location /\ o = Pointer
  OBVIOUS
<1>3. /\ l \in Roots \cup Bodies(other) /\ HasPointerTag(mem[l]) /\ UntagPointer(mem[l]) = o
      /\ o \in Objects(current)
      /\ FindObject(Pointer) = [found |-> TRUE, object |-> o, offset |-> 0]
  BY <1>1, <1>2, TopPointer DEF HeapInvariant
<1>4. Size(o) \in Int /\ InvHeap
  BY <1>3, Words DEF AllObjects, Size, HeapInvariant, Invariant
<1>5. Color(o) = COLOR_MOVED /\ mem' = [mem EXCEPT ![l] = TagPointer(Size(o))]
  <2>1. /\ Color(FindObject(Pointer).object) = COLOR_MOVED
        /\ mem' = [mem EXCEPT ![Location] = ForwardedPointer(FindObject(Pointer))]
    BY DEF ForwardPointer
  <2>2. FindObject(Pointer).object = o /\ FindObject(Pointer).offset = 0
    BY <1>3
  <2>3. ForwardedPointer(FindObject(Pointer)) = TagPointer(Size(o) + 0)
    BY <2>2 DEF ForwardedPointer
  <2>4. Size(o) + 0 = Size(o)
    BY <1>4
  <2> QED BY <2>1, <2>2, <2>3, <2>4, <1>2
<1>6. Roots' = Roots
  BY <1>1, <1>3, <1>5, Forwarding DEF HeapInvariant
<1>7. PICK w : w = TagPointer(Size(o))
  OBVIOUS
<1>8. Value(w) = Value(mem[l])
  BY <1>3, <1>5, <1>7, SameValue
<1> QED BY <1>1, <1>3, <1>5, <1>6, <1>7, <1>8, RedirectedPointer

(* So is the pointer through which an object was found, at the end.         *)
LEMMA ScanDoneInvisible ==
  ASSUME HeapInvariant, HeapInvariant', ScanDone
  PROVE  GraphObjects' = GraphObjects /\ GraphRoots' = GraphRoots
<1>1. /\ pc = "scan" /\ UNCHANGED <<current, other, handles, frames, identity>>
      /\ mem' = [mem EXCEPT ![scan.location] = scan.new_ptr]
  BY DEF ScanDone
<1>2. PICK l, o : l = scan.location /\ o = UntagPointer(mem[scan.location])
  OBVIOUS
<1>3. /\ l \in Roots \cup Bodies(other) /\ HasPointerTag(mem[l]) /\ UntagPointer(mem[l]) = o
      /\ o \in Objects(current) /\ Color(o) = COLOR_MOVED
      /\ scan.new_ptr = TagPointer(Size(o))
  BY <1>1, <1>2 DEF HeapInvariant, Invariant, InvScan
<1>4. Roots' = Roots
  BY <1>1, <1>2, <1>3, Forwarding DEF HeapInvariant
<1>5. PICK w : w = TagPointer(Size(o))
  OBVIOUS
<1>6. Value(w) = Value(mem[l])
  BY <1>3, <1>5, SameValue
<1> QED BY <1>1, <1>2, <1>3, <1>4, <1>5, <1>6, RedirectedPointer

(* A copy takes the place of its original: it has the same fields.          *)
LEMMA MoveObjectInvisible ==
  ASSUME HeapInvariant, HeapInvariant', MoveObject
  PROVE  GraphObjects' = GraphObjects /\ GraphRoots' = GraphRoots
<1>1. /\ Tracing /\ IsInCurrentChunk(INT_SIZE * Pointer)
      /\ UNCHANGED <<current, handles, frames>>
  BY DEF MoveObject
<1>2. PICK o, copy : o = Pointer /\ copy = other.cursor + 2
  OBVIOUS
<1>3. /\ o \in Objects(current)
      /\ FindObject(Pointer) = [found |-> TRUE, object |-> o, offset |-> 0]
  BY <1>1, <1>2, TopPointer DEF HeapInvariant
<1>4. PICK f : f = FindObject(Pointer)
  OBVIOUS
<1>5. f.object = o
  BY <1>3, <1>4
<1>6. /\ Color(o) # COLOR_MOVED
      /\ mem' = MemoryWithCopy(o, other.cursor + 2)
      /\ other' = [chunk |-> other.chunk, cursor |-> other.cursor + Size(o) + 2,
                   objects |-> Append(other.objects, other.cursor + 2)]
      /\ identity' = [a \in DOMAIN identity \cup {other.cursor + 2} |->
                        IF a = other.cursor + 2 THEN identity[o] ELSE identity[a]]
  BY <1>4, <1>5 DEF MoveObject
<1>7. /\ InvHeap /\ other.objects \in Seq(Int) /\ other.cursor \in Int /\ copy \in Int
      /\ DOMAIN identity = AllObjects
  BY <1>2, Chunks DEF HeapInvariant, Invariant, Space, InvHeap, InvIdentity
<1>8. /\ Objects(current)' = Objects(current)
      /\ Objects(other)' = Objects(other) \cup {copy}
  BY <1>1, <1>2, <1>6, <1>7 DEF Objects
<1>9. PICK size : size = Size(o)
  OBVIOUS
<1>10. /\ Size(o) \in Int /\ Size(o) >= 2
       /\ other.cursor + Size(o) + 2 <= other.chunk + ChunkWords + 1
  BY <1>3, <1>6, <1>7, ObjectToCopy
<1>11. copy \notin AllObjects
  <2>1. other.cursor + 2 \in other.cursor .. other.cursor + size + 1
    BY <1>7, <1>9, <1>10
  <2>2. \A x \in AllObjects : other.cursor + 2 # x
    BY <2>1, <1>7, <1>9, <1>10, BlockAtOtherCursor
  <2> QED BY <2>2, <1>2
<1>12. /\ \A l \in Bodies(current) \cup Bodies(other) \cup Stack \cup {HandleCell} :
            mem'[l] = mem[l]
       /\ \A x \in Objects(current) :
            x # o => mem'[x - 1] = mem[x - 1] /\ mem'[x - 2] = mem[x - 2]
       /\ \A x \in Objects(other) : mem'[x - 1] = mem[x - 1] /\ mem'[x - 2] = mem[x - 2]
       /\ mem'[o - 1] = COLOR_MOVED
       /\ mem'[other.cursor] = mem[o - 2]
       /\ \A j \in 0 .. Size(o) - 1 : mem'[other.cursor + 2 + j] = mem[o + j]
  BY <1>3, <1>6, <1>7, CopyMemory
<1>13. /\ identity'[copy] = identity[o]
       /\ \A x \in AllObjects : identity'[x] = identity[x]
       /\ DOMAIN identity' = AllObjects \cup {copy}
  BY <1>2, <1>6, <1>7, <1>11
<1>14. ASSUME NEW w, PointsTo(w, AllObjects) PROVE Value(w)' = Value(w)
  <2>1. InHeap(copy)
    <3>1. other.cursor + 2 \in other.cursor .. other.cursor + size + 1
      BY <1>7, <1>9, <1>10
    <3>2. InHeap(other.cursor + 2)
      <4>1. /\ InvHeap /\ size \in Int /\ size >= 0
            /\ other.cursor + size + 2 <= other.chunk + ChunkWords + 1
        BY <1>7, <1>9, <1>10
      <4> QED BY ONLY <3>1, <4>1, BlockAtOtherCursor
    <3> QED BY <3>2, <1>2
  <2>2. ~(HasPointerTag(w) /\ UntagPointer(w) = copy)
    BY <2>1, <1>11, <1>14 DEF PointsTo
  <2> QED BY <2>2, <1>7, <1>13 DEF Value, IsObject
<1>15. ASSUME NEW l \in Roots \cup Bodies(current) \cup Bodies(other)
       PROVE  mem'[l] = mem[l] /\ Value(mem[l])' = Value(mem[l])
  <2>1. mem'[l] = mem[l]
    BY <1>7, <1>12, Words
  <2>2. PointsTo(mem[l], AllObjects)
    BY <1>7 DEF InvHeap, InvWords, PointsTo, AllObjects
  <2>3. PICK w : w = mem[l]
    OBVIOUS
  <2>4. Value(w)' = Value(w)
    BY <2>2, <2>3, <1>14
  <2>5. Value(mem[l])' = Value(w)'
    BY <2>1, <2>3 DEF Value, IsObject
  <2> QED BY <2>1, <2>3, <2>4, <2>5
<1>16. /\ \A a \in Live : a # o => a \in Live' /\ Size(a)' = Size(a)
       /\ copy \in Live' /\ Size(copy)' = Size(o)
       /\ Live' \subseteq (Live \cup {copy})
  <2>1. copy - 2 = other.cursor
    BY <1>2, <1>7
  <2>2. Size(copy)' = Size(o)
    BY <2>1, <1>12 DEF Size
  <2>3. \A x \in AllObjects : x # o => Color(x)' = Color(x) /\ Size(x)' = Size(x)
    BY <1>12 DEF Color, Size, AllObjects
  <2>4. Color(o)' = COLOR_MOVED /\ o \notin Objects(other)
    BY <1>3, <1>7, <1>12, Regions DEF Color
  <2> QED BY <2>2, <2>3, <2>4, <1>8 DEF Live, AllObjects
<1>17. ASSUME NEW a \in Live
       PROVE  \E b \in Live' :
                /\ identity'[b] = identity[a] /\ Size(b)' = Size(a)
                /\ \A k \in 0 .. Size(a) - 1 : Value(mem[b + k])' = Value(mem[a + k])
  <2>1. /\ a \in AllObjects
        /\ \A k \in 0 .. Size(a) - 1 : a + k \in Bodies(current) \cup Bodies(other)
    BY LiveHolds, BodiesHold DEF LiveFacts, BodyFacts
  <2>2. CASE a # o
    <3>1. \A k \in 0 .. Size(a) - 1 : Value(mem[a + k])' = Value(mem[a + k])
      BY <2>1, <1>15
    <3> QED BY <2>1, <2>2, <3>1, <1>13, <1>16
  <2>3. CASE a = o
    <3>1. ASSUME NEW k \in 0 .. Size(o) - 1 PROVE Value(mem[copy + k])' = Value(mem[o + k])
      <4>1. PICK w : w = mem[o + k]
        OBVIOUS
      <4>2. mem'[copy + k] = w /\ mem'[o + k] = w
        BY <4>1, <2>1, <2>3, <1>2, <1>12, <1>15
      <4>3. Value(mem[copy + k])' = Value(mem[o + k])'
        BY <4>2 DEF Value, IsObject
      <4>4. o + k \in Bodies(current) \cup Bodies(other)
        BY <2>1, <2>3
      <4> QED BY <4>3, <4>4, <1>15
    <3> QED BY <2>3, <3>1, <1>13, <1>16
  <2> QED BY <2>2, <2>3
<1>18. \A b \in Live' : \E a \in Live : identity'[b] = identity[a]
  <2>1. o \in Live /\ Live \subseteq AllObjects
    BY <1>3, <1>6, LiveHolds DEF Live, LiveFacts
  <2> QED BY <2>1, <1>13, <1>16
<1>19. Roots' = Roots
  BY <1>1, <1>3, <1>6, <1>7, Copying
<1> QED BY <1>15, <1>17, <1>18, <1>19, SameGraph

(* What the rest of a collection does is invisible as well.                 *)
LEMMA CollectorInvisible ==
  ASSUME HeapInvariant, HeapInvariant', GCStep
  PROVE  GraphObjects' = GraphObjects /\ GraphRoots' = GraphRoots
<1>1. CASE WalkWord \/ RootsFromHandles \/ SkipPointer \/ ScanWord
  <2>1. UNCHANGED <<mem, current, other, handles, frames, identity>>
    BY <1>1 DEF WalkWord, RootsFromHandles, SkipPointer, ScanWord
  <2> QED BY <2>1, UnchangedGraph
<1>2. CASE ForwardPointer
  BY <1>2, ForwardPointerInvisible
<1>3. CASE MoveObject
  BY <1>3, MoveObjectInvisible
<1>4. CASE ScanDone
  BY <1>4, ScanDoneInvisible
<1> QED BY <1>1, <1>2, <1>3, <1>4 DEF GCStep

-----------------------------------------------------------------------------
(* Steps of the program.                                                    *)

(* The program has the word in a root, or in a field of an object to which  *)
(* a root points, or it is no pointer to an object.                         *)
KnownWord(w) ==
  \/ ~IsObject(w)
  \/ \E l \in Roots : mem[l] = w
  \/ \E l \in Roots :
       /\ IsObject(mem[l])
       /\ \E k \in 0 .. Size(UntagPointer(mem[l])) - 1 : w = mem[UntagPointer(mem[l]) + k]

(* Outside a collection all objects are in the current chunk.               *)
LEMMA NothingMoved ==
  ASSUME HeapInvariant, pc \in {"program", "allocate", "out_of_memory", "walk", "handles"}
  PROVE  /\ Live = AllObjects /\ AllObjects = Objects(current)
         /\ other.objects = <<>> /\ Objects(other) = {} /\ Bodies(other) = {}
<1>1. other.objects = <<>> /\ \A o \in Objects(current) : Color(o) = COLOR_WHITE
  BY DEF HeapInvariant, Invariant, InvIdle
<1>2. 1 .. Len(other.objects) = {}
  BY <1>1
<1>3. Objects(other) = {} /\ Bodies(other) = {}
  BY <1>2 DEF Objects, Bodies
<1> QED BY <1>1, <1>3 DEF Live, AllObjects, COLOR_WHITE, COLOR_MOVED

(* The roots hold the objects they point to.                                *)
LEMMA HeldObject ==
  ASSUME HeapInvariant, NEW l \in Roots, IsObject(mem[l])
  PROVE  /\ identity[UntagPointer(mem[l])] \in Graph!HeldObjects
         /\ GraphRoots[l] = <<"object", identity[UntagPointer(mem[l])]>>
<1>1. GraphFacts
  BY GraphHolds
<1>2. identity[UntagPointer(mem[l])] \in DOMAIN GraphObjects
  BY <1>1 DEF GraphFacts, IsObject, Identities
<1>3. GraphRoots[l] = <<"object", identity[UntagPointer(mem[l])]>> /\ l \in DOMAIN GraphRoots
  BY <1>1 DEF GraphFacts, Value
<1> QED BY <1>2, <1>3 DEF Graph!HeldObjects, Graph!Held

(* What it stands for is known in the graph.                                *)
LEMMA KnownWords ==
  ASSUME HeapInvariant, pc \in {"program", "allocate"}, NEW w, KnownWord(w)
  PROVE  Graph!Known(Value(w))
<1>1. GraphFacts /\ Live = AllObjects /\ WordFacts
  BY GraphHolds, NothingMoved, WordsHold
<1>2. CASE ~IsObject(w)
  <2>1. Value(w) = <<"word", w>>
    BY <1>2 DEF Value
  <2> QED BY <2>1 DEF Graph!Known, Graph!IsWord
<1>3. CASE \E l \in Roots : mem[l] = w
  <2>1. PICK l \in Roots : mem[l] = w
    BY <1>3
  <2>2. l \in DOMAIN GraphRoots /\ GraphRoots[l] = Value(w)
    BY <1>1, <2>1 DEF GraphFacts
  <2>3. Value(w) \in Graph!Held
    BY <2>2 DEF Graph!Held
  <2> QED BY <2>3 DEF Graph!Known
<1>4. ASSUME NEW l \in Roots, IsObject(mem[l]),
             NEW k \in 0 .. Size(UntagPointer(mem[l])) - 1,
             w = mem[UntagPointer(mem[l]) + k]
      PROVE  Graph!Known(Value(w))
  <2>1. PICK o, i : o = UntagPointer(mem[l]) /\ i = identity[o]
    OBVIOUS
  <2>2. i \in Graph!HeldObjects
    BY <2>1, <1>4, HeldObject
  <2>3. o \in Live
    BY <2>1, <1>1, <1>4 DEF WordFacts
  <2>4. k \in DOMAIN GraphObjects[i] /\ GraphObjects[i][k] = Value(w)
    BY <2>1, <2>3, <1>4, FieldsHold DEF FieldFacts
  <2>5. Value(w) \in Graph!Loadable
    BY <2>2, <2>4 DEF Graph!Loadable
  <2> QED BY <2>5 DEF Graph!Known
<1> QED BY <1>2, <1>3, <1>4 DEF KnownWord

(* The fields of an object that a step of the program leaves where it is.   *)
SameFields(o) ==
  LET now == GraphObjects[identity[o]]
      next == GraphObjects'[identity[o]]
  IN /\ DOMAIN now = 0 .. Size(o) - 1 /\ DOMAIN next = 0 .. Size(o) - 1
     /\ \A k \in 0 .. Size(o) - 1 : now[k] = Value(mem[o + k]) /\ next[k] = Value(mem'[o + k])
     /\ IsFunction(now) /\ IsFunction(next)

(* An object whose words stay is the same.                                  *)
LEMMA SameFieldsSameObject ==
  ASSUME NEW o, SameFields(o), \A k \in 0 .. Size(o) - 1 : mem'[o + k] = mem[o + k]
  PROVE  GraphObjects'[identity[o]] = GraphObjects[identity[o]]
<1>1. PICK now, next : now = GraphObjects[identity[o]] /\ next = GraphObjects'[identity[o]]
  OBVIOUS
<1>2. /\ IsFunction(now) /\ IsFunction(next)
      /\ DOMAIN now = 0 .. Size(o) - 1 /\ DOMAIN next = 0 .. Size(o) - 1
      /\ \A k \in 0 .. Size(o) - 1 : now[k] = Value(mem[o + k]) /\ next[k] = Value(mem'[o + k])
  BY <1>1 DEF SameFields
<1>3. \A k \in DOMAIN now : next[k] = now[k]
  BY <1>2
<1>4. next = now
  BY ONLY <1>2, <1>3, SameFunction
<1> QED BY <1>1, <1>4

(* The program changes no header, and words stand for what they stood for.  *)
LEMMA FieldsKept ==
  ASSUME HeapInvariant, HeapInvariant', pc = "program",
         UNCHANGED <<current, other, identity>>,
         \A o \in Objects(current) : mem'[o - 1] = mem[o - 1] /\ mem'[o - 2] = mem[o - 2]
  PROVE  /\ DOMAIN GraphObjects' = DOMAIN GraphObjects
         /\ \A w : Value(w)' = Value(w)
         /\ \A l \in Roots' : GraphRoots'[l] = Value(mem'[l])
         /\ DOMAIN GraphRoots' = Roots'
         /\ \A o \in Objects(current) : SameFields(o)
         /\ \A i \in DOMAIN GraphObjects : \E o \in Objects(current) : i = identity[o]
<1>1. GraphFacts /\ GraphFacts' /\ Live = Objects(current)
  BY GraphHolds, NextFacts, NothingMoved
<1>2. Live' = Live /\ \A o \in Objects(current) : Size(o)' = Size(o)
  <2>1. Objects(current)' = Objects(current) /\ Objects(other)' = Objects(other)
    BY DEF Objects
  <2>2. \A o \in Objects(current) : Color(o)' = Color(o) /\ Size(o)' = Size(o)
    BY DEF Color, Size
  <2> QED BY <2>1, <2>2 DEF Live
<1>3. \A w : Value(w)' = Value(w)
  BY DEF Value, IsObject
<1>4. \A l : Value(mem[l])' = Value(mem'[l])
  BY DEF Value, IsObject
<1>5. DOMAIN GraphObjects' = DOMAIN GraphObjects
  <2>1. Identities' = Identities
    BY DEF Identities
  <2> QED BY <2>1, <1>1 DEF GraphFacts
<1>6. ASSUME NEW o \in Objects(current) PROVE SameFields(o)
  <2>1. PICK i, size : i = identity[o] /\ size = Size(o)
    OBVIOUS
  <2>2. /\ o \in Live /\ o \in Live' /\ identity'[o] = i /\ Size(o)' = size
        /\ FieldFacts /\ FieldFacts'
    BY <2>1, <1>1, <1>2, FieldsHold, NextFacts
  <2>3. /\ DOMAIN GraphObjects[i] = 0 .. size - 1
        /\ \A k \in 0 .. size - 1 : GraphObjects[i][k] = Value(mem[o + k])
        /\ IsFunction(GraphObjects[i])
    BY <2>1, <2>2 DEF FieldFacts
  <2>4. /\ DOMAIN GraphObjects'[i] = 0 .. size - 1
        /\ \A k \in 0 .. size - 1 : GraphObjects'[i][k] = Value(mem[o + k])'
        /\ IsFunction(GraphObjects'[i])
    BY <2>1, <2>2 DEF FieldFacts, IsFunction
  <2>5. \A k \in 0 .. size - 1 : GraphObjects'[i][k] = Value(mem'[o + k])
    <3> TAKE k \in 0 .. size - 1
    <3>1. Value(mem[o + k])' = Value(mem'[o + k])
      BY DEF Value, IsObject
    <3> QED BY <2>4, <3>1
  <2> QED BY <2>1, <2>3, <2>4, <2>5 DEF SameFields
<1>7. \A l \in Roots' : GraphRoots'[l] = Value(mem'[l])
  BY <1>1, <1>4 DEF GraphFacts
<1> QED BY <1>1, <1>3, <1>5, <1>6, <1>7 DEF GraphFacts

(* A step that changes roots only.                                          *)
LEMMA RootsChange ==
  ASSUME HeapInvariant, HeapInvariant', pc = "program",
         UNCHANGED <<current, other, identity>>,
         \A o \in Objects(current) : mem'[o - 1] = mem[o - 1] /\ mem'[o - 2] = mem[o - 2],
         \A l \in Bodies(current) : mem'[l] = mem[l],
         \A l \in Roots' : KnownWord(mem'[l])
  PROVE  Graph!ProgramStep
<1>1. /\ DOMAIN GraphObjects' = DOMAIN GraphObjects
      /\ DOMAIN GraphRoots' = Roots'
      /\ \A l \in Roots' : GraphRoots'[l] = Value(mem'[l])
      /\ \A i \in DOMAIN GraphObjects : \E o \in Objects(current) : i = identity[o]
      /\ \A o \in Objects(current) : SameFields(o)
  BY FieldsKept
<1>2. \A l \in DOMAIN GraphRoots' : Graph!Known(GraphRoots'[l])
  BY <1>1, KnownWords
<1>3. \A o \in Objects(current) : GraphObjects'[identity[o]] = GraphObjects[identity[o]]
  <2> TAKE o \in Objects(current)
  <2>1. \A k \in 0 .. Size(o) - 1 : o + k \in Bodies(current)
    BY NothingMoved, BodiesHold DEF BodyFacts
  <2>2. \A k \in 0 .. Size(o) - 1 : mem'[o + k] = mem[o + k]
    BY <2>1
  <2> QED BY <2>2, <1>1, SameFieldsSameObject
<1>4. GraphObjects' = GraphObjects
  <2>1. \A i \in DOMAIN GraphObjects : GraphObjects'[i] = GraphObjects[i]
    BY <1>1, <1>3
  <2>2. /\ GraphObjects = [i \in DOMAIN GraphObjects |-> GraphObjects[i]]
        /\ GraphObjects' = [i \in DOMAIN GraphObjects' |-> GraphObjects'[i]]
    BY DEF GraphObjects
  <2> QED BY <2>1, <2>2, <1>1
<1> QED BY <1>1, <1>2, <1>4 DEF Graph!ProgramStep

(* A word is in one object only.                                            *)
LEMMA OnlyBody ==
  ASSUME HeapInvariant, pc = "program",
         NEW a \in Objects(current), NEW b \in Objects(current),
         NEW m \in 0 .. Size(a) - 1, NEW n \in 0 .. Size(b) - 1, a + m = b + n
  PROVE  a = b
<1>1. /\ InvHeap /\ current \in Space /\ Layout(current)
      /\ \A o \in Objects(current) : Color(o) = COLOR_WHITE
  BY Chunks DEF HeapInvariant, Invariant, InvIdle
<1>2. PICK i \in 1 .. Len(current.objects) : a = current.objects[i]
  BY DEF Objects
<1>3. PICK j \in 1 .. Len(current.objects) : b = current.objects[j]
  BY DEF Objects
<1>4. /\ Color(a) # COLOR_MOVED /\ Color(b) # COLOR_MOVED
  BY <1>1 DEF COLOR_WHITE, COLOR_MOVED
<1>5. /\ a \in Int /\ Size(a) \in Int /\ End(current, i) = a + Size(a)
      /\ b \in Int /\ Size(b) \in Int /\ End(current, j) = b + Size(b)
  BY <1>1, <1>2, <1>3, <1>4, ObjectToCopy
<1>6. /\ a + m \in current.objects[i] .. End(current, i) - 1
      /\ a + m \in current.objects[j] .. End(current, j) - 1
  <2>1. PICK l, endA, endB : l = a + m /\ endA = End(current, i) /\ endB = End(current, j)
    OBVIOUS
  <2>2. l \in a .. endA - 1
    <3>1. PICK size : size = Size(a)
      OBVIOUS
    <3>2. size \in Int /\ m \in 0 .. size - 1 /\ endA = a + size /\ a \in Int
      BY <3>1, <2>1, <1>5
    <3> QED BY ONLY <3>2, <2>1
  <2>3. l \in b .. endB - 1
    <3>1. PICK size : size = Size(b)
      OBVIOUS
    <3>2. size \in Int /\ n \in 0 .. size - 1 /\ endB = b + size /\ b \in Int /\ l = b + n
      BY <3>1, <2>1, <1>5
    <3> QED BY ONLY <3>2
  <2> QED BY <2>1, <2>2, <2>3, <1>2, <1>3
<1>7. i = j
  BY <1>1, <1>6, OneBody
<1> QED BY <1>2, <1>3, <1>7

(* A step that changes one field of an object the program holds, and roots. *)
LEMMA FieldChanges ==
  ASSUME HeapInvariant, HeapInvariant', pc = "program",
         UNCHANGED <<current, other, identity>>,
         \A o \in Objects(current) : mem'[o - 1] = mem[o - 1] /\ mem'[o - 2] = mem[o - 2],
         NEW r \in Roots, IsObject(mem[r]), NEW object, object = UntagPointer(mem[r]),
         NEW k \in 0 .. Size(object) - 1,
         KnownWord(mem'[object + k]),
         \A l \in Bodies(current) : l # object + k => mem'[l] = mem[l],
         \A l \in Roots' : KnownWord(mem'[l])
  PROVE  Graph!ProgramStep
<1>1. /\ DOMAIN GraphObjects' = DOMAIN GraphObjects
      /\ DOMAIN GraphRoots' = Roots'
      /\ \A l \in Roots' : GraphRoots'[l] = Value(mem'[l])
      /\ \A i \in DOMAIN GraphObjects : \E o \in Objects(current) : i = identity[o]
      /\ \A o \in Objects(current) : SameFields(o)
  BY FieldsKept
<1>2. \A l \in DOMAIN GraphRoots' : Graph!Known(GraphRoots'[l])
  BY <1>1, KnownWords
<1>3. PICK i : i = identity[object]
  OBVIOUS
<1>4. object \in Objects(current) /\ i \in Graph!HeldObjects /\ i \in DOMAIN GraphObjects
  BY <1>3, HeldObject, NothingMoved, WordsHold DEF WordFacts, Graph!HeldObjects
<1>5. /\ k \in DOMAIN GraphObjects[i] /\ k \in DOMAIN GraphObjects'[i]
      /\ Graph!Known(GraphObjects'[i][k])
  <2>1. /\ k \in DOMAIN GraphObjects[i] /\ k \in DOMAIN GraphObjects'[i]
        /\ GraphObjects'[i][k] = Value(mem'[object + k])
    BY <1>1, <1>3, <1>4 DEF SameFields
  <2>2. Graph!Known(Value(mem'[object + k]))
    BY KnownWords
  <2> QED BY <2>1, <2>2
<1>6. \A j \in DOMAIN GraphObjects : j # i => GraphObjects'[j] = GraphObjects[j]
  <2> TAKE j \in DOMAIN GraphObjects
  <2> HAVE j # i
  <2>1. PICK o \in Objects(current) : j = identity[o]
    BY <1>1
  <2>2. ASSUME NEW n \in 0 .. Size(o) - 1 PROVE mem'[o + n] = mem[o + n]
    <3>1. o + n \in Bodies(current)
      BY NothingMoved, BodiesHold DEF BodyFacts
    <3>2. o + n # object + k
      <4>1. SUFFICES ASSUME o + n = object + k PROVE FALSE
        OBVIOUS
      <4>2. object = o
        BY <4>1, <1>4, OnlyBody
      <4> QED BY <4>2, <2>1, <1>3
    <3> QED BY <3>1, <3>2
  <2>3. GraphObjects'[identity[o]] = GraphObjects[identity[o]]
    BY <2>2, <1>1, SameFieldsSameObject
  <2> QED BY <2>1, <2>3
<1>7. GraphObjects'[i] = [GraphObjects[i] EXCEPT ![k] = GraphObjects'[i][k]]
  <2>1. ASSUME NEW n \in 0 .. Size(object) - 1, n # k PROVE mem'[object + n] = mem[object + n]
    <3>1. object \in Int /\ Size(object) \in Int /\ object + n \in Bodies(current)
      BY <1>4, NothingMoved, BodiesHold DEF BodyFacts
    <3>2. object + n # object + k
      BY ONLY <3>1, <2>1
    <3> QED BY <3>1, <3>2
  <2>2. PICK now, next : now = GraphObjects[i] /\ next = GraphObjects'[i]
    OBVIOUS
  <2>3. /\ IsFunction(now) /\ IsFunction(next)
        /\ DOMAIN now = 0 .. Size(object) - 1 /\ DOMAIN next = 0 .. Size(object) - 1
        /\ \A n \in 0 .. Size(object) - 1 :
             now[n] = Value(mem[object + n]) /\ next[n] = Value(mem'[object + n])
    BY <2>2, <1>1, <1>3, <1>4 DEF SameFields
  <2>4. \A n \in DOMAIN now : n # k => next[n] = now[n]
    BY <2>1, <2>3
  <2>5. DOMAIN next = DOMAIN now /\ k \in DOMAIN now
    BY <2>3
  <2>6. next = [now EXCEPT ![k] = next[k]]
    <3>1. IsFunction(now) /\ IsFunction(next)
      BY <2>3
    <3> QED BY ONLY <3>1, <2>4, <2>5, OneFieldDiffers
  <2> QED BY <2>2, <2>6
<1>8. GraphObjects' = [GraphObjects EXCEPT ![i][k] = GraphObjects'[i][k]]
  <2>1. /\ GraphObjects = [j \in DOMAIN GraphObjects |-> GraphObjects[j]]
        /\ GraphObjects' = [j \in DOMAIN GraphObjects' |-> GraphObjects'[j]]
    BY DEF GraphObjects
  <2> QED BY <2>1, <1>1, <1>4, <1>6, <1>7
<1> QED BY <1>1, <1>2, <1>4, <1>5, <1>8 DEF Graph!ProgramStep

(* The running function stays the running function.                         *)
LEMMA FrameKept ==
  ASSUME frames' = frames, mem'[Top] = mem[Top],
         mem'[FunctionContext(Top) + SPILL_COUNT] = mem[FunctionContext(Top) + SPILL_COUNT]
  PROVE  /\ Top' = Top /\ LastWord(Top)' = LastWord(Top)
         /\ Stack' = Stack /\ Roots' = Stack \cup handles'
<1>1. Top' = Top
  BY DEF Top
<1>2. PICK top : top = Top
  OBVIOUS
<1>3. FunctionContext(top)' = FunctionContext(top)
  BY <1>2 DEF FunctionContext
<1>4. SpillCount(top)' = SpillCount(top)
  BY <1>2, <1>3 DEF SpillCount
<1>5. LastWord(top)' = LastWord(top)
  BY <1>4 DEF LastWord
<1>6. LastWord(Top)' = LastWord(Top)
  BY <1>1, <1>2, <1>5
<1>7. Stack' = Stack
  BY <1>6 DEF Stack
<1>8. Roots' = Stack' \cup handles'
  BY DEF Roots, Stack
<1> QED BY <1>1, <1>6, <1>7, <1>8

(* Where the program writes it changes no header, no frame word and no      *)
(* spill count.                                                             *)
LEMMA WordWritten ==
  ASSUME HeapInvariant, pc = "program", UNCHANGED <<current, other, frames, identity>>,
         NEW l \in Stack \cup Bodies(current) \cup {HandleCell}, NEW w,
         mem' = [mem EXCEPT ![l] = w],
         \A i \in 1 .. Len(frames) : frames[i] # l,
         \A o \in Objects(current) : IsContextObject(o) => l # o + SPILL_COUNT
  PROVE  /\ \A a \in Stack \cup Bodies(current) \cup {HandleCell} :
              mem'[a] = IF a = l THEN w ELSE mem[a]
         /\ \A o \in Objects(current) : mem'[o - 1] = mem[o - 1] /\ mem'[o - 2] = mem[o - 2]
         /\ Roots' = Stack \cup handles' /\ Roots = Stack
<1>1. InvHeap /\ handles = {}
  BY Idle DEF HeapInvariant, Invariant
<1>2. mem \in [Address -> Int]
  BY <1>1 DEF InvHeap, InvTypes
<1>3. \A a \in Address : mem'[a] = IF a = l THEN w ELSE mem[a]
  BY <1>2
<1>4. \A a \in Stack \cup Bodies(current) \cup {HandleCell} : a \in Address
  BY <1>1, StackFacts, Words
<1>5. ASSUME NEW o \in Objects(current)
      PROVE  /\ o - 1 \in Address /\ o - 2 \in Address /\ l # o - 1 /\ l # o - 2
  <2>1. o \in AllObjects /\ InHeap(o - 1) /\ InHeap(o - 2)
    BY <1>1, Regions DEF AllObjects
  <2>2. o - 1 \in Address /\ o - 2 \in Address
    BY <2>1, <1>1, Words
  <2>3. CASE l \in Bodies(current)
    BY <2>1, <2>2, <2>3, <1>1, Regions
  <2>4. CASE l \in Stack \cup {HandleCell}
    BY <2>1, <2>2, <2>4, <1>1, StackFacts
  <2> QED BY <2>3, <2>4
<1>6. mem'[Top] = mem[Top]
  <2>1. Top \in Stack /\ Len(frames) \in 1 .. Len(frames)
    BY <1>1, StackFacts DEF Top
  <2>2. Top # l
    BY <2>1 DEF Top
  <2> QED BY <2>1, <2>2, <1>3, <1>4
<1>7. mem'[FunctionContext(Top) + SPILL_COUNT] = mem[FunctionContext(Top) + SPILL_COUNT]
  <2>1. PICK c : c = FunctionContext(Top)
    OBVIOUS
  <2>2. IsFrame(Top)
    BY <1>1, StackFacts DEF InvHeap, InvFrames, Top
  <2>3. c \in Objects(current) /\ IsContextObject(c)
    BY <2>1, <2>2, NothingMoved DEF IsFrame
  <2>4. c \in AllObjects /\ c + 1 \in Address
    BY <2>3, <1>1, Words DEF AllObjects
  <2>5. l # c + SPILL_COUNT
    BY <2>3
  <2> QED BY <2>1, <2>4, <2>5, <1>3 DEF SPILL_COUNT
<1>8. Roots' = Stack \cup handles'
  BY <1>6, <1>7, FrameKept
<1>9. Roots = Stack
  BY <1>1 DEF Roots, Stack
<1> QED BY <1>3, <1>4, <1>5, <1>8, <1>9

(* A register, a spill slot or the handle gets a word the program knows.    *)
LEMMA RootWritten ==
  ASSUME HeapInvariant, HeapInvariant', pc = "program",
         UNCHANGED <<current, other, frames, identity>>,
         NEW l \in Stack \cup {HandleCell}, NEW w, KnownWord(w),
         mem' = [mem EXCEPT ![l] = w],
         \A i \in 1 .. Len(frames) : frames[i] # l,
         handles' \subseteq {HandleCell}, handles' # {} => l = HandleCell
  PROVE  Graph!ProgramStep
<1>1. InvHeap
  BY DEF HeapInvariant, Invariant
<1>2. \A o \in Objects(current) : l # o + SPILL_COUNT
  <2>1. \A o \in Objects(current) : o + 1 \in Bodies(current) /\ InHeap(o + 1)
    BY <1>1, Regions
  <2>2. ~InHeap(l)
    BY <1>1, StackFacts
  <2> QED BY <2>1, <2>2 DEF SPILL_COUNT
<1>3. /\ \A a \in Stack \cup Bodies(current) \cup {HandleCell} :
           mem'[a] = IF a = l THEN w ELSE mem[a]
      /\ \A o \in Objects(current) : mem'[o - 1] = mem[o - 1] /\ mem'[o - 2] = mem[o - 2]
      /\ Roots' = Stack \cup handles' /\ Roots = Stack
  BY <1>2, WordWritten
<1>4. \A a \in Bodies(current) : mem'[a] = mem[a]
  <2>1. \A a \in Bodies(current) : InHeap(a)
    BY <1>1, Regions
  <2>2. ~InHeap(l)
    BY <1>1, StackFacts
  <2> QED BY <2>1, <2>2, <1>3
<1>5. ASSUME NEW a \in Roots' PROVE KnownWord(mem'[a])
  <2>1. CASE a = l
    BY <2>1, <1>3
  <2>2. CASE a # l
    <3>1. a \in Roots /\ mem'[a] = mem[a]
      BY <2>2, <1>3
    <3> QED BY <3>1 DEF KnownWord
  <2> QED BY <2>1, <2>2
<1> QED BY <1>3, <1>4, <1>5, RootsChange

(* What a base register leads to.                                           *)
LEMMA BaseField ==
  ASSUME HeapInvariant, pc = "program", NEW b \in Bases
  PROVE  /\ b \in Roots /\ IsObject(mem[b])
         /\ \A k \in LoadableFields(UntagPointer(mem[b])) :
              k \in 0 .. Size(UntagPointer(mem[b])) - 1
<1>1. /\ InvHeap /\ \A c \in Objects(current) : Color(c) # COLOR_MOVED
      /\ InvIdentity /\ AllObjects = Objects(current)
  BY Idle DEF HeapInvariant, Invariant, InvHeap, InvIdle, COLOR_WHITE, COLOR_MOVED
<1>2. b \in Stack /\ UntagPointer(mem[b]) \in Objects(current)
  BY BaseObject DEF HeapInvariant
<1>3. PICK o, size : o = UntagPointer(mem[b]) /\ size = Size(o)
  OBVIOUS
<1>4. /\ o \in Objects(current) /\ size \in Int /\ size >= 2
      /\ IsContextObject(o) => size = ContextWords
      /\ identity[o].kind \in {"main", "context", "function", "array"}
  BY <1>1, <1>2, <1>3, ObjectToCopy DEF InvIdentity
<1>5. ASSUME NEW k \in LoadableFields(o) PROVE k \in 0 .. size - 1
  <2>1. CASE identity[o].kind \in {"main", "context"}
    <3>1. k \in HEADER_WORDS .. ContextWords - 1 \/ k = OUTER
      BY <2>1 DEF LoadableFields, Slots
    <3>2. ContextWords \in Int /\ size = ContextWords
      BY <2>1, <1>4, RuntimeAssumption DEF IsContextObject, ContextWords, HEADER_WORDS
    <3> QED BY ONLY <3>1, <3>2, <1>4 DEF HEADER_WORDS, OUTER
  <2>2. CASE identity[o].kind = "function"
    <3>1. k = OUTER
      BY <2>2 DEF LoadableFields, Slots
    <3> QED BY ONLY <3>1, <1>4 DEF OUTER
  <2>3. CASE identity[o].kind = "array"
    BY <2>3, <1>3 DEF LoadableFields, Slots
  <2> QED BY <2>1, <2>2, <2>3, <1>4
<1>6. b \in Roots /\ IsObject(mem[b])
  BY <1>1, <1>2, Words DEF Bases
<1> QED BY <1>3, <1>5, <1>6

(* Loads, stores to spill slots, computed words, and the handle.            *)
LEMMA RegisterStep ==
  ASSUME HeapInvariant, HeapInvariant', SetRegister \/ LoadField \/ StoreSpilled \/ LoadSpilled
  PROVE  Graph!ProgramStep
<1>1. /\ pc = "program" /\ UNCHANGED <<current, other, handles, frames, identity>>
  BY DEF SetRegister, LoadField, StoreSpilled, LoadSpilled, OnlyMemChanges
<1>2. InvHeap /\ handles = {}
  BY <1>1, Idle DEF HeapInvariant, Invariant
<1>3. /\ \A l \in Registers \cup SpillSlots :
           l \in Stack /\ l \in Roots /\ \A i \in 1 .. Len(frames) : frames[i] # l
  BY <1>2, FrameWords, Words
<1>4. \E l \in Registers \cup SpillSlots : \E w :
        KnownWord(w) /\ mem' = [mem EXCEPT ![l] = w]
  <2>1. CASE SetRegister
    <3>1. PICK r \in Registers, w \in PlainWords : mem' = [mem EXCEPT ![r] = w]
      BY <2>1 DEF SetRegister
    <3>2. w = TagInt(0) \/ w = EXTERNAL
      BY <3>1, RuntimeAssumption
    <3>3. KnownWord(w)
      BY <3>2, WordsHold DEF WordFacts, KnownWord
    <3> QED BY <3>1, <3>3
  <2>2. CASE LoadField
    <3>1. PICK r \in Registers, b \in Bases :
            \E k \in LoadableFields(UntagPointer(mem[b])) :
              mem' = [mem EXCEPT ![r] = mem[UntagPointer(mem[b]) + k]]
      BY <2>2 DEF LoadField
    <3>2. PICK k \in LoadableFields(UntagPointer(mem[b])) :
            mem' = [mem EXCEPT ![r] = mem[UntagPointer(mem[b]) + k]]
      BY <3>1
    <3>3. PICK w : w = mem[UntagPointer(mem[b]) + k]
      OBVIOUS
    <3>4. /\ b \in Roots /\ IsObject(mem[b])
          /\ k \in 0 .. Size(UntagPointer(mem[b])) - 1
      BY <1>1, BaseField
    <3>5. KnownWord(w)
      BY <3>3, <3>4 DEF KnownWord
    <3> QED BY <3>2, <3>3, <3>5
  <2>3. CASE StoreSpilled \/ LoadSpilled
    <3>1. PICK l \in Registers \cup SpillSlots, s \in Registers \cup SpillSlots :
            mem' = [mem EXCEPT ![l] = mem[s]]
      BY <2>3 DEF StoreSpilled, LoadSpilled
    <3>2. PICK w : w = mem[s]
      OBVIOUS
    <3>3. KnownWord(w)
      BY <3>2, <1>3 DEF KnownWord
    <3> QED BY <3>1, <3>2, <3>3
  <2> QED BY <2>1, <2>2, <2>3
<1>5. PICK l \in Registers \cup SpillSlots :
        \E w : KnownWord(w) /\ mem' = [mem EXCEPT ![l] = w]
  BY <1>4
<1>6. PICK w : KnownWord(w) /\ mem' = [mem EXCEPT ![l] = w]
  BY <1>5
<1>7. l \in Stack \cup {HandleCell} /\ \A i \in 1 .. Len(frames) : frames[i] # l
  BY <1>3
<1> QED BY <1>1, <1>2, <1>6, <1>7, RootWritten

(* The runtime is entered with a pointer in the handle.                     *)
LEMMA HandleStep ==
  ASSUME HeapInvariant, HeapInvariant', CreateFunctionContext \/ CreateFunction
  PROVE  Graph!ProgramStep
<1>1. pc = "program" /\ UNCHANGED <<current, other, frames, identity>>
  BY DEF CreateFunctionContext, CreateFunction, EnterMemoryAllocate
<1>2. PICK b \in {Top} \cup Registers : WithHandle(mem[b])
  BY DEF CreateFunctionContext, CreateFunction, Bases
<1>3. PICK w : w = mem[b]
  OBVIOUS
<1>4. handles' = {HandleCell} /\ mem' = [mem EXCEPT ![HandleCell] = w]
  BY <1>2, <1>3 DEF WithHandle
<1>5. InvHeap
  BY DEF HeapInvariant, Invariant
<1>6. KnownWord(w)
  <2>1. b \in Roots
    BY <1>5, FrameWords, Words
  <2> QED BY <2>1, <1>3 DEF KnownWord
<1>7. \A i \in 1 .. Len(frames) : frames[i] # HandleCell
  BY <1>5, StackFacts
<1> QED BY <1>1, <1>4, <1>6, <1>7, RootWritten

(* A field is assigned to.                                                  *)
LEMMA StoreFieldStep ==
  ASSUME HeapInvariant, HeapInvariant', StoreField
  PROVE  Graph!ProgramStep
<1>1. /\ pc = "program" /\ UNCHANGED <<current, other, handles, frames, identity>>
  BY DEF StoreField, OnlyMemChanges
<1>2. PICK r \in Registers, b \in Bases :
        \E k \in Slots(UntagPointer(mem[b])) :
          mem' = [mem EXCEPT ![UntagPointer(mem[b]) + k] = mem[r]]
  BY DEF StoreField
<1>3. PICK k \in Slots(UntagPointer(mem[b])) :
        mem' = [mem EXCEPT ![UntagPointer(mem[b]) + k] = mem[r]]
  BY <1>2
<1>4. PICK o, l, w : o = UntagPointer(mem[b]) /\ l = o + k /\ w = mem[r]
  OBVIOUS
<1>5. InvHeap /\ handles = {}
  BY <1>1, Idle DEF HeapInvariant, Invariant
<1>6. k \in LoadableFields(o) /\ k \in Slots(o) /\ mem' = [mem EXCEPT ![l] = w]
  BY <1>3, <1>4 DEF LoadableFields
<1>7. /\ b \in Roots /\ IsObject(mem[b]) /\ k \in 0 .. Size(o) - 1
      /\ o \in Objects(current)
  BY <1>1, <1>4, <1>6, BaseField, BaseObject DEF HeapInvariant
<1>8. /\ l \in Bodies(current)
      /\ \A c \in Objects(current) : IsContextObject(c) => l # c + SPILL_COUNT
  BY <1>1, <1>4, <1>6, <1>7, Fields DEF HeapInvariant
<1>9. \A i \in 1 .. Len(frames) : frames[i] # l
  BY <1>5, <1>8, StackFacts, Regions
<1>10. /\ \A a \in Stack \cup Bodies(current) \cup {HandleCell} :
            mem'[a] = IF a = l THEN w ELSE mem[a]
       /\ \A c \in Objects(current) : mem'[c - 1] = mem[c - 1] /\ mem'[c - 2] = mem[c - 2]
       /\ Roots' = Stack \cup handles' /\ Roots = Stack
  BY <1>1, <1>6, <1>8, <1>9, WordWritten
<1>11. KnownWord(w)
  <2>1. r \in Roots
    BY <1>5, FrameWords, Words
  <2> QED BY <2>1, <1>4 DEF KnownWord
<1>12. mem'[o + k] = w /\ KnownWord(mem'[o + k])
  BY <1>4, <1>8, <1>10, <1>11
<1>13. \A a \in Bodies(current) : a # o + k => mem'[a] = mem[a]
  BY <1>4, <1>10
<1>14. ASSUME NEW a \in Roots' PROVE KnownWord(mem'[a])
  <2>1. a \in Roots /\ a \in Stack
    BY <1>1, <1>5, <1>10
  <2>2. mem'[a] = mem[a]
    BY <2>1, <1>5, <1>8, <1>10, StackFacts, Regions
  <2> QED BY <2>1, <2>2 DEF KnownWord
<1> QED BY <1>1, <1>4, <1>7, <1>10, <1>12, <1>13, <1>14, FieldChanges

(* A return: the caller's registers and temporaries are visible again.      *)
LEMMA ReturnStep ==
  ASSUME HeapInvariant, HeapInvariant', Return
  PROVE  Graph!ProgramStep
<1>1. /\ pc = "program" /\ Len(frames) > 1
      /\ frames' = SubSeq(frames, 1, Len(frames) - 1)
      /\ mem' = [a \in Address |-> IF a \in Top .. LastWord(Top) THEN 0 ELSE mem[a]]
      /\ UNCHANGED <<current, other, handles, identity>>
  BY DEF Return
<1>2. InvHeap /\ handles = {} /\ frames \in Seq(Int)
  BY <1>1, Idle DEF HeapInvariant, Invariant, InvHeap, InvTypes
<1>3. PICK n, top, last : n = Len(frames) /\ top = Top /\ last = LastWord(Top)
  OBVIOUS
<1>4. /\ n \in Nat /\ n > 1 /\ top = frames[n] /\ n - 1 \in 1 .. n /\ n \in 1 .. n
      /\ n - 1 < n /\ n - 1 \in 1 .. n - 1
  BY <1>1, <1>2, <1>3, StackFacts DEF Top
<1>5. PICK caller : caller = frames[n - 1]
  OBVIOUS
<1>6. /\ caller \in Int /\ top \in Int /\ StackHigh <= top /\ HandleCell < top
      /\ top \in Stack
      /\ LastWord(caller) \in Int /\ caller < LastWord(caller) /\ LastWord(caller) < top
      /\ LastWord(caller) <= last
  <2>1. /\ caller \in Int /\ caller < LastWord(caller) /\ LastWord(caller) <= LastWord(Top)
        /\ frames[n] \in Int /\ StackHigh <= frames[n] /\ LastWord(caller) \in Int
        /\ frames[n] \in Stack
    BY <1>2, <1>3, <1>4, <1>5, StackFacts
  <2>2. LastWord(frames[n - 1]) < frames[n]
    <3>1. \A i, j \in 1 .. Len(frames) : i < j => LastWord(frames[i]) < frames[j]
      BY <1>2 DEF InvHeap, InvFrames
    <3> QED BY <3>1, <1>3, <1>4
  <2>3. StackHigh = HandleCell + 1 /\ HandleCell \in Int
    BY Places
  <2>4. top \in Int /\ StackHigh <= top /\ top \in Stack
    BY <2>1, <1>4
  <2>5. HandleCell < top
    BY ONLY <2>3, <2>4
  <2>6. LastWord(caller) < top
    BY <2>2, <1>4, <1>5
  <2>7. LastWord(caller) <= last
    BY <2>1, <1>3
  <2> QED BY <2>1, <2>4, <2>5, <2>6, <2>7
<1>7. \A a \in Address : mem'[a] = IF a \in top .. last THEN 0 ELSE mem[a]
  BY <1>1, <1>3
<1>8. \A a \in Address : a < top => mem'[a] = mem[a]
  BY <1>6, <1>7, Places
<1>9. \A a \in Address : mem'[a] = mem[a] \/ mem'[a] = 0
  BY <1>7
<1>10. \A a \in Address : InHeap(a) => a < top
  BY <1>6, Places DEF InHeap
<1>11. \A l \in Bodies(current) : mem'[l] = mem[l]
  <2>1. \A l \in Bodies(current) : InHeap(l) /\ l \in Address
    BY <1>2, Regions, Words
  <2> QED BY <2>1, <1>8, <1>10
<1>12. ASSUME NEW o \in Objects(current)
       PROVE  mem'[o - 1] = mem[o - 1] /\ mem'[o - 2] = mem[o - 2]
  <2>1. /\ InHeap(o - 1) /\ InHeap(o - 2) /\ o - 1 \in Address /\ o - 2 \in Address
    BY <1>2, Regions, Words DEF AllObjects
  <2> QED BY <2>1, <1>8, <1>10
<1>13. Top' = caller
  <2>1. PICK m : m = n - 1
    OBVIOUS
  <2>2. m \in Nat /\ m \in 1 .. m /\ m \in 1 .. n /\ m <= n
    BY ONLY <2>1, <1>4
  <2>3. frames' = SubSeq(frames, 1, m)
    BY <2>1, <1>1, <1>3
  <2>4. Len(frames') = m /\ frames'[m] = frames[m]
    <3>1. m \in 0 .. Len(frames) /\ frames \in Seq(Int)
      BY <2>2, <1>2, <1>3
    <3> QED BY ONLY <2>2, <2>3, <3>1
  <2> QED BY <2>1, <2>4, <1>5 DEF Top
<1>14. LastWord(caller)' = LastWord(caller)
  <2>1. caller \in Address /\ caller < top
    <3>1. caller \in Stack
      BY <1>2, <1>3, <1>4, <1>5, StackFacts
    <3>2. caller \in Address
      BY <3>1, <1>2, StackFacts
    <3>3. caller < top
      BY ONLY <1>6
    <3> QED BY <3>2, <3>3
  <2>2. mem'[caller] = mem[caller]
    BY <2>1, <1>8
  <2>3. PICK c : c = FunctionContext(caller)
    OBVIOUS
  <2>4. c \in Objects(current) /\ c + 1 \in Bodies(current)
    <3>1. IsFrame(caller)
      BY <1>2, <1>3, <1>4, <1>5 DEF InvHeap, InvFrames
    <3>2. c \in Objects(current)
      BY <3>1, <2>3, <1>1, NothingMoved DEF IsFrame
    <3> QED BY <3>2, <1>2, Regions
  <2>5. FunctionContext(caller)' = c
    BY <2>2, <2>3 DEF FunctionContext
  <2>6. mem'[c + SPILL_COUNT] = mem[c + SPILL_COUNT]
    BY <2>4, <1>11 DEF SPILL_COUNT
  <2>7. SpillCount(caller)' = SpillCount(caller)
    BY <2>3, <2>5, <2>6 DEF SpillCount
  <2> QED BY <2>7 DEF LastWord
<1>15. ASSUME NEW l \in Roots' PROVE KnownWord(mem'[l])
  <2>1. l \in StackHigh .. LastWord(caller)
    <3>1. Roots' = StackHigh .. LastWord(Top)'
      BY <1>1, <1>2 DEF Roots
    <3>2. LastWord(Top)' = LastWord(caller)'
      BY <1>13 DEF LastWord, SpillCount, FunctionContext
    <3> QED BY <3>1, <3>2, <1>14
  <2>2. l \in Stack
    <3>1. PICK lower, end : lower = LastWord(caller) /\ end = StackHigh
      OBVIOUS
    <3>2. lower \in Int /\ last \in Int /\ end \in Int /\ lower <= last /\ l \in end .. lower
      BY <3>1, <2>1, <1>2, <1>3, <1>6, Places, StackFacts
    <3>3. l \in end .. last
      BY ONLY <3>2
    <3> QED BY <3>1, <3>3, <1>3 DEF Stack
  <2>3. l \in Roots /\ l \in Address
    BY <2>2, <1>2, Words, StackFacts
  <2>4. CASE mem'[l] = mem[l]
    BY <2>3, <2>4 DEF KnownWord
  <2>5. CASE mem'[l] = 0
    <3>1. ~IsObject(0)
      BY WordsHold DEF WordFacts
    <3> QED BY <2>5, <3>1 DEF KnownWord
  <2> QED BY <2>3, <2>4, <2>5, <1>9
<1> QED BY <1>1, <1>11, <1>12, <1>15, RootsChange

(* A call: the registers and the context of the callee are words the caller *)
(* has, and the prologue writes a number into the context.                  *)
LEMMA CallFunctionStep ==
  ASSUME HeapInvariant, HeapInvariant', CallFunction
  PROVE  Graph!ProgramStep
<1>1. /\ pc = "program" /\ UNCHANGED <<current, other, handles, identity>>
  BY DEF CallFunction
<1>2. /\ InvHeap /\ AllObjects = Objects(current) /\ handles = {}
      /\ \A o \in Objects(current) : Color(o) # COLOR_MOVED
      /\ frames \in Seq(Int)
  <2>1. InvHeap /\ InvIdle /\ InvTypes /\ AllObjects = Objects(current) /\ handles = {}
    BY <1>1, Idle DEF HeapInvariant, Invariant, InvHeap
  <2>2. \A o \in Objects(current) : Color(o) # COLOR_MOVED
    BY <1>1, <2>1 DEF InvIdle, COLOR_WHITE, COLOR_MOVED
  <2> QED BY <2>1, <2>2 DEF InvTypes
<1>3. PICK r \in Registers, n \in SpillCounts, kept \in SUBSET (2 .. PushedRegisters) :
        /\ IsCallable(mem[r])
        /\ LastWord(Top) + 1 + n + PushedRegisters < StackEnd
        /\ frames' = Append(frames, LastWord(Top) + 1)
        /\ mem' = MemoryOfCall(r, n, kept, UntagPointer(mem[r]), LastWord(Top) + 1)
  BY DEF CallFunction, MemoryOfCall
<1>4. PICK context, ebp, last :
        context = UntagPointer(mem[r]) /\ ebp = LastWord(Top) + 1 /\ last = LastWord(Top)
  OBVIOUS
<1>5. /\ IsCallable(mem[r])
      /\ ebp + n + PushedRegisters < StackEnd
      /\ frames' = Append(frames, ebp)
      /\ mem' = MemoryOfCall(r, n, kept, context, ebp)
  BY <1>3, <1>4
<1>6. /\ r \in Stack /\ r \in Roots /\ IsObject(mem[r]) /\ HasPointerTag(mem[r])
      /\ context \in Objects(current) /\ IsContextObject(context)
  <2>1. r \in Stack /\ r \in Roots
    BY <1>2, <1>3, FrameWords, Words
  <2>2. IsObject(mem[r]) /\ identity[context].kind = "context"
    BY <1>4, <1>5 DEF IsCallable
  <2>3. HasPointerTag(mem[r]) /\ context \in AllObjects
    BY <2>2, <1>4, WordsHold DEF WordFacts
  <2> QED BY <2>1, <2>2, <2>3, <1>2 DEF IsContextObject
<1>7. /\ Size(context) \in Int /\ Size(context) >= 2
      /\ context + SPILL_COUNT \in Bodies(current) /\ InHeap(context + SPILL_COUNT)
      /\ context + SPILL_COUNT \in Address
  <2>1. Size(context) \in Int /\ Size(context) >= 2
    BY <1>2, <1>6, ObjectToCopy
  <2>2. context + 1 \in Bodies(current)
    BY <1>2, <1>6, Regions
  <2> QED BY <2>1, <2>2, <1>2, Regions, Words DEF SPILL_COUNT
<1>8. PICK end : end = ebp + n + PushedRegisters
  OBVIOUS
<1>9. /\ n \in 1 .. 100 /\ last \in Int /\ ebp \in Int /\ end \in Int /\ ebp = last + 1
      /\ PushedRegisters \in Nat \ {0} /\ end < StackEnd /\ StackEnd \in Int
      /\ StackHigh \in Int /\ HandleCell \in Int /\ StackHigh < ebp /\ HandleCell < ebp
      /\ ebp < end
  <2>1. n \in 1 .. MaxSpills /\ MaxSpills \in 1 .. 100 /\ PushedRegisters \in Nat \ {0}
    BY <1>3, RuntimeAssumption, Places
  <2>2. /\ last \in Int /\ StackHigh \in Int /\ StackEnd \in Int /\ HandleCell \in Int
        /\ StackHigh = HandleCell + 1
    BY <1>2, <1>4, StackFacts, Places
  <2>3. StackHigh < last
    <3>1. /\ frames[1] = StackHigh /\ 1 \in 1 .. Len(frames)
          /\ frames[1] < LastWord(frames[1]) /\ LastWord(frames[1]) <= LastWord(Top)
          /\ LastWord(frames[1]) \in Int
      BY <1>2, StackFacts
    <3> QED BY <3>1, <2>2, <1>4
  <2>4. ebp = last + 1 /\ end = ebp + n + PushedRegisters /\ end < StackEnd
    BY <1>4, <1>5, <1>8
  <2> QED BY ONLY <2>1, <2>2, <2>3, <2>4
<1>10. \A a : a \in ebp .. end => a \in Address /\ ~InHeap(a)
  BY <1>9, Places DEF InHeap
<1>11. /\ mem'[ebp] = mem[r]
       /\ mem'[context + SPILL_COUNT] = n
       /\ \A a \in Address :
            a \notin ebp .. end /\ a # context + SPILL_COUNT => mem'[a] = mem[a]
  <2>1. ebp \in ebp .. end
    BY <1>9
  <2>2. ebp \in Address /\ context + SPILL_COUNT \in Address /\ context + SPILL_COUNT # ebp
    BY <2>1, <1>7, <1>10
  <2>3. mem'[ebp] = mem[r] /\ mem'[context + SPILL_COUNT] = n
    BY <2>2, <1>5 DEF MemoryOfCall
  <2>4. /\ \A a : a \in ebp + 1 .. ebp + n => a \in ebp .. end
        /\ \A a : a \in ebp + n + 1 .. ebp + n + PushedRegisters => a \in ebp .. end
    BY ONLY <1>8, <1>9
  <2>5. ASSUME NEW a \in Address, a \notin ebp .. end, a # context + SPILL_COUNT
        PROVE  mem'[a] = mem[a]
    BY <1>5, <2>1, <2>4, <2>5 DEF MemoryOfCall
  <2> QED BY <2>3, <2>5
<1>12. ~IsObject(n) /\ ~IsObject(TagInt(0)) /\ ~IsObject(EXTERNAL)
  BY <1>9, WordsHold DEF WordFacts
<1>13. ASSUME NEW a \in ebp + 1 .. end PROVE KnownWord(mem'[a])
  <2>1. a \in Int /\ a # ebp /\ a \in ebp .. end
    BY ONLY <1>9, <1>13
  <2>2. a \in Address /\ a # context + SPILL_COUNT
    BY <2>1, <1>7, <1>10
  <2>3. CASE a \in ebp + 1 .. ebp + n
    <3>1. mem'[a] = TagInt(0)
      BY <1>5, <2>1, <2>2, <2>3 DEF MemoryOfCall
    <3> QED BY <3>1, <1>12 DEF KnownWord
  <2>4. CASE a \notin ebp + 1 .. ebp + n
    <3>1. a \in ebp + n + 1 .. ebp + n + PushedRegisters
      BY ONLY <1>8, <1>9, <1>13, <2>1, <2>4
    <3>2. PICK k : k = a - ebp - n
      OBVIOUS
    <3>3. mem'[a] = IF k \in kept THEN mem[Register(k)] ELSE EXTERNAL
      BY <1>5, <2>1, <2>2, <2>4, <3>1, <3>2 DEF MemoryOfCall
    <3>4. CASE k \in kept
      <4>1. k \in 2 .. PushedRegisters
        BY <3>4
      <4>2. k \in 1 .. PushedRegisters
        BY ONLY <4>1, <1>9
      <4>3. Register(k) \in Roots
        BY <4>2, <1>2, FrameWords, Words DEF Registers
      <4> QED BY <3>3, <3>4, <4>3 DEF KnownWord
    <3>5. CASE k \notin kept
      BY <3>3, <3>5, <1>12 DEF KnownWord
    <3> QED BY <3>4, <3>5
  <2> QED BY <2>3, <2>4
<1>14. \A l \in Bodies(current) : l # context + SPILL_COUNT => mem'[l] = mem[l]
  <2>1. \A l \in Bodies(current) : InHeap(l) /\ l \in Address
    BY <1>2, Regions, Words
  <2> QED BY <2>1, <1>10, <1>11
<1>15. ASSUME NEW o \in Objects(current)
       PROVE  mem'[o - 1] = mem[o - 1] /\ mem'[o - 2] = mem[o - 2]
  <2>1. InHeap(o - 1) /\ InHeap(o - 2) /\ o - 1 \in Address /\ o - 2 \in Address
    BY <1>2, Regions, Words
  <2>2. context + SPILL_COUNT # o - 1 /\ context + SPILL_COUNT # o - 2
    BY <1>2, <1>7, Regions
  <2> QED BY <2>1, <2>2, <1>10, <1>11
<1>16. LastWord(Top)' = end /\ Roots' = StackHigh .. end
  <2>1. Top' = ebp
    <3>1. Len(frames') = Len(frames) + 1 /\ frames'[Len(frames) + 1] = ebp
      BY ONLY <1>2, <1>5, <1>9
    <3> QED BY <3>1 DEF Top
  <2>2. mem'[ebp] = mem[r]
    BY <1>11
  <2>3. FunctionContext(ebp)' = context
    BY <2>2, <1>4 DEF FunctionContext
  <2>4. SpillCount(ebp)' = n
    BY <2>3, <1>11 DEF SpillCount
  <2>5. LastWord(ebp)' = end
    BY <2>4, <1>8 DEF LastWord
  <2>6. LastWord(Top)' = end
    BY <2>1, <2>5 DEF LastWord, SpillCount, FunctionContext
  <2>7. Roots' = (StackHigh .. LastWord(Top)') \cup handles'
    BY DEF Roots
  <2> QED BY <2>6, <2>7, <1>1, <1>2
<1>17. ASSUME NEW l \in Roots' PROVE KnownWord(mem'[l])
  <2>1. l \in StackHigh .. last \/ l = ebp \/ l \in ebp + 1 .. end
    <3>1. l \in StackHigh .. end
      BY <1>16
    <3> QED BY ONLY <3>1, <1>9
  <2>2. CASE l \in StackHigh .. last
    <3>1. l \in Stack
      BY <2>2, <1>4 DEF Stack
    <3>2. l \in Roots /\ l \in Address /\ ~InHeap(l)
      BY <3>1, <1>2, Words, StackFacts
    <3>3. l \notin ebp .. end
      BY ONLY <2>2, <1>9
    <3>4. mem'[l] = mem[l]
      BY <3>2, <3>3, <1>7, <1>11
    <3> QED BY <3>2, <3>4 DEF KnownWord
  <2>3. CASE l = ebp
    BY <2>3, <1>6, <1>11 DEF KnownWord
  <2>4. CASE l \in ebp + 1 .. end
    BY <2>4, <1>13
  <2> QED BY <2>1, <2>2, <2>3, <2>4
<1>18. SPILL_COUNT \in 0 .. Size(context) - 1
  <2>1. PICK size : size = Size(context)
    OBVIOUS
  <2>2. size \in Int /\ size >= 2 /\ SPILL_COUNT = 1
    BY <2>1, <1>7 DEF SPILL_COUNT
  <2> QED BY ONLY <2>1, <2>2
<1>19. KnownWord(mem'[context + SPILL_COUNT])
  BY <1>11, <1>12 DEF KnownWord
<1> QED BY <1>1, <1>4, <1>6, <1>14, <1>15, <1>17, <1>18, <1>19, FieldChanges

(* A word that is there before an allocation stands for what it stood for.  *)
LEMMA AllocationKeepsValues ==
  ASSUME HeapInvariant, other.objects = <<>>, NEW size \in Int, size >= 2,
         current.cursor + size + 2 <= current.chunk + ChunkWords + 1,
         NEW id, identity' = IdentityWithObject(id)
  PROVE  /\ current.cursor + 2 \notin AllObjects
         /\ identity'[current.cursor + 2] = id
         /\ DOMAIN identity' = AllObjects \cup {current.cursor + 2}
         /\ \A o \in AllObjects : identity'[o] = identity[o]
         /\ \A w : PointsTo(w, AllObjects) => Value(w)' = Value(w)
         /\ \A w : w = TagPointer(current.cursor + 2) => Value(w)' = <<"object", id>>
<1>1. PICK object, base : object = current.cursor + 2 /\ base = current.cursor
  OBVIOUS
<1>2. InvHeap /\ base \in Int /\ object \in Int /\ DOMAIN identity = AllObjects
  BY <1>1, Chunks DEF HeapInvariant, Invariant, InvHeap, InvIdentity
<1>3. object \in base .. base + size + 1
  BY ONLY <1>1, <1>2, size \in Int, size >= 2
<1>4. object \notin AllObjects /\ InHeap(object)
  BY <1>1, <1>2, <1>3, BlockAtCursor
<1>5. identity' = [a \in AllObjects \cup {object} |-> IF a = object THEN id ELSE identity[a]]
  BY <1>1, <1>2 DEF IdentityWithObject
<1>6. /\ identity'[object] = id /\ DOMAIN identity' = AllObjects \cup {object}
      /\ \A o \in AllObjects : identity'[o] = identity[o]
  BY <1>4, <1>5
<1>7. ASSUME NEW w, PointsTo(w, AllObjects) PROVE Value(w)' = Value(w)
  <2>1. ~(HasPointerTag(w) /\ UntagPointer(w) = object)
    BY <1>4, <1>7 DEF PointsTo
  <2> QED BY <2>1, <1>2, <1>6 DEF Value, IsObject
<1>8. ASSUME NEW w, w = TagPointer(object) PROVE Value(w)' = <<"object", id>>
  <2>1. HasPointerTag(w) /\ UntagPointer(w) = object
    BY <1>2, <1>8, TagUntag
  <2> QED BY <2>1, <1>6 DEF Value, IsObject
<1> QED BY <1>1, <1>4, <1>6, <1>7, <1>8

(* The program goes on with a new object in one register.                   *)
LEMMA AllocationStep ==
  ASSUME NoTinyObjects, HeapInvariant, HeapInvariant', AllocationSucceeds
  PROVE  Graph!Allocate
<1>1. PICK size, fields, id, r : AllocationOf(size, fields, id, r)
  BY AllocationInputs DEF HeapInvariant
<1>2. /\ pc = "allocate" /\ InvHeap /\ other.objects = <<>> /\ Objects(other) = {}
      /\ Live = Objects(current) /\ AllObjects = Objects(current) /\ Bodies(other) = {}
      /\ \A o \in Objects(current) : Color(o) # COLOR_MOVED
  <2>1. pc = "allocate"
    BY DEF AllocationSucceeds
  <2>2. /\ other.objects = <<>> /\ Objects(other) = {}
        /\ Live = Objects(current) /\ AllObjects = Objects(current) /\ Bodies(other) = {}
    BY <2>1, NothingMoved
  <2>3. \A o \in Objects(current) : Color(o) # COLOR_MOVED
    BY <2>1 DEF HeapInvariant, Invariant, InvIdle, COLOR_WHITE, COLOR_MOVED
  <2> QED BY <2>1, <2>2, <2>3 DEF HeapInvariant, Invariant
<1>3. /\ size \in Int /\ size >= 2
      /\ current.cursor + size + 2 <= current.chunk + ChunkWords + 1
      /\ fields \in [0 .. size - 1 -> Int]
      /\ r \in Stack /\ \A i \in 1 .. Len(frames) : frames[i] # r
      /\ \A j \in 0 .. size - 1 :
           /\ PointsTo(fields[j], Objects(current))
           /\ fields[j] = 0 \/ (HandleCell \in Roots /\ fields[j] = mem[HandleCell])
      /\ id = NewIdentity(request.op)
      /\ mem' = MemoryWithResult(size, fields, r)
      /\ ReserveAtCursor(size) /\ identity' = IdentityWithObject(id)
      /\ other' = other /\ frames' = frames /\ handles' = {}
  BY <1>1 DEF AllocationOf
<1>4. PICK object : object = current.cursor + 2
  OBVIOUS
<1>5. /\ object \notin AllObjects /\ identity'[object] = id
      /\ DOMAIN identity' = AllObjects \cup {object}
      /\ \A o \in AllObjects : identity'[o] = identity[o]
      /\ \A w : PointsTo(w, AllObjects) => Value(w)' = Value(w)
      /\ \A w : w = TagPointer(object) => Value(w)' = <<"object", id>>
  BY <1>2, <1>3, <1>4, AllocationKeepsValues
<1>6. /\ mem'[r] = TagPointer(object)
      /\ \A l \in Bodies(current) \cup Stack : l # r => mem'[l] = mem[l]
      /\ \A x \in AllObjects : mem'[x - 1] = mem[x - 1] /\ mem'[x - 2] = mem[x - 2]
      /\ mem'[object - 1] = COLOR_WHITE /\ mem'[object - 2] = size
      /\ \A j \in 0 .. size - 1 : mem'[object + j] = fields[j]
  <2>1. /\ mem'[r] = TagPointer(current.cursor + 2)
        /\ \A l \in Bodies(current) \cup Stack : l # r => mem'[l] = mem[l]
        /\ \A x \in AllObjects : mem'[x - 1] = mem[x - 1] /\ mem'[x - 2] = mem[x - 2]
        /\ mem'[current.cursor + 1] = COLOR_WHITE /\ mem'[current.cursor] = size
        /\ \A j \in 0 .. size - 1 : mem'[current.cursor + 2 + j] = fields[j]
    BY <1>2, <1>3, AllocatedMemory
  <2>2. object - 1 = current.cursor + 1 /\ object - 2 = current.cursor
    BY <1>2, <1>4, Chunks
  <2> QED BY <2>1, <2>2, <1>4
<1>7. Objects(current)' = Objects(current) \cup {object} /\ Objects(other)' = {}
  <2>1. current.objects \in Seq(Int)
    BY <1>2, Chunks DEF Space
  <2>2. current'.objects = Append(current.objects, object)
    BY <1>3, <1>4 DEF ReserveAtCursor
  <2>3. Objects(current)' = Objects(current) \cup {object}
    BY <2>1, <2>2 DEF Objects
  <2>4. Objects(other)' = Objects(other)
    BY <1>3 DEF Objects
  <2> QED BY <2>3, <2>4, <1>2
<1>8. /\ \A o \in Objects(current) : Color(o)' = Color(o) /\ Size(o)' = Size(o)
      /\ Color(object)' = COLOR_WHITE /\ Size(object)' = size
  BY <1>2, <1>6 DEF Color, Size
<1>9. Live' = Objects(current) \cup {object}
  BY <1>2, <1>7, <1>8 DEF Live, COLOR_WHITE, COLOR_MOVED
<1>10. GraphFacts /\ GraphFacts' /\ FieldFacts /\ FieldFacts' /\ WordFacts
  BY GraphHolds, FieldsHold, WordsHold, NextFacts
<1>11. id \notin Identities /\ Identities' = Identities \cup {id}
  <2>1. id \notin Identities
    BY <1>2, <1>3, FreshIdentity DEF HeapInvariant
  <2>2. DOMAIN identity = AllObjects
    BY <1>10 DEF WordFacts
  <2>3. Identities' = Identities \cup {id}
    BY <2>2, <1>5 DEF Identities
  <2> QED BY <2>1, <2>3
<1>12. ASSUME NEW a \in Objects(current), NEW i, i = identity[a]
       PROVE  GraphObjects'[i] = GraphObjects[i]
  <2>1. PICK old : old = Size(a)
    OBVIOUS
  <2>2. /\ DOMAIN GraphObjects[i] = 0 .. old - 1
        /\ \A k \in 0 .. old - 1 : GraphObjects[i][k] = Value(mem[a + k])
        /\ IsFunction(GraphObjects[i])
    BY <2>1, <1>2, <1>10, <1>12 DEF FieldFacts
  <2>3. a \in Live' /\ identity'[a] = i /\ Size(a)' = old
    BY <2>1, <1>2, <1>5, <1>8, <1>9, <1>12
  <2>4. /\ DOMAIN GraphObjects'[i] = 0 .. old - 1
        /\ \A k \in 0 .. old - 1 : GraphObjects'[i][k] = Value(mem[a + k])'
        /\ IsFunction(GraphObjects'[i])
    BY <2>3, <1>10 DEF FieldFacts, IsFunction
  <2>5. ASSUME NEW k \in 0 .. old - 1 PROVE Value(mem[a + k])' = Value(mem[a + k])
    <3>1. a + k \in Bodies(current)
      BY <2>1, <1>2, BodiesHold DEF BodyFacts
    <3>2. PICK w : w = mem[a + k]
      OBVIOUS
    <3>3. mem'[a + k] = w
      <4>1. InHeap(a + k) /\ ~InHeap(r)
        BY <3>1, <1>2, <1>3, Regions, StackFacts
      <4>2. a + k # r
        BY <4>1
      <4> QED BY <3>1, <3>2, <4>2, <1>6
    <3>4. PointsTo(w, AllObjects)
      BY <3>1, <3>2, <1>2 DEF InvHeap, InvWords
    <3>5. Value(mem[a + k])' = Value(w)'
      BY <3>3 DEF Value, IsObject
    <3> QED BY <3>2, <3>4, <3>5, <1>5
  <2>6. PICK now, next : now = GraphObjects[i] /\ next = GraphObjects'[i]
    OBVIOUS
  <2>7. /\ IsFunction(now) /\ IsFunction(next) /\ DOMAIN next = DOMAIN now
        /\ \A k \in DOMAIN now : next[k] = now[k]
    BY <2>2, <2>4, <2>5, <2>6
  <2>8. next = now
    BY ONLY <2>7, SameFunction
  <2> QED BY <2>6, <2>8
<1>13. ASSUME NEW k \in DOMAIN GraphObjects'[id] PROVE Graph!Known(GraphObjects'[id][k])
  <2>1. /\ DOMAIN GraphObjects'[id] = 0 .. size - 1
        /\ \A j \in 0 .. size - 1 : GraphObjects'[id][j] = Value(mem[object + j])'
    BY <1>5, <1>8, <1>9, <1>10 DEF FieldFacts
  <2>2. k \in 0 .. size - 1 /\ GraphObjects'[id][k] = Value(mem[object + k])'
    BY <2>1, <1>13
  <2>3. PICK w : w = fields[k]
    OBVIOUS
  <2>4. Value(mem[object + k])' = Value(w)'
    <3>1. mem'[object + k] = w
      BY <2>2, <2>3, <1>6
    <3> QED BY <3>1 DEF Value, IsObject
  <2>5. Value(w)' = Value(w)
    BY <2>2, <2>3, <1>2, <1>3, <1>5
  <2>6. KnownWord(w)
    <3>1. ~IsObject(0)
      BY <1>10 DEF WordFacts
    <3> QED BY <3>1, <2>2, <2>3, <1>3 DEF KnownWord
  <2>7. Graph!Known(Value(w))
    BY <2>6, <1>2, KnownWords
  <2> QED BY <2>2, <2>4, <2>5, <2>7
<1>14. Roots' = Stack
  <2>1. mem'[Top] = mem[Top]
    <3>1. Top \in Stack /\ Top # r
      BY <1>2, <1>3, StackFacts DEF Top
    <3> QED BY <3>1, <1>6
  <2>2. PICK c : c = FunctionContext(Top)
    OBVIOUS
  <2>3. c \in Objects(current)
    <3>1. IsFrame(Top)
      BY <1>2, StackFacts DEF InvHeap, InvFrames, Top
    <3> QED BY <3>1, <2>2, <1>2 DEF IsFrame
  <2>4. c + 1 \in Bodies(current) /\ c + 1 # r
    <3>1. c + 1 \in Bodies(current) /\ InHeap(c + 1) /\ ~InHeap(r)
      BY <2>3, <1>2, <1>3, Regions, StackFacts
    <3> QED BY <3>1
  <2>5. mem'[c + SPILL_COUNT] = mem[c + SPILL_COUNT]
    BY <2>4, <1>6 DEF SPILL_COUNT
  <2>6. Roots' = Stack \cup handles'
    BY <2>1, <2>2, <2>5, <1>3, FrameKept
  <2> QED BY <2>6, <1>3
<1>15. ASSUME NEW l \in DOMAIN GraphRoots'
       PROVE  Graph!Known(GraphRoots'[l]) \/ GraphRoots'[l] = <<"object", id>>
  <2>1. l \in Stack /\ l \in Roots /\ GraphRoots'[l] = Value(mem[l])'
    BY <1>2, <1>10, <1>14, <1>15, Words DEF GraphFacts
  <2>2. CASE l = r
    <3>1. PICK w : w = TagPointer(object)
      OBVIOUS
    <3>2. Value(mem[l])' = Value(w)'
      BY <3>1, <2>2, <1>6 DEF Value, IsObject
    <3> QED BY <3>1, <3>2, <2>1, <1>5
  <2>3. CASE l # r
    <3>1. PICK w : w = mem[l]
      OBVIOUS
    <3>2. Value(mem[l])' = Value(w)'
      <4>1. mem'[l] = w
        BY <3>1, <2>1, <2>3, <1>6
      <4> QED BY <4>1 DEF Value, IsObject
    <3>3. PointsTo(w, AllObjects)
      BY <3>1, <2>1, <1>2 DEF InvHeap, InvWords
    <3>4. Graph!Known(Value(w))
      <4>1. KnownWord(w)
        BY <3>1, <2>1 DEF KnownWord
      <4> QED BY <4>1, <1>2, KnownWords
    <3> QED BY <3>2, <3>3, <3>4, <2>1, <1>5
  <2> QED BY <2>2, <2>3
<1>16. /\ id \in DOMAIN GraphObjects' \ DOMAIN GraphObjects
       /\ DOMAIN GraphObjects' = DOMAIN GraphObjects \cup {id}
  BY <1>10, <1>11 DEF GraphFacts
<1>17. \A j \in DOMAIN GraphObjects : GraphObjects'[j] = GraphObjects[j]
  <2> TAKE j \in DOMAIN GraphObjects
  <2>1. PICK a \in Objects(current) : identity[a] = j
    BY <1>2, <1>10 DEF GraphFacts
  <2> QED BY <2>1, <1>12
<1> QED BY <1>13, <1>15, <1>16, <1>17 DEF Graph!Allocate

-----------------------------------------------------------------------------
(* The objects that the roots reach.                                        *)

(* They are a closed set of objects.                                        *)
LEMMA ReachableClosed ==
  /\ Graph!Reachable \subseteq DOMAIN GraphObjects
  /\ Graph!HeldObjects \subseteq Graph!Reachable
  /\ \A i \in Graph!Reachable : Graph!Successors(i) \subseteq Graph!Reachable
<1>1. Graph!Reachable \subseteq DOMAIN GraphObjects
  BY DEF Graph!Reachable
<1>2. Graph!HeldObjects \subseteq Graph!Reachable
  BY DEF Graph!Reachable, Graph!Closed, Graph!HeldObjects
<1>3. ASSUME NEW i \in Graph!Reachable, NEW j \in Graph!Successors(i)
      PROVE  j \in Graph!Reachable
  <2>1. j \in DOMAIN GraphObjects
    BY <1>3 DEF Graph!Successors
  <2>2. ASSUME NEW S \in SUBSET DOMAIN GraphObjects, Graph!Closed(S) PROVE j \in S
    <3>1. i \in S
      BY <2>2, <1>3 DEF Graph!Reachable
    <3> QED BY <3>1, <2>2, <1>3 DEF Graph!Closed
  <2> QED BY <2>1, <2>2 DEF Graph!Reachable
<1> QED BY <1>1, <1>2, <1>3

(* They are the least such set.                                             *)
LEMMA ReachableLeast ==
  ASSUME NEW S \in SUBSET DOMAIN GraphObjects, Graph!Closed(S)
  PROVE  Graph!Reachable \subseteq S
BY DEF Graph!Reachable

(* They depend on the graph only.                                           *)
LEMMA ReachableSame ==
  ASSUME GraphObjects' = GraphObjects, GraphRoots' = GraphRoots
  PROVE  Graph!Reachable' = Graph!Reachable
<1>1. \A S : Graph!Closed(S)' <=> Graph!Closed(S)
  BY DEF Graph!Closed, Graph!HeldObjects, Graph!Held, Graph!Successors
<1> QED BY <1>1 DEF Graph!Reachable

(* After a collection they are all the objects there are.                   *)
LEMMA AllReachable ==
  ASSUME Graph!Collect
  PROVE  Graph!Reachable' = DOMAIN GraphObjects'
<1>1. PICK R : R = Graph!Reachable
  OBVIOUS
<1>2. GraphObjects' = [i \in R |-> GraphObjects[i]] /\ GraphRoots' = GraphRoots
  BY <1>1 DEF Graph!Collect
<1>3. /\ R \subseteq DOMAIN GraphObjects /\ Graph!HeldObjects \subseteq R
      /\ \A i \in R : Graph!Successors(i) \subseteq R
  BY <1>1, ReachableClosed
<1>4. DOMAIN GraphObjects' = R /\ \A i \in R : GraphObjects'[i] = GraphObjects[i]
  BY <1>2
<1>5. ASSUME NEW S \in SUBSET R, Graph!Closed(S)' PROVE S = R
  <2>1. Graph!HeldObjects' = Graph!HeldObjects
    <3>1. Graph!Held' = Graph!Held
      BY <1>2 DEF Graph!Held
    <3>2. \A i : i \in Graph!HeldObjects' <=> i \in R /\ <<"object", i>> \in Graph!Held
      BY <3>1, <1>4 DEF Graph!HeldObjects
    <3>3. \A i : i \in Graph!HeldObjects <=> i \in DOMAIN GraphObjects /\ <<"object", i>> \in Graph!Held
      BY DEF Graph!HeldObjects
    <3> QED BY <3>2, <3>3, <1>3
  <2>2. \A i \in S : Graph!Successors(i)' = Graph!Successors(i)
    <3> TAKE i \in S
    <3>1. \A j : j \in Graph!Successors(i)' <=>
                   j \in R /\ \E k \in DOMAIN GraphObjects[i] : GraphObjects[i][k] = <<"object", j>>
      BY <1>4 DEF Graph!Successors
    <3>2. \A j : j \in Graph!Successors(i) <=>
                   /\ j \in DOMAIN GraphObjects
                   /\ \E k \in DOMAIN GraphObjects[i] : GraphObjects[i][k] = <<"object", j>>
      BY DEF Graph!Successors
    <3> QED BY <3>1, <3>2, <1>3
  <2>3. Graph!HeldObjects \subseteq S /\ \A i \in S : Graph!Successors(i) \subseteq S
    BY <2>1, <2>2, <1>5 DEF Graph!Closed
  <2>4. Graph!Closed(S) /\ S \in SUBSET DOMAIN GraphObjects
    BY <2>3, <1>3 DEF Graph!Closed
  <2> QED BY <2>4, <1>1, ReachableLeast
<1>6. Graph!Reachable' = {i \in R : \A S \in SUBSET R : Graph!Closed(S)' => i \in S}
  BY <1>4 DEF Graph!Reachable
<1>7. \A i \in R : \A S \in SUBSET R : Graph!Closed(S)' => i \in S
  BY <1>5
<1> QED BY <1>4, <1>6, <1>7

(* The word that a pointer to an object is, in a field of a reachable one.  *)
LEMMA FieldReachable ==
  ASSUME HeapInvariant, NEW a \in Live, identity[a] \in Graph!Reachable,
         NEW k \in 0 .. Size(a) - 1, IsObject(mem[a + k])
  PROVE  identity[UntagPointer(mem[a + k])] \in Graph!Reachable
<1>1. PICK w : w = mem[a + k]
  OBVIOUS
<1>2. PICK i, j : i = identity[a] /\ j = identity[UntagPointer(w)]
  OBVIOUS
<1>3. k \in DOMAIN GraphObjects[i] /\ GraphObjects[i][k] = Value(w)
  BY <1>1, <1>2, FieldsHold DEF FieldFacts
<1>4. Value(w) = <<"object", j>> /\ j \in DOMAIN GraphObjects
  BY <1>1, <1>2, GraphHolds DEF GraphFacts, Value, IsObject, Identities
<1>5. j \in Graph!Successors(i)
  BY <1>3, <1>4 DEF Graph!Successors
<1> QED BY <1>1, <1>2, <1>5, ReachableClosed

(* What is copied is reachable: the location on the stack of pointers is a  *)
(* root or a field of what has been copied before.                          *)
LEMMA MoveReachable ==
  ASSUME HeapInvariant, HeapInvariant', CopiesReachable, MoveObject
  PROVE  CopiesReachable'
<1>1. Tracing /\ IsInCurrentChunk(INT_SIZE * Pointer)
  BY DEF MoveObject
<1>2. PICK l, o, copy : l = Location /\ o = Pointer /\ copy = other.cursor + 2
  OBVIOUS
<1>3. /\ o \in Objects(current) /\ l \in Roots \cup Bodies(other)
      /\ HasPointerTag(mem[l]) /\ UntagPointer(mem[l]) = o
      /\ FindObject(Pointer) = [found |-> TRUE, object |-> o, offset |-> 0]
  BY <1>1, <1>2, TopPointer DEF HeapInvariant
<1>4. PICK f : f = FindObject(Pointer)
  OBVIOUS
<1>5. f.object = o
  BY <1>3, <1>4
<1>6. /\ other' = [chunk |-> other.chunk, cursor |-> other.cursor + Size(o) + 2,
                   objects |-> Append(other.objects, copy)]
      /\ identity' = [a \in DOMAIN identity \cup {copy} |->
                        IF a = copy THEN identity[o] ELSE identity[a]]
  BY <1>2, <1>4, <1>5 DEF MoveObject
<1>7. other.objects \in Seq(Int) /\ DOMAIN identity = AllObjects
  BY Chunks DEF HeapInvariant, Invariant, Space, InvHeap, InvIdentity
<1>8. Objects(other)' = Objects(other) \cup {copy}
  BY <1>6, <1>7 DEF Objects
<1>9. IsObject(mem[l])
  BY <1>3, WordsHold DEF WordFacts, AllObjects
<1>10. identity[o] \in Graph!Reachable
  <2>1. CASE l \in Roots
    BY <2>1, <1>3, <1>9, HeldObject, ReachableClosed
  <2>2. CASE l \in Bodies(other)
    <3>1. PICK c \in Objects(other) : \E k \in 0 .. Size(c) - 1 : l = c + k
      BY <2>2, BodiesHold DEF BodyFacts
    <3>2. PICK k \in 0 .. Size(c) - 1 : l = c + k
      BY <3>1
    <3>3. c \in Live /\ identity[c] \in Graph!Reachable /\ IsObject(mem[c + k])
      BY <3>2, <1>9 DEF Live, CopiesReachable
    <3>4. identity[UntagPointer(mem[c + k])] \in Graph!Reachable
      BY <3>3, FieldReachable
    <3> QED BY <3>2, <3>4, <1>3
  <2> QED BY <2>1, <2>2, <1>3
<1>11. Graph!Reachable' = Graph!Reachable
  BY MoveObjectInvisible, ReachableSame
<1>12. ASSUME NEW c \in Objects(other)' PROVE identity'[c] \in Graph!Reachable
  <2>1. CASE c = copy
    BY <2>1, <1>6, <1>10
  <2>2. CASE c # copy
    <3>1. c \in Objects(other) /\ c \in AllObjects
      BY <2>2, <1>8 DEF AllObjects
    <3>2. identity'[c] = identity[c]
      BY <3>1, <2>2, <1>6, <1>7
    <3> QED BY <3>1, <3>2 DEF CopiesReachable
  <2> QED BY <2>1, <2>2
<1> QED BY <1>11, <1>12 DEF CopiesReachable

(* The end of a collection: the copies are the reachable objects, with the  *)
(* fields they had.                                                         *)
LEMMA CollectStep ==
  ASSUME HeapInvariant, HeapInvariant', CopiesReachable, FinishGC
  PROVE  Graph!Collect
<1>1. pc = "trace" /\ ptrs = <<>> /\ SwapChunks(pc')
  BY DEF FinishGC, SwapChunks
<1>2. /\ \A o \in Objects(other) : Color(o)' # COLOR_MOVED
      /\ Objects(current)' = Objects(other) /\ Objects(other)' = {} /\ Roots' = Roots
      /\ DOMAIN identity' = Objects(other)
      /\ \A o \in Objects(other) : identity'[o] = identity[o] /\ Size(o)' = Size(o)
      /\ \A l \in Roots \cup Bodies(other) :
           mem'[l] = mem[l] /\ PointsTo(mem[l], Objects(other))
  <2>1. \A l \in Roots \cup Bodies(other) : ~Outstanding(l)
    BY <1>1, NothingOutstanding DEF HeapInvariant
  <2>2. /\ \A o \in Objects(current)' : Color(o)' = COLOR_WHITE
        /\ Objects(current)' = Objects(other) /\ Objects(other)' = {} /\ Roots' = Roots
        /\ DOMAIN identity' = Objects(other)
        /\ \A o \in Objects(other) : identity'[o] = identity[o] /\ Size(o)' = Size(o)
        /\ \A l \in Roots \cup Bodies(other) :
             mem'[l] = mem[l] /\ PointsTo(mem[l], Objects(other))
    BY <1>1, <2>1, Swapping DEF HeapInvariant, Invariant
  <2>3. \A o \in Objects(other) : Color(o)' # COLOR_MOVED
    BY <2>2 DEF COLOR_WHITE, COLOR_MOVED
  <2> QED BY <2>2, <2>3
<1>3. Live' = Objects(other) /\ Objects(other) \subseteq Live
  BY <1>2 DEF Live
<1>4. GraphFacts /\ GraphFacts' /\ FieldFacts /\ FieldFacts' /\ WordFacts
  BY GraphHolds, FieldsHold, WordsHold, NextFacts
<1>5. PICK I : I = {identity[c] : c \in Objects(other)}
  OBVIOUS
<1>6. DOMAIN GraphObjects' = I
  <2>1. Identities' = I
    BY <1>2, <1>5 DEF Identities
  <2> QED BY <2>1, <1>4 DEF GraphFacts
<1>7. ASSUME NEW l \in Roots \cup Bodies(other), IsObject(mem[l])
      PROVE  UntagPointer(mem[l]) \in Objects(other) /\ identity[UntagPointer(mem[l])] \in I
  <2>1. HasPointerTag(mem[l]) /\ InHeap(UntagPointer(mem[l]))
    BY <1>4, <1>7 DEF WordFacts
  <2> QED BY <2>1, <1>2, <1>5 DEF PointsTo
<1>8. ASSUME NEW w, NEW i, Value(w) = <<"object", i>>
      PROVE  IsObject(w) /\ i = identity[UntagPointer(w)]
  BY <1>8 DEF Value
<1>9. Graph!Closed(I)
  <2>1. ASSUME NEW i \in Graph!HeldObjects PROVE i \in I
    <3>1. PICK l \in DOMAIN GraphRoots : GraphRoots[l] = <<"object", i>>
      BY <2>1 DEF Graph!HeldObjects, Graph!Held
    <3>2. l \in Roots /\ Value(mem[l]) = <<"object", i>>
      BY <3>1, <1>4 DEF GraphFacts
    <3> QED BY <3>2, <1>7, <1>8
  <2>2. ASSUME NEW i \in I, NEW j \in Graph!Successors(i) PROVE j \in I
    <3>1. PICK c \in Objects(other) : i = identity[c]
      BY <1>5
    <3>2. PICK k \in DOMAIN GraphObjects[i] : GraphObjects[i][k] = <<"object", j>>
      BY <2>2 DEF Graph!Successors
    <3>3. k \in 0 .. Size(c) - 1 /\ GraphObjects[i][k] = Value(mem[c + k])
      BY <3>1, <3>2, <1>3, <1>4 DEF FieldFacts
    <3>4. c + k \in Bodies(other)
      BY <3>3, BodiesHold DEF BodyFacts
    <3> QED BY <3>2, <3>3, <3>4, <1>7, <1>8
  <2> QED BY <2>1, <2>2 DEF Graph!Closed
<1>10. I \subseteq DOMAIN GraphObjects
  BY <1>3, <1>4, <1>5 DEF GraphFacts
<1>11. Graph!Reachable = I
  <2>1. I \subseteq Graph!Reachable
    BY <1>5 DEF CopiesReachable
  <2> QED BY <2>1, <1>9, <1>10, ReachableLeast
<1>12. ASSUME NEW l \in Roots \cup Bodies(other)
       PROVE  Value(mem[l])' = Value(mem[l])
  <2>1. PICK w : w = mem[l]
    OBVIOUS
  <2>2. mem'[l] = w /\ PointsTo(w, Objects(other))
    BY <2>1, <1>2
  <2>3. Value(mem[l])' = Value(w)'
    BY <2>2 DEF Value, IsObject
  <2>4. IsObject(w)' <=> IsObject(w)
    <3>1. IsObject(w)' <=> HasPointerTag(w) /\ UntagPointer(w) \in Objects(other)
      BY <1>2 DEF IsObject
    <3>2. IsObject(w) => UntagPointer(w) \in Objects(other) /\ HasPointerTag(w)
      BY <2>1, <1>7 DEF IsObject
    <3>3. UntagPointer(w) \in Objects(other) => UntagPointer(w) \in AllObjects
      BY DEF AllObjects
    <3> QED BY <3>1, <3>2, <3>3, <1>4 DEF WordFacts
  <2>5. IsObject(w) => identity'[UntagPointer(w)] = identity[UntagPointer(w)]
    BY <2>1, <1>2, <1>7
  <2>6. Value(w)' = Value(w)
    BY <2>4, <2>5 DEF Value
  <2> QED BY <2>1, <2>3, <2>6
<1>13. ASSUME NEW i \in I PROVE GraphObjects'[i] = GraphObjects[i]
  <2>1. PICK c \in Objects(other) : i = identity[c]
    BY <1>5
  <2>2. PICK size : size = Size(c)
    OBVIOUS
  <2>3. /\ DOMAIN GraphObjects[i] = 0 .. size - 1
        /\ \A k \in 0 .. size - 1 : GraphObjects[i][k] = Value(mem[c + k])
        /\ IsFunction(GraphObjects[i])
    BY <2>1, <2>2, <1>3, <1>4 DEF FieldFacts
  <2>4. c \in Live' /\ identity'[c] = i /\ Size(c)' = size
    BY <2>1, <2>2, <1>2, <1>3
  <2>5. /\ DOMAIN GraphObjects'[i] = 0 .. size - 1
        /\ \A k \in 0 .. size - 1 : GraphObjects'[i][k] = Value(mem[c + k])'
        /\ IsFunction(GraphObjects'[i])
    BY <2>4, <1>4 DEF FieldFacts, IsFunction
  <2>6. \A k \in 0 .. size - 1 : Value(mem[c + k])' = Value(mem[c + k])
    <3> TAKE k \in 0 .. size - 1
    <3>1. c + k \in Bodies(other)
      BY <2>2, BodiesHold DEF BodyFacts
    <3> QED BY <3>1, <1>12
  <2>7. PICK now, next : now = GraphObjects[i] /\ next = GraphObjects'[i]
    OBVIOUS
  <2>8. /\ IsFunction(now) /\ IsFunction(next) /\ DOMAIN next = DOMAIN now
        /\ \A k \in DOMAIN now : next[k] = now[k]
    BY <2>3, <2>5, <2>6, <2>7
  <2>9. next = now
    BY ONLY <2>8, SameFunction
  <2> QED BY <2>7, <2>9
<1>14. GraphObjects' = [i \in I |-> GraphObjects[i]]
  <2>1. GraphObjects' = [i \in DOMAIN GraphObjects' |-> GraphObjects'[i]]
    BY DEF GraphObjects
  <2> QED BY <2>1, <1>6, <1>13
<1>15. GraphRoots' = GraphRoots
  <2>1. GraphRoots = [l \in Roots |-> Value(mem[l])]
    BY DEF GraphRoots
  <2>2. GraphRoots' = [l \in Roots' |-> Value(mem[l])']
    BY DEF GraphRoots
  <2> QED BY <2>1, <2>2, <1>2, <1>12
<1> QED BY <1>11, <1>14, <1>15 DEF Graph!Collect

-----------------------------------------------------------------------------
(* Every step.                                                              *)

(* What is copied stays reachable as long as the collection goes on.        *)
LEMMA CopiesStayReachable ==
  ASSUME HeapInvariant, HeapInvariant', CopiesReachable, [Next]_vars
  PROVE  CopiesReachable'
<1>1. CASE pc' \notin {"trace", "scan"}
  <2>1. other'.objects = <<>>
    BY <1>1 DEF HeapInvariant, Invariant, InvIdle
  <2>2. Objects(other)' = {}
    BY <2>1 DEF Objects
  <2> QED BY <2>2 DEF CopiesReachable
<1>2. CASE pc' \in {"trace", "scan"}
  <2>1. CASE MoveObject
    BY <2>1, MoveReachable
  <2>2. CASE GCStep /\ ~MoveObject
    <3>1. other' = other /\ identity' = identity
      BY <2>2 DEF GCStep, WalkWord, RootsFromHandles, SkipPointer, ForwardPointer, ScanWord, ScanDone
    <3>2. Objects(other)' = Objects(other)
      BY <3>1 DEF Objects
    <3>3. Graph!Reachable' = Graph!Reachable
      BY <2>2, CollectorInvisible, ReachableSame
    <3> QED BY <3>1, <3>2, <3>3 DEF CopiesReachable
  <2>3. CASE UNCHANGED vars
    <3>1. UNCHANGED <<mem, current, other, handles, frames, identity>>
      BY <2>3 DEF vars
    <3>2. Graph!Reachable' = Graph!Reachable
      BY <3>1, UnchangedGraph, ReachableSame
    <3>3. Objects(other)' = Objects(other)
      BY <3>1 DEF Objects
    <3> QED BY <3>1, <3>2, <3>3 DEF CopiesReachable
  <2>4. CASE ProgramStep \/ AllocationSucceeds \/ AllocationFails \/ FinishGC
    <3>1. pc' \notin {"trace", "scan"}
      <4>1. CASE ProgramStep
        BY <4>1 DEF ProgramStep, SetRegister, LoadField, StoreField, StoreSpilled, LoadSpilled,
                    CallFunction, Return, CreateFunctionContext, CreateFunction, NewArray, TestDoGC,
                    OnlyMemChanges, EnterMemoryAllocate, StartGC
      <4>2. CASE AllocationSucceeds
        BY <4>2 DEF AllocationSucceeds
      <4>3. CASE AllocationFails
        BY <4>3 DEF AllocationFails, StartGC
      <4>4. CASE FinishGC
        BY <4>4 DEF FinishGC, SwapChunks, AfterGC
      <4> QED BY <2>4, <4>1, <4>2, <4>3, <4>4
    <3> QED BY <3>1, <1>2
  <2> QED BY <2>1, <2>2, <2>3, <2>4 DEF Next, RuntimeStep
<1> QED BY <1>1, <1>2

(* The heap begins with main's context, to which main's frame points.       *)
LEMMA InitStep == Init => Graph!Init
<1> SUFFICES ASSUME Init PROVE Graph!Init
  OBVIOUS
<1>1. PICK n \in SpillCounts :
        mem = [a \in Address |->
                IF a = MainContext - 2 THEN ContextWords
                ELSE IF a = MainContext - 1 THEN COLOR_WHITE
                ELSE IF a = MainContext + SPILL_COUNT THEN n
                ELSE IF a \in MainContext .. MainContext + ContextWords - 1 THEN 0
                ELSE IF a \in FirstChunk .. ChunkEnd(FirstChunk) - 1 THEN ZAP_WORD
                ELSE IF a = StackHigh THEN TagPointer(MainContext)
                ELSE 0]
  BY DEF Init
<1>2. /\ current.objects = <<MainContext>> /\ pc = "program"
      /\ identity = [a \in {MainContext} |-> [kind |-> "main", n |-> 1]]
  BY DEF Init
<1>3. HeapInvariant /\ InvHeap
  BY InitInvariant, InitIdentities DEF HeapInvariant, Invariant
<1>4. /\ n \in 0 .. 100 /\ ContextWords \in Int /\ 2 <= ContextWords
      /\ ContextWords < ChunkWords /\ MainContext = 34 /\ ChunkWords \in Nat
  BY RuntimeAssumption, MainContextFits, Places DEF ContextWords, HEADER_WORDS, MainContext
<1>5. \A a \in Address : a \in MainContext .. MainContext + ContextWords - 1 => mem[a] \in {0, n}
  <2>1. \A a \in MainContext .. MainContext + ContextWords - 1 :
          a # MainContext - 2 /\ a # MainContext - 1
    BY ONLY <1>4
  <2> QED BY <2>1, <1>1
<1>6. \A a \in Address : HandleCell < a => mem[a] \in {0, TagPointer(MainContext)}
  <2>1. ASSUME NEW a \in Address, HandleCell < a
        PROVE  /\ a # MainContext - 2 /\ a # MainContext - 1 /\ a # MainContext + SPILL_COUNT
               /\ a \notin MainContext .. MainContext + ContextWords - 1
               /\ a \notin FirstChunk .. ChunkEnd(FirstChunk) - 1
    BY <1>4, <2>1, Places DEF SPILL_COUNT
  <2> QED BY <2>1, <1>1
<1>7. mem[MainContext - 2] = ContextWords
  <2>1. MainContext - 2 \in Address
    BY <1>4, Places
  <2> QED BY <2>1, <1>1
<1>8. GraphFacts /\ FieldFacts /\ WordFacts /\ Live = {MainContext}
  <2>1. Live = Objects(current) /\ Objects(current) = {MainContext}
    <3>1. 1 .. Len(current.objects) = {1} /\ current.objects[1] = MainContext
      BY <1>2
    <3>2. Objects(current) = {MainContext}
      BY <3>1 DEF Objects
    <3> QED BY <3>2, <1>2, <1>3, NothingMoved
  <2> QED BY <2>1, <1>3, GraphHolds, FieldsHold, WordsHold
<1>9. PICK id : id = identity[MainContext]
  OBVIOUS
<1>10. DOMAIN GraphObjects = {id}
  BY <1>8, <1>9 DEF GraphFacts
<1>11. ASSUME NEW k \in DOMAIN GraphObjects[id] PROVE Graph!IsWord(GraphObjects[id][k])
  <2>1. Size(MainContext) = ContextWords
    BY <1>7 DEF Size
  <2>2. k \in 0 .. ContextWords - 1 /\ GraphObjects[id][k] = Value(mem[MainContext + k])
    BY <2>1, <1>8, <1>9, <1>11 DEF FieldFacts
  <2>3. MainContext + k \in MainContext .. MainContext + ContextWords - 1
    BY ONLY <2>2, <1>4
  <2>4. MainContext + k \in Address
    BY ONLY <2>3, <1>4, Places
  <2>5. mem[MainContext + k] \in 0 .. 100
    <3>1. mem[MainContext + k] \in {0, n}
      BY <2>3, <2>4, <1>5
    <3> QED BY ONLY <3>1, <1>4
  <2>6. Value(mem[MainContext + k]) = <<"word", mem[MainContext + k]>>
    BY <2>5, <1>8 DEF WordFacts, Value
  <2> QED BY <2>2, <2>6 DEF Graph!IsWord
<1>12. ASSUME NEW l \in DOMAIN GraphRoots
       PROVE  \/ Graph!IsWord(GraphRoots[l])
              \/ GraphRoots[l] \in {<<"object", i>> : i \in DOMAIN GraphObjects}
  <2>1. l \in Roots /\ GraphRoots[l] = Value(mem[l])
    BY <1>8 DEF GraphFacts
  <2>2. l \in Address /\ HandleCell < l
    <3>1. handles = {}
      BY DEF Init
    <3> QED BY <2>1, <3>1, <1>3, Words, StackFacts
  <2>3. CASE mem[l] = 0
    BY <2>1, <2>3, <1>8 DEF WordFacts, Value, Graph!IsWord
  <2>4. CASE mem[l] = TagPointer(MainContext)
    <3>1. HasPointerTag(mem[l]) /\ UntagPointer(mem[l]) = MainContext
      BY <2>4, <1>4, TagUntag
    <3>2. IsObject(mem[l])
      BY <3>1, <1>2 DEF IsObject
    <3> QED BY <2>1, <3>1, <3>2, <1>9, <1>10 DEF Value
  <2> QED BY <2>2, <2>3, <2>4, <1>6
<1> QED BY <1>10, <1>11, <1>12 DEF Graph!Init

(* Every step is a step on the graph, or invisible.                         *)
LEMMA GraphStep ==
  ASSUME NoTinyObjects, HeapInvariant, HeapInvariant', CopiesReachable, [Next]_vars
  PROVE  [Graph!Next]_Graph!vars
<1>1. CASE SetRegister \/ LoadField \/ StoreSpilled \/ LoadSpilled
  BY <1>1, RegisterStep DEF Graph!Next
<1>2. CASE StoreField
  BY <1>2, StoreFieldStep DEF Graph!Next
<1>3. CASE CallFunction
  BY <1>3, CallFunctionStep DEF Graph!Next
<1>4. CASE Return
  BY <1>4, ReturnStep DEF Graph!Next
<1>5. CASE CreateFunctionContext \/ CreateFunction
  BY <1>5, HandleStep DEF Graph!Next
<1>6. CASE NewArray \/ TestDoGC \/ AllocationFails \/ UNCHANGED vars
  <2>1. UNCHANGED <<mem, current, other, handles, frames, identity>>
    BY <1>6 DEF NewArray, TestDoGC, AllocationFails, EnterMemoryAllocate, vars
  <2> QED BY <2>1, UnchangedGraph DEF Graph!vars
<1>7. CASE AllocationSucceeds
  BY <1>7, AllocationStep DEF Graph!Next
<1>8. CASE GCStep
  BY <1>8, CollectorInvisible DEF Graph!vars
<1>9. CASE FinishGC
  BY <1>9, CollectStep DEF Graph!Next
<1> QED BY <1>1, <1>2, <1>3, <1>4, <1>5, <1>6, <1>7, <1>8, <1>9
        DEF Next, ProgramStep, RuntimeStep

(* The memory manager keeps its promise: whatever the program, the memory   *)
(* and the collector do, what the program sees is the abstract heap, with   *)
(* no field changed, no pointer forged and no reachable object lost, and a  *)
(* collection removes the unreachable objects and nothing else.             *)
THEOREM RuntimeImplementsGraph ==
  ASSUME NoTinyObjects
  PROVE  Spec => ImplementsObjectGraph
<1>1. Init => HeapInvariant /\ CopiesReachable
  <2>1. Init => Objects(other) = {}
    BY DEF Init, Objects
  <2> QED BY <2>1, InitInvariant, InitIdentities DEF HeapInvariant, CopiesReachable
<1>2. HeapInvariant /\ [Next]_vars => HeapInvariant'
  BY NextInvariant, NextIdentities DEF HeapInvariant
<1>3. HeapInvariant /\ HeapInvariant' /\ CopiesReachable /\ [Next]_vars => CopiesReachable'
  BY CopiesStayReachable
<1>4. HeapInvariant /\ HeapInvariant' /\ CopiesReachable /\ [Next]_vars => [Graph!Next]_Graph!vars
  BY GraphStep
<1>5. Init => Graph!Init
  BY InitStep
<1> QED BY <1>1, <1>2, <1>3, <1>4, <1>5, PTL DEF Spec, ImplementsObjectGraph, Graph!Spec

-----------------------------------------------------------------------------
(* Out of memory.                                                           *)

(* When all objects have been moved, the copies take the room they took.    *)
LEMMA AllMoved ==
  ASSUME InvHeap, \A o \in Objects(current) : Color(o) = COLOR_MOVED
  PROVE  other.cursor - other.chunk = current.cursor - current.chunk
<1>1. PICK low, high, n :
        low = current.chunk /\ high = current.cursor /\ n = Len(current.objects)
  OBVIOUS
<1>2. /\ current \in Space /\ Layout(current) /\ low \in Int /\ high \in Int /\ n \in Nat
      /\ low <= high
      /\ \A i \in 1 .. n : current.objects[i] \in Int /\ End(current, i) \in Int
  BY <1>1, Chunks, SpaceTypes
<1>3. /\ n = 0 => high = low
      /\ n > 0 => current.objects[1] = low + 2
  BY <1>1, <1>2 DEF Layout
<1>4. ASSUME NEW l \in low .. high - 1 PROVE l \in MovedWords
  <2> DEFINE T == {i \in 1 .. n : l < End(current, i)}
  <2>1. n \in 1 .. n
    BY ONLY <1>2, <1>3, <1>4
  <2>2. End(current, n) = high
    BY <1>1 DEF End
  <2>3. n \in T /\ T \subseteq Nat
    <3>1. l < high
      BY ONLY <1>2, <1>4
    <3> QED BY <2>1, <2>2, <3>1
  <2>4. PICK i \in T : \A j \in T : i <= j
    <3> HIDE DEF T
    <3> QED BY <2>3, LeastElement
  <2>5. i \in 1 .. n /\ l < End(current, i)
    OBVIOUS
  <2>6. PICK at, end : at = current.objects[i] /\ end = End(current, i)
    OBVIOUS
  <2>7. at - 2 <= l
    <3>1. CASE i = 1
      BY <3>1, <2>5, <2>6, <1>2, <1>3, <1>4
    <3>2. CASE i # 1
      <4>1. PICK j : j = i - 1
        OBVIOUS
      <4>2. j \in 1 .. n /\ j # n /\ j + 1 = i /\ ~(i <= j)
        BY ONLY <4>1, <3>2, <2>5, <1>2
      <4>3. ~(l < End(current, j))
        BY <4>2, <2>4
      <4>4. End(current, j) = at - 2
        BY <4>2, <2>6, <1>1 DEF End
      <4>5. l \in Int /\ at \in Int
        BY <2>5, <2>6, <1>2, <1>4
      <4> QED BY ONLY <4>3, <4>4, <4>5
    <3> QED BY <3>1, <3>2
  <2>8. l \in at - 2 .. end - 1
    <3>1. at \in Int /\ end \in Int /\ l \in Int /\ l < end
      BY <2>5, <2>6, <1>2, <1>4
    <3> QED BY ONLY <2>7, <3>1
  <2>9. Color(current.objects[i]) = COLOR_MOVED
    BY <2>5, <1>1 DEF Objects
  <2> QED BY <2>5, <2>6, <2>8, <2>9, <1>1 DEF MovedWords
<1>5. /\ IsFiniteSet(MovedWords) /\ Cardinality(MovedWords) <= high - low
      /\ Cardinality(MovedWords) = other.cursor - other.chunk
  BY <1>1, <1>2, RoomForCopy DEF InvHeap, InvRoom
<1>6. high - low <= Cardinality(MovedWords)
  <2>1. low .. high - 1 \subseteq MovedWords
    BY <1>4
  <2>2. Cardinality(low .. high - 1) = high - low
    <3>1. PICK last : last = high - 1
      OBVIOUS
    <3>2. last \in Int /\ Cardinality(low .. last) = IF low > last THEN 0 ELSE last - low + 1
      BY <3>1, <1>2, FS_Interval
    <3> QED BY ONLY <3>1, <3>2, <1>2
  <2>3. Cardinality(low .. high - 1) <= Cardinality(MovedWords)
    BY <2>1, <1>5, FS_Subset
  <2> QED BY <2>2, <2>3
<1>7. PICK used : used = Cardinality(MovedWords)
  OBVIOUS
<1>8. used \in Nat /\ used <= high - low /\ high - low <= used
  BY <1>5, <1>6, <1>7, FS_CardinalityType
<1>9. used = high - low
  BY ONLY <1>2, <1>8
<1> QED BY <1>1, <1>5, <1>7, <1>9

(* A collection that finds everything reachable makes no room.              *)
LEMMA NoRoomMade ==
  ASSUME HeapInvariant, HeapInvariant', CopiesReachable, FinishGC,
         Graph!Reachable = Identities, NEW size \in Int, ~Fits(size)
  PROVE  ~Fits(size)'
<1>1. GraphFacts /\ GraphFacts' /\ DOMAIN identity = AllObjects
  BY GraphHolds, NextFacts, WordsHold DEF WordFacts
<1>2. /\ current' = other
      /\ identity' = [a \in {b \in DOMAIN identity : \E i \in 1 .. Len(other.objects) :
                                                       b = other.objects[i]} |-> identity[a]]
  BY DEF FinishGC, SwapChunks
<1>3. Identities' = Identities
  <2>1. DOMAIN GraphObjects' = Graph!Reachable
    BY CollectStep DEF Graph!Collect
  <2> QED BY <2>1, <1>1 DEF GraphFacts
<1>4. ASSUME NEW o \in Objects(current) PROVE Color(o) = COLOR_MOVED
  <2>1. identity[o] \in Identities'
    BY <1>1, <1>3 DEF Identities, AllObjects
  <2>2. PICK c \in DOMAIN identity' : identity'[c] = identity[o]
    BY <2>1 DEF Identities
  <2>3. c \in Objects(other) /\ identity[c] = identity[o]
    BY <2>2, <1>2 DEF Objects
  <2> QED BY <2>3 DEF HeapInvariant, DistinctIdentities
<1>5. InvHeap
  BY DEF HeapInvariant, Invariant
<1>6. PICK low, high, start, end :
        low = current.chunk /\ high = current.cursor /\ start = other.chunk /\ end = other.cursor
  OBVIOUS
<1>7. /\ low \in Int /\ high \in Int /\ start \in Int /\ end \in Int /\ ChunkWords \in Nat
      /\ end - start = high - low
      /\ ChunkEnd(low) = low + ChunkWords /\ ChunkEnd(start) = start + ChunkWords
  BY <1>4, <1>5, <1>6, AllMoved, Chunks, Places
<1>8. ~(4 * (high + size) + 2 < 4 * (low + ChunkWords))
  BY <1>6, <1>7 DEF Fits, INT_SIZE
<1>9. ~(4 * (end + size) + 2 < 4 * (start + ChunkWords))
  BY ONLY <1>7, <1>8, size \in Int
<1> QED BY <1>2, <1>6, <1>7, <1>9 DEF Fits, INT_SIZE

(* The graph, the chunk and the request stay as they are.                   *)
LEMMA NothingFreed ==
  ASSUME HeapInvariant, HeapInvariant', InvCollected,
         GraphObjects' = GraphObjects, GraphRoots' = GraphRoots,
         UNCHANGED <<current, request, gc_count, memory_gc_stress>>,
         pc' = pc \/ (Collecting /\ Collecting')
  PROVE  InvCollected'
<1>1. Graph!Reachable' = Graph!Reachable
  BY ReachableSame
<1>2. Identities' = Identities
  BY GraphHolds, NextFacts DEF GraphFacts
<1>3. Fits(request.size)' <=> Fits(request.size)
  BY DEF Fits
<1>4. /\ pc' = "allocate" => pc = "allocate"
      /\ pc' = "out_of_memory" => pc = "out_of_memory"
      /\ Collecting' => Collecting
  BY DEF Collecting
<1> QED BY <1>1, <1>2, <1>3, <1>4 DEF InvCollected

(* The end of a collection leaves nothing to collect; when the runtime then *)
(* gives up, the collection before had left nothing either.                 *)
LEMMA FinishCollected ==
  ASSUME HeapInvariant, HeapInvariant', CopiesReachable, InvCollected, FinishGC
  PROVE  InvCollected'
<1>1. /\ pc = "trace" /\ Collecting /\ pc' = AfterGC
      /\ (AfterGC # "program" => request' = request)
      /\ memory_gc_stress' = memory_gc_stress
  BY DEF FinishGC, SwapChunks, Collecting
<1>2. /\ AfterGC \in {"program", "allocate", "out_of_memory"}
      /\ AfterGC = "out_of_memory" =>
           /\ request.op # "test_do_gc"
           /\ ~(memory_gc_stress \/ gc_count + 1 <= 1)
  BY DEF AfterGC, TriesAgain, Counted
<1>3. Graph!Reachable' = Identities'
  <2>1. Graph!Collect
    BY CollectStep
  <2>2. Graph!Reachable' = DOMAIN GraphObjects'
    BY <2>1, AllReachable
  <2> QED BY <2>2, NextFacts DEF GraphFacts
<1>4. ASSUME pc' = "out_of_memory" PROVE ~Fits(request.size)'
  <2>1. gc_count \in 0 .. 1 /\ request.op \in {"context", "function", "array"}
        /\ (request.op = "context" => request.size = ContextWords)
        /\ (request.op = "function" => request.size = FunctionWords)
        /\ (request.op = "array" => request.size \in ArraySizes)
    <3>1. InvControl /\ request.op # "test_do_gc"
      BY <1>1, <1>2, <1>4 DEF HeapInvariant, Invariant
    <3> QED BY <3>1, <1>1 DEF InvControl
  <2>2. gc_count = 1
    BY <2>1, <1>1, <1>2, <1>4
  <2>3. Graph!Reachable = Identities /\ ~Fits(request.size)
    BY <2>2, <1>1 DEF InvCollected
  <2>4. request.size \in Int
    <3>1. ContextWords \in Int /\ FunctionWords \in Int /\ ArraySizes \subseteq Int
      BY RuntimeAssumption DEF ContextWords, HEADER_WORDS
    <3>2. request.size \in {ContextWords, FunctionWords} \cup ArraySizes
      BY <2>1
    <3> QED BY <3>1, <3>2
  <2>5. PICK size \in Int : size = request.size
    BY <2>4
  <2>6. ~Fits(size)'
    BY <2>3, <2>5, NoRoomMade
  <2>7. request'.size = size
    BY <2>5, <1>1, <1>2, <1>4
  <2> QED BY <2>6, <2>7 DEF Fits
<1>5. ~Collecting'
  BY <1>1, <1>2 DEF Collecting
<1> QED BY <1>3, <1>4, <1>5 DEF InvCollected

(* Every step keeps it.                                                     *)
LEMMA CollectedStays ==
  ASSUME HeapInvariant, HeapInvariant', CopiesReachable, InvCollected, [Next]_vars
  PROVE  InvCollected'
<1>1. CASE ProgramStep
  <2>1. pc = "program"
    BY <1>1 DEF ProgramStep, SetRegister, LoadField, StoreField, StoreSpilled, LoadSpilled,
                CallFunction, Return, CreateFunctionContext, CreateFunction, NewArray, TestDoGC
  <2>2. gc_count = 0 /\ gc_count' = gc_count /\ memory_gc_stress' = memory_gc_stress
    BY <2>1, <1>1
       DEF ProgramStep, SetRegister, LoadField, StoreField, StoreSpilled, LoadSpilled,
           CallFunction, Return, CreateFunctionContext, CreateFunction, NewArray, TestDoGC,
           OnlyMemChanges, EnterMemoryAllocate, HeapInvariant, Invariant, InvControl
  <2>3. \/ pc' = "program" \/ pc' = "walk"
        \/ pc' = "allocate" /\ ~memory_gc_stress
    BY <2>1, <1>1
       DEF ProgramStep, SetRegister, LoadField, StoreField, StoreSpilled, LoadSpilled,
           CallFunction, Return, CreateFunctionContext, CreateFunction, NewArray, TestDoGC,
           OnlyMemChanges, EnterMemoryAllocate, StartGC
  <2> QED BY <2>2, <2>3 DEF InvCollected, Collecting
<1>2. CASE AllocationSucceeds
  <2>1. pc' = "program"
    BY <1>2 DEF AllocationSucceeds
  <2> QED BY <2>1 DEF InvCollected, Collecting
<1>3. CASE AllocationFails
  <2>1. /\ pc = "allocate" /\ ~Fits(request.size)
        /\ UNCHANGED <<mem, current, other, handles, frames, identity>>
        /\ UNCHANGED <<request, gc_count, memory_gc_stress>>
        /\ (pc' = "out_of_memory" /\ memory_gc_stress) \/ pc' = "walk"
    BY <1>3 DEF AllocationFails, StartGC
  <2>2. GraphObjects' = GraphObjects /\ GraphRoots' = GraphRoots
    BY <2>1, UnchangedGraph
  <2>3. Graph!Reachable' = Graph!Reachable /\ Identities' = Identities
    BY <2>2, ReachableSame, GraphHolds, NextFacts DEF GraphFacts
  <2>4. ~Fits(request.size)'
    BY <2>1 DEF Fits
  <2>5. pc' = "out_of_memory" \/ gc_count' = 1 => Graph!Reachable = Identities
    BY <2>1 DEF InvCollected
  <2>6. pc' # "allocate"
    BY <2>1
  <2> QED BY <2>3, <2>4, <2>5, <2>6 DEF InvCollected
<1>4. CASE GCStep
  <2>1. UNCHANGED <<current, request, gc_count, memory_gc_stress>> /\ Collecting /\ Collecting'
    BY <1>4 DEF GCStep, WalkWord, RootsFromHandles, SkipPointer, ForwardPointer, MoveObject,
                ScanWord, ScanDone, Tracing, Collecting
  <2> QED BY <2>1, <1>4, CollectorInvisible, NothingFreed
<1>5. CASE FinishGC
  BY <1>5, FinishCollected
<1>6. CASE UNCHANGED vars
  <2>1. UNCHANGED <<mem, current, other, handles, frames, identity>>
        /\ UNCHANGED <<current, request, gc_count, memory_gc_stress>> /\ pc' = pc
    BY <1>6 DEF vars
  <2> QED BY <2>1, UnchangedGraph, NothingFreed
<1> QED BY <1>1, <1>2, <1>3, <1>4, <1>5, <1>6 DEF Next, RuntimeStep

(* Through any collection memory is in order, no object exists twice, only  *)
(* reachable objects are copied, and when it has ended nothing unreachable  *)
(* is left.                                                                 *)
THEOREM GraphInvariantHolds ==
  ASSUME NoTinyObjects
  PROVE  Spec => []GraphInvariant
<1>1. Init => HeapInvariant /\ CopiesReachable /\ InvCollected
  <2>1. Init => Objects(other) = {} /\ pc = "program"
    BY DEF Init, Objects
  <2> QED BY <2>1, InitInvariant, InitIdentities
          DEF HeapInvariant, CopiesReachable, InvCollected, Collecting
<1>2. HeapInvariant /\ [Next]_vars => HeapInvariant'
  BY NextInvariant, NextIdentities DEF HeapInvariant
<1>3. HeapInvariant /\ HeapInvariant' /\ CopiesReachable /\ [Next]_vars => CopiesReachable'
  BY CopiesStayReachable
<1>4. HeapInvariant /\ HeapInvariant' /\ CopiesReachable /\ InvCollected /\ [Next]_vars
        => InvCollected'
  BY CollectedStays
<1>5. HeapInvariant /\ CopiesReachable /\ InvCollected => GraphInvariant
  BY DEF HeapInvariant, GraphInvariant
<1> QED BY <1>1, <1>2, <1>3, <1>4, <1>5, PTL DEF Spec

(* memory_allocate gives up only when it has to: every object is reachable, *)
(* and the request does not fit beside them.                                *)
THEOREM RuntimeOutOfMemory ==
  ASSUME NoTinyObjects
  PROVE  Spec => []OutOfMemoryIsReal
<1>1. GraphInvariant => OutOfMemoryIsReal
  BY DEF GraphInvariant, InvCollected, OutOfMemoryIsReal
<1> QED BY <1>1, GraphInvariantHolds, PTL
=============================================================================
