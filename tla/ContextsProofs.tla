---------------------------- MODULE ContextsProofs ----------------------------
(***************************************************************************)
(* The compiled code finds in every variable what the interpreter finds:   *)
(* TypeOK, SameValues and LexicalChain of Contexts hold for every program, *)
(* any number of calls and contexts, as long as no function is called      *)
(* through a variable while its context is in use.                         *)
(***************************************************************************)
EXTENDS ContextsInvariant, Induction, FiniteSetTheorems

-----------------------------------------------------------------------------
(* The program.                                                             *)

(* The nesting of a function in others is finite.                           *)
LEMMA Levels ==
  \E level \in [Functions -> Nat] : \A g \in InnerFunctions : level[Outer[g]] < level[g]
<1>1. Cardinality(Functions) \in Nat
  BY NestingAssumption, FS_CardinalityType
<1>2. PICK level \in [Functions -> 0..Cardinality(Functions)] :
        \A g \in InnerFunctions : level[Outer[g]] < level[g]
  BY NestingAssumption
<1>3. level \in [Functions -> Nat]
  BY <1>1, <1>2
<1> QED BY <1>2, <1>3

(* The functions that a function is inside of.                              *)
LEMMA EnclosingFunctions ==
  /\ Enclosing \in [Functions -> SUBSET Functions]
  /\ Enclosing[Main] = {Main}
  /\ \A f \in InnerFunctions : Enclosing[f] = {f} \cup Enclosing[Outer[f]]
<1>1. PICK level \in [Functions -> Nat] : \A g \in InnerFunctions : level[Outer[g]] < level[g]
  BY Levels
<1> DEFINE base == [g \in {Main} |-> {Main}]
           step == [f \in InnerFunctions |-> [E \in SUBSET Functions |-> {f} \cup E]]
           IsEnclosing(h) == h = [f \in Functions |->
                                    {f} \cup (IF f = Main THEN {} ELSE h[Outer[f]])]
<1>2. \E h : IsEnclosing(h) /\ h \in [Functions -> SUBSET Functions]
  <2>1. \E h \in [Functions -> SUBSET Functions] :
          \A f \in Functions : h[f] = IF f \in {Main} THEN base[f] ELSE step[f][h[Outer[f]]]
    <3>1. Recursion(Functions, SUBSET Functions, level, {Main}, base, Outer, step)
      BY <1>1, ProgramAssumption DEF InnerFunctions, Recursion
    <3> HIDE DEF step, base
    <3>2. \E h \in [Functions -> SUBSET Functions] :
            Satisfies(h, Functions, {Main}, base, Outer, step)
      BY <3>1, RecursiveFunctionExists
    <3> QED BY <3>2 DEF Satisfies
  <2>2. PICK h \in [Functions -> SUBSET Functions] :
          \A f \in Functions : h[f] = IF f \in {Main} THEN base[f] ELSE step[f][h[Outer[f]]]
    BY <2>1
  <2>3. \A f \in Functions : h[f] = {f} \cup (IF f = Main THEN {} ELSE h[Outer[f]])
    BY <2>2, ProgramAssumption DEF InnerFunctions
  <2> HIDE DEF step
  <2>4. h = [f \in Functions |-> {f} \cup (IF f = Main THEN {} ELSE h[Outer[f]])]
    BY <2>2, <2>3
  <2> QED BY <2>4
<1> DEFINE E == CHOOSE h : IsEnclosing(h)
<1>3. IsEnclosing(E)
  BY <1>2
<1>4. Enclosing = E
  BY DEF Enclosing
<1> HIDE DEF E
<1>5. \A f \in Functions : Enclosing[f] = {f} \cup (IF f = Main THEN {} ELSE Enclosing[Outer[f]])
  BY <1>3, <1>4
<1>6. ASSUME NEW f \in Functions PROVE Enclosing[f] \in SUBSET Functions
  <2> DEFINE S == {g \in Functions : Enclosing[g] \in SUBSET Functions}
  <2>1. ASSUME NEW g \in Functions, \A y \in Functions : level[y] < level[g] => y \in S
        PROVE  g \in S
    BY <1>1, <1>5, <2>1, ProgramAssumption DEF InnerFunctions
  <2>2. \A g \in Functions : g \in S
    <3> HIDE DEF S
    <3> QED BY <2>1, RankInduction
  <2> QED BY <2>2
<1> QED BY <1>3, <1>4, <1>5, <1>6, ProgramAssumption DEF InnerFunctions

(* A function is not inside of itself.                                      *)
LEMMA NotEnclosedByInner ==
  ASSUME NEW f \in InnerFunctions
  PROVE  f \notin Enclosing[Outer[f]]
<1>1. PICK level \in [Functions -> Nat] : \A g \in InnerFunctions : level[Outer[g]] < level[g]
  BY Levels
<1> DEFINE S == {g \in Functions : \A h \in Enclosing[g] : level[h] <= level[g]}
<1>2. ASSUME NEW g \in Functions, \A y \in Functions : level[y] < level[g] => y \in S
      PROVE  g \in S
  <2>1. CASE g = Main
    BY <2>1, EnclosingFunctions
  <2>2. CASE g # Main
    <3>1. g \in InnerFunctions /\ Outer[g] \in Functions
      BY <2>2, ProgramAssumption DEF InnerFunctions
    <3>2. \A h \in Enclosing[Outer[g]] : h \in Functions /\ level[h] <= level[Outer[g]]
      BY <1>1, <1>2, <3>1, EnclosingFunctions
    <3>3. ASSUME NEW h \in Enclosing[g] PROVE level[h] <= level[g]
      <4>1. h = g \/ h \in Enclosing[Outer[g]]
        BY <3>1, EnclosingFunctions
      <4>2. level[Outer[g]] \in Nat /\ level[g] \in Nat /\ level[Outer[g]] < level[g]
        BY <1>1, <3>1
      <4>3. CASE h = g
        BY <4>2, <4>3
      <4>4. CASE h \in Enclosing[Outer[g]]
        <5>1. level[h] \in Nat /\ level[h] <= level[Outer[g]]
          BY <3>2, <4>4
        <5> QED BY <4>2, <5>1
      <4> QED BY <4>1, <4>3, <4>4
    <3> QED BY <3>3
  <2> QED BY <2>1, <2>2
<1>3. \A g \in Functions : g \in S
  <2> HIDE DEF S
  <2> QED BY <1>2, RankInduction
<1>4. Outer[f] \in Functions /\ f \in Functions
  BY ProgramAssumption DEF InnerFunctions
<1>5. level[Outer[f]] \in Nat /\ level[f] \in Nat /\ level[Outer[f]] < level[f]
  BY <1>1, <1>4
<1> QED BY <1>3, <1>4, <1>5

(* The number of links from a function outwards to another, counted to the  *)
(* top scope when the function is not inside of it.                         *)
LEMMA VariableDepths ==
  ASSUME NEW s \in Functions
  PROVE  \A f \in Functions :
           /\ VariableDepth(f, s) \in Nat
           /\ VariableDepth(f, s) = IF f \in {s, Main} THEN 0 ELSE 1 + VariableDepth(Outer[f], s)
<1>1. PICK level \in [Functions -> Nat] : \A g \in InnerFunctions : level[Outer[g]] < level[g]
  BY Levels
<1> DEFINE Base == Functions \cap {s, Main}
           base == [f \in Base |-> 0]
           next == [f \in Functions \ Base |-> Outer[f]]
           step == [f \in Functions \ Base |-> [n \in Nat |-> 1 + n]]
           IsDepth(h) == h = [f \in Functions |-> IF f \in {s, Main} THEN 0 ELSE 1 + h[Outer[f]]]
<1>2. \E h : IsDepth(h)
  <2>1. Recursion(Functions, Nat, level, Base, base, next, step)
    BY <1>1, ProgramAssumption DEF InnerFunctions, Recursion
  <2>2. PICK h \in [Functions -> Nat] : Satisfies(h, Functions, Base, base, next, step)
    <3> HIDE DEF Base, base, step, next
    <3> QED BY <2>1, RecursiveFunctionExists
  <2>3. ASSUME NEW f \in Functions
        PROVE  h[f] = IF f \in {s, Main} THEN 0 ELSE 1 + h[Outer[f]]
    <3>1. CASE f \in {s, Main}
      BY <2>2, <3>1 DEF Satisfies
    <3>2. CASE f \notin {s, Main}
      <4>1. Outer[f] \in Functions /\ next[f] = Outer[f] /\ h[Outer[f]] \in Nat
        BY <3>2, ProgramAssumption DEF InnerFunctions
      <4>2. h[f] = step[f][h[Outer[f]]]
        BY <2>2, <3>2, <4>1 DEF Satisfies
      <4> QED BY <3>2, <4>1, <4>2
    <3> QED BY <3>1, <3>2
  <2>4. h = [f \in Functions |-> IF f \in {s, Main} THEN 0 ELSE 1 + h[Outer[f]]]
    BY <2>3
  <2> QED BY <2>4
<1> DEFINE V == CHOOSE h : IsDepth(h)
<1>3. IsDepth(V)
  BY <1>2
<1>4. \A f : VariableDepth(f, s) = V[f]
  BY DEF VariableDepth
<1> HIDE DEF V
<1>5. ASSUME NEW f \in Functions
      PROVE  VariableDepth(f, s) = IF f \in {s, Main} THEN 0 ELSE 1 + VariableDepth(Outer[f], s)
  BY <1>3, <1>4
<1>6. \A f \in Functions : VariableDepth(f, s) \in Nat
  <2> DEFINE S == {f \in Functions : VariableDepth(f, s) \in Nat}
  <2>1. ASSUME NEW f \in Functions, \A y \in Functions : level[y] < level[f] => y \in S
        PROVE  f \in S
    <3>1. CASE f \in {s, Main}
      BY <1>5, <3>1
    <3>2. CASE f \notin {s, Main}
      <4>1. f \in InnerFunctions /\ Outer[f] \in Functions
        BY <3>2, ProgramAssumption DEF InnerFunctions
      <4> QED BY <1>1, <1>5, <2>1, <3>2, <4>1
    <3> QED BY <3>1, <3>2
  <2> HIDE DEF S
  <2>2. \A f \in Functions : f \in S
    BY <1>1, <2>1, RankInduction
  <2> QED BY <2>2 DEF S
<1> QED BY <1>5, <1>6

-----------------------------------------------------------------------------
(* The walks along outer contexts.                                          *)

(* The compiled code's walk, by its first step and by its last.             *)
LEMMA OuterFunctionContexts ==
  ASSUME NEW k
  PROVE  /\ OuterFunctionContext(k, 0) = k
         /\ \A n \in Nat : OuterFunctionContext(k, n + 1)
                            = heapContexts[OuterFunctionContext(k, n)].outer
         /\ \A n \in Nat : OuterFunctionContext(k, n + 1)
                            = OuterFunctionContext(heapContexts[k].outer, n)
<1> DEFINE Link(w, c, d) == IF d = 0 THEN c ELSE heapContexts[w[d - 1]].outer
           IsWalk(w, c, n) == w = [d \in 0..n |-> Link(w, c, d)]
           Walk(c, n) == CHOOSE w : IsWalk(w, c, n)
<1>1. ASSUME NEW c
      PROVE  \A n \in Nat : \E w : IsWalk(w, c, n)
  <2> DEFINE S == {n \in Nat : \E w : IsWalk(w, c, n)}
  <2>1. 0 \in S
    <3> DEFINE u == [d \in 0..0 |-> c]
    <3>1. \A w : \A d \in 0..0 : Link(w, c, d) = c
      OBVIOUS
    <3> HIDE DEF Link
    <3>2. IsWalk(u, c, 0)
      BY <3>1
    <3> HIDE DEF u, IsWalk
    <3> QED BY <3>2
  <2>2. ASSUME NEW n \in Nat, n \in S PROVE n + 1 \in S
    <3>1. PICK w : IsWalk(w, c, n)
      BY <2>2
    <3> DEFINE u == [d \in 0..(n + 1) |-> Link(w, c, d)]
    <3>2. \A d \in 0..n : u[d] = w[d]
      BY <3>1
    <3>3. \A d \in 0..(n + 1) : d # 0 => d - 1 \in 0..n
      OBVIOUS
    <3>4. \A d \in 0..(n + 1) : Link(w, c, d) = Link(u, c, d)
      <4> HIDE DEF u
      <4> QED BY <3>2, <3>3
    <3>5. IsWalk(u, c, n + 1)
      BY <3>4
    <3> HIDE DEF u, IsWalk
    <3> QED BY <3>5
  <2> HIDE DEF S
  <2>3. \A n \in Nat : n \in S
    BY <2>1, <2>2, Induction
  <2> QED BY <2>3 DEF S
<1>2. ASSUME NEW c, NEW n \in Nat PROVE IsWalk(Walk(c, n), c, n)
  <2> HIDE DEF IsWalk
  <2>1. \E w : IsWalk(w, c, n)
    BY <1>1
  <2> QED BY <2>1
<1>3. ASSUME NEW c, NEW n \in Nat PROVE OuterFunctionContext(c, n) = Walk(c, n)[n]
  BY DEF OuterFunctionContext
<1> HIDE DEF Walk
<1>4. ASSUME NEW c, NEW n \in Nat
      PROVE  /\ Walk(c, n)[0] = c
             /\ \A d \in 1..n : Walk(c, n)[d] = heapContexts[Walk(c, n)[d - 1]].outer
  <2>1. \A d \in 0..n : Walk(c, n)[d] = Link(Walk(c, n), c, d)
    BY <1>2
  <2> QED BY <2>1
<1>5. ASSUME NEW c, NEW n \in Nat, NEW m \in Nat, m <= n
      PROVE  Walk(c, n)[m] = Walk(c, m)[m]
  <2> DEFINE S == {d \in Nat : d <= m => Walk(c, n)[d] = Walk(c, m)[d]}
  <2>1. 0 \in S
    BY <1>4
  <2>2. ASSUME NEW d \in Nat, d \in S PROVE d + 1 \in S
    <3>1. SUFFICES ASSUME d + 1 <= m PROVE Walk(c, n)[d + 1] = Walk(c, m)[d + 1]
      OBVIOUS
    <3>2. d + 1 \in 1..n /\ d + 1 \in 1..m /\ (d + 1) - 1 = d
      BY <1>5, <3>1
    <3>3. Walk(c, n)[d] = Walk(c, m)[d]
      BY <2>2, <3>1
    <3> QED BY <1>4, <3>2, <3>3
  <2> HIDE DEF S
  <2>3. \A d \in Nat : d \in S
    BY <2>1, <2>2, Induction
  <2> QED BY <2>3 DEF S
<1>6. ASSUME NEW c PROVE OuterFunctionContext(c, 0) = c
  BY <1>3, <1>4
<1>7. ASSUME NEW c, NEW n \in Nat
      PROVE  OuterFunctionContext(c, n + 1) = heapContexts[OuterFunctionContext(c, n)].outer
  <2>1. n + 1 \in Nat /\ n + 1 \in 1..(n + 1) /\ (n + 1) - 1 = n /\ n <= n + 1
    OBVIOUS
  <2>2. Walk(c, n + 1)[n + 1] = heapContexts[Walk(c, n + 1)[n]].outer
    BY <1>4, <2>1
  <2>3. Walk(c, n + 1)[n] = Walk(c, n)[n]
    BY <1>5, <2>1
  <2> QED BY <1>3, <2>1, <2>2, <2>3
<1>8. \A n \in Nat : OuterFunctionContext(k, n + 1)
                     = OuterFunctionContext(heapContexts[k].outer, n)
  <2> DEFINE S == {n \in Nat : OuterFunctionContext(k, n + 1)
                               = OuterFunctionContext(heapContexts[k].outer, n)}
  <2>1. 0 \in S
    <3>1. OuterFunctionContext(k, 0 + 1) = heapContexts[k].outer
      BY <1>6, <1>7
    <3> QED BY <1>6, <3>1
  <2>2. ASSUME NEW n \in Nat, n \in S PROVE n + 1 \in S
    BY <1>7, <2>2
  <2> HIDE DEF S
  <2>3. \A n \in Nat : n \in S
    BY <2>1, <2>2, Induction
  <2> QED BY <2>3 DEF S
<1> QED BY <1>6, <1>7, <1>8

(* What the types say of every element.                                     *)
LEMMA TypeFacts ==
  ASSUME NEW cs, NEW st, NEW tg, NEW hs, NEW fr, NEW tw, Types(cs, st, tg, hs, fr, tw)
  PROVE  /\ Len(cs) \in Nat \ {0} /\ DOMAIN cs = 1..Len(cs) /\ DOMAIN tw = 1..Len(cs)
         /\ Len(hs) \in Nat \ {0} /\ DOMAIN hs = 1..Len(hs)
         /\ Len(st) \in Nat \ {0} /\ DOMAIN st = 1..Len(st) /\ DOMAIN fr = 1..Len(st)
         /\ DOMAIN tg = 1..(Len(st) - 1)
         /\ \A c \in DOMAIN cs : /\ cs[c] \in InterpreterContext
                                /\ cs[c].function.statement \in Functions
                                /\ cs[c].function.outer \in Nat
                                /\ cs[c].symbols \in Symbols
                                /\ tw[c] \in Nat
         /\ \A k \in DOMAIN hs : /\ hs[k] \in HeapContext
                                /\ hs[k].function \in Functions
                                /\ hs[k].outer \in Nat
                                /\ hs[k].slots \in Slots
                                /\ hs[k].result \in HeapWords
         /\ \A i \in DOMAIN st : st[i] \in Nat /\ fr[i] \in Frame
<1>1. /\ Len(cs) \in Nat \ {0} /\ DOMAIN cs = 1..Len(cs) /\ DOMAIN tw = 1..Len(cs)
      /\ Len(hs) \in Nat \ {0} /\ DOMAIN hs = 1..Len(hs)
      /\ Len(st) \in Nat \ {0} /\ DOMAIN st = 1..Len(st) /\ DOMAIN fr = 1..Len(st)
      /\ DOMAIN tg = 1..(Len(st) - 1)
  BY DEF Types
<1>2. /\ \A c \in DOMAIN cs : cs[c] \in InterpreterContext
      /\ \A c \in DOMAIN tw : tw[c] \in Nat
      /\ \A k \in DOMAIN hs : hs[k] \in HeapContext
      /\ \A i \in DOMAIN st : st[i] \in Nat
      /\ \A i \in DOMAIN fr : fr[i] \in Frame
  <2>1. /\ cs \in Seq(InterpreterContext) /\ hs \in Seq(HeapContext) /\ fr \in Seq(Frame)
        /\ st \in Seq(Nat \ {0}) /\ tw \in Seq(Nat \ {0})
    BY DEF Types
  <2> QED BY <2>1, ElementType
<1>3. \A c \in DOMAIN cs : /\ cs[c].function.statement \in Functions
                         /\ cs[c].function.outer \in Nat /\ cs[c].symbols \in Symbols
  BY <1>2 DEF InterpreterContext, InterpreterFunction
<1>4. \A k \in DOMAIN hs : /\ hs[k].function \in Functions /\ hs[k].outer \in Nat
                         /\ hs[k].slots \in Slots /\ hs[k].result \in HeapWords
  BY <1>2 DEF HeapContext
<1> QED BY <1>1, <1>2, <1>3, <1>4

(* The interpreter's walk.                                                  *)
LEMMA FoundContexts ==
  ASSUME Invariant, NEW x
  PROVE  /\ FoundFrom(0, x) = 0
         /\ \A c \in DOMAIN contexts :
              FoundFrom(c, x) = IF x \in DOMAIN contexts[c].symbols THEN c
                                ELSE FoundFrom(contexts[c].function.outer, x)
<1> DEFINE D == 0..Len(contexts)
           rank == [c \in D |-> c]
           Base == {c \in D : c = 0 \/ x \in DOMAIN contexts[c].symbols}
           base == [c \in Base |-> c]
           next == [c \in D \ Base |-> contexts[c].function.outer]
           step == [c \in D \ Base |-> [n \in Nat |-> n]]
           Body(h, c) == IF c = 0 \/ x \in DOMAIN contexts[c].symbols THEN c
                         ELSE h[contexts[c].function.outer]
           IsFound(h) == h = [c \in D |-> Body(h, c)]
<1>1. /\ Len(contexts) \in Nat /\ DOMAIN contexts = 1..Len(contexts)
      /\ \A c \in DOMAIN contexts : contexts[c].function.outer \in 0..(c - 1)
  <2>1. Len(contexts) \in Nat /\ DOMAIN contexts = 1..Len(contexts)
    BY DEF Invariant, Inv, Types
  <2>2. contexts[1].function.outer = 0
    BY DEF Invariant, Inv, ContextsNested
  <2>3. \A c \in DOMAIN contexts : c # 1 => contexts[c].function.outer \in 1..(c - 1)
    BY DEF Invariant, Inv, ContextsNested
  <2> QED BY <2>1, <2>2, <2>3
<1>2. \E h : IsFound(h)
  <2>1. \A c \in D \ Base : next[c] \in D /\ next[c] < c /\ next[c] = contexts[c].function.outer
    BY <1>1
  <2>2. Recursion(D, Nat, rank, Base, base, next, step)
    <3>1. rank \in [D -> Nat] /\ Base \in SUBSET D /\ base \in [Base -> Nat]
      BY <1>1
    <3>2. step \in [D \ Base -> [Nat -> Nat]]
      OBVIOUS
    <3>3. \A c \in D : rank[c] = c
      OBVIOUS
    <3> HIDE DEF rank, Base, base, step, D
    <3>4. next \in [D \ Base -> D] /\ \A c \in D \ Base : rank[next[c]] < rank[c]
      BY <2>1, <3>3
    <3> QED BY <3>1, <3>2, <3>4 DEF Recursion
  <2>3. PICK h \in [D -> Nat] : Satisfies(h, D, Base, base, next, step)
    <3> HIDE DEF Base, base, step, next, D, rank
    <3> QED BY <2>2, RecursiveFunctionExists
  <2>4. ASSUME NEW c \in D PROVE h[c] = Body(h, c)
    <3>1. CASE c \in Base
      <4>1. base[c] = c
        BY <3>1
      <4> QED BY <2>3, <3>1, <4>1 DEF Satisfies
    <3>2. CASE c \notin Base
      <4>1. h[next[c]] \in Nat /\ next[c] = contexts[c].function.outer
        BY <2>1, <2>3, <3>2
      <4>2. h[c] = step[c][h[next[c]]]
        BY <2>3, <3>2 DEF Satisfies
      <4> QED BY <3>2, <4>1, <4>2
    <3> QED BY <3>1, <3>2
  <2>5. h = [c \in D |-> Body(h, c)]
    BY <2>3, <2>4
  <2> QED BY <2>5
<1> DEFINE F == CHOOSE h : IsFound(h)
<1>3. IsFound(F)
  BY <1>2
<1>4. \A c : FoundFrom(c, x) = F[c]
  BY DEF FoundFrom
<1> HIDE DEF F
<1>5. ASSUME NEW c \in D PROVE FoundFrom(c, x) = IF c = 0 \/ x \in DOMAIN contexts[c].symbols
                                               THEN c ELSE FoundFrom(contexts[c].function.outer, x)
  BY <1>3, <1>4
<1> QED BY <1>1, <1>5

(* A name is known in the scope it is allocated in and nowhere else.        *)
LEMMA ScopesOfNames ==
  /\ \A x \in Names : AllocationScope(x) \in Functions
  /\ \A f \in Functions : \A x \in VariablesOf(f) \cup InnerOf(f) :
       x \in Names /\ AllocationScope(x) = f
  /\ \A v \in Variables : v \in Names /\ AllocationScope(v) = Scope[v]
  /\ \A g \in InnerFunctions : g \in Names /\ g \notin Variables /\ AllocationScope(g) = Outer[g]
BY ProgramAssumption, NamesAssumption
   DEF Names, AllocationScope, VariablesOf, InnerOf, InnerFunctions

(* From a context that is outside of the scope of x, x is not found.        *)
LEMMA NotFound ==
  ASSUME Invariant, NEW x \in Names
  PROVE  \A c \in DOMAIN contexts :
           AllocationScope(x) \notin Enclosing[contexts[c].function.statement] => FoundFrom(c, x) = 0
<1> DEFINE S == {c \in Nat : c \in DOMAIN contexts
                              /\ AllocationScope(x) \notin Enclosing[contexts[c].function.statement]
                                => FoundFrom(c, x) = 0}
<1>1. Types(contexts, stack, targets, heapContexts, frames, twin)
  BY DEF Invariant, Inv
<1>2. ASSUME NEW c \in Nat, \A d \in Nat : d < c => d \in S PROVE c \in S
  <2> DEFINE f == contexts[c].function.statement
             o == contexts[c].function.outer
  <2>1. SUFFICES ASSUME c \in DOMAIN contexts, AllocationScope(x) \notin Enclosing[f]
                 PROVE  FoundFrom(c, x) = 0
    OBVIOUS
  <2>2. f \in Functions
    BY <1>1, <2>1, TypeFacts
  <2>3. f \in Enclosing[f]
    <3>1. PICK g : g = f
      OBVIOUS
    <3>2. g = Main \/ g \in InnerFunctions
      BY <2>2, <3>1 DEF InnerFunctions
    <3>3. g \in Enclosing[g]
      BY ONLY <3>2, EnclosingFunctions
    <3> QED BY <3>1, <3>3
  <2>4. x \notin DOMAIN contexts[c].symbols
    BY <2>1, <2>2, <2>3, ScopesOfNames DEF Invariant, Inv, SymbolsNested
  <2>5. FoundFrom(c, x) = FoundFrom(o, x)
    BY <2>1, <2>4, FoundContexts
  <2>6. CASE c = 1
    BY <2>5, <2>6, FoundContexts DEF Invariant, Inv, ContextsNested
  <2>7. CASE c # 1
    <3>1. f \in InnerFunctions /\ o \in 1..(c - 1) /\ contexts[o].function.statement = Outer[f]
      BY <2>1, <2>7 DEF Invariant, Inv, ContextsNested
    <3>2. o \in Nat /\ o < c /\ o \in DOMAIN contexts
      BY <1>1, <2>1, <3>1, TypeFacts
    <3>3. AllocationScope(x) \notin Enclosing[Outer[f]]
      BY <2>1, <3>1, EnclosingFunctions
    <3>4. o \in S
      BY <1>2, <3>2
    <3> QED BY <2>5, <3>1, <3>2, <3>3, <3>4
  <2> QED BY <2>6, <2>7
<1>3. \A c \in Nat : c \in S
  <2> HIDE DEF S
  <2> QED BY <1>2, StrongInduction
<1> QED BY <1>1, <1>3, TypeFacts

(* From context c, the compiled code reaches the FunctionContext of a, a    *)
(* current context of the scope of x, and the interpreter finds x there or  *)
(* nowhere.                                                                 *)
Reaches(c, x, a) ==
  /\ a \in DOMAIN contexts
  /\ Current(a, twin)
  /\ contexts[a].function.statement = AllocationScope(x)
  /\ OuterFunctionContext(twin[c],
       VariableDepth(contexts[c].function.statement, AllocationScope(x))) = twin[a]
  /\ FoundFrom(c, x) = IF x \in DOMAIN contexts[a].symbols THEN a ELSE 0
  /\ twin[a] = twin[c] \/ \E k \in DOMAIN heapContexts : heapContexts[k].outer = twin[a]

(* There is such a context.                                                 *)
LEMMA StaticChain ==
  ASSUME Invariant, NEW x \in Names
  PROVE  \A c \in DOMAIN contexts :
           Current(c, twin) /\ AllocationScope(x) \in Enclosing[contexts[c].function.statement]
             => \E a \in DOMAIN contexts : Reaches(c, x, a)
<1> DEFINE S == {c \in Nat :
                  c \in DOMAIN contexts /\ Current(c, twin)
                    /\ AllocationScope(x) \in Enclosing[contexts[c].function.statement]
                  => \E a \in DOMAIN contexts : Reaches(c, x, a)}
           s == AllocationScope(x)
<1>1. Types(contexts, stack, targets, heapContexts, frames, twin)
  BY DEF Invariant, Inv
<1>2. ASSUME NEW c \in Nat, \A d \in Nat : d < c => d \in S PROVE c \in S
  <2> DEFINE f == contexts[c].function.statement
             o == contexts[c].function.outer
  <2>1. SUFFICES ASSUME c \in DOMAIN contexts, Current(c, twin), s \in Enclosing[f]
                 PROVE  \E a \in DOMAIN contexts : Reaches(c, x, a)
    OBVIOUS
  <2>2. f \in Functions /\ s \in Functions
    BY <1>1, <2>1, TypeFacts, ScopesOfNames
  <2>3. CASE s = f
    <3>1. OuterFunctionContext(twin[c], VariableDepth(f, s)) = twin[c]
      BY <2>2, <2>3, VariableDepths, OuterFunctionContexts
    <3>2. x \notin DOMAIN contexts[c].symbols => FoundFrom(c, x) = 0
      <4>1. SUFFICES ASSUME x \notin DOMAIN contexts[c].symbols PROVE FoundFrom(o, x) = 0
        BY <2>1, FoundContexts
      <4>2. CASE c = 1
        BY <4>2, FoundContexts DEF Invariant, Inv, ContextsNested
      <4>3. CASE c # 1
        <5>1. f \in InnerFunctions /\ o \in 1..(c - 1) /\ contexts[o].function.statement = Outer[f]
          BY <2>1, <4>3 DEF Invariant, Inv, ContextsNested
        <5>2. o \in DOMAIN contexts
          BY <1>1, <2>1, <5>1, TypeFacts
        <5>3. s \notin Enclosing[Outer[f]]
          BY <2>3, <5>1, NotEnclosedByInner
        <5> QED BY <5>1, <5>2, <5>3, NotFound
      <4> QED BY <4>2, <4>3
    <3>3. FoundFrom(c, x) = IF x \in DOMAIN contexts[c].symbols THEN c ELSE 0
      BY <2>1, <3>2, FoundContexts
    <3>4. Reaches(c, x, c)
      BY <2>1, <2>3, <3>1, <3>3 DEF Reaches
    <3> QED BY <2>1, <3>4
  <2>4. CASE s # f
    <3>1. f # Main
      BY <2>1, <2>4, EnclosingFunctions
    <3>2. c # 1
      BY <3>1 DEF Invariant, Inv, ContextsNested
    <3>3. f \in InnerFunctions /\ o \in 1..(c - 1) /\ contexts[o].function.statement = Outer[f]
      BY <2>1, <3>2 DEF Invariant, Inv, ContextsNested
    <3>4. o \in Nat /\ o < c /\ o \in DOMAIN contexts
      BY <1>1, <2>1, <3>3, TypeFacts
    <3>5. Current(o, twin) /\ heapContexts[twin[c]].outer = twin[o]
      BY <2>1, <3>2 DEF Invariant, Inv, OutersCurrent, TwinsMatch
    <3>6. s \in Enclosing[Outer[f]] /\ Outer[f] \in Functions
      BY <2>1, <2>4, <3>3, EnclosingFunctions, ProgramAssumption
    <3>7. PICK a \in DOMAIN contexts : Reaches(o, x, a)
      BY <1>2, <3>3, <3>4, <3>5, <3>6
    <3>8. OuterFunctionContext(twin[c], VariableDepth(f, s)) = twin[a]
      <4>1. PICK n \in Nat : n = VariableDepth(Outer[f], s)
        BY <2>2, <3>6, VariableDepths
      <4>2. VariableDepth(f, s) = n + 1
        BY <2>2, <2>4, <3>1, <4>1, VariableDepths
      <4>3. OuterFunctionContext(twin[c], n + 1) = OuterFunctionContext(twin[o], n)
        <5>1. OuterFunctionContext(twin[c], n + 1)
                = OuterFunctionContext(heapContexts[twin[c]].outer, n)
          BY OuterFunctionContexts
        <5> QED BY <3>5, <5>1
      <4> QED BY <3>3, <3>7, <4>1, <4>2, <4>3 DEF Reaches
    <3>9. FoundFrom(c, x) = FoundFrom(o, x)
      <4>1. x \notin DOMAIN contexts[c].symbols
        BY <2>1, <2>2, <2>4, ScopesOfNames DEF Invariant, Inv, SymbolsNested
      <4> QED BY <2>1, <4>1, FoundContexts
    <3>10. twin[a] = twin[o] => \E k \in DOMAIN heapContexts : heapContexts[k].outer = twin[a]
      <4>1. twin[c] \in DOMAIN heapContexts
        BY <2>1 DEF Invariant, Inv, TwinsMatch
      <4> QED BY <3>5, <4>1
    <3>11. Reaches(c, x, a)
      BY <3>7, <3>8, <3>9, <3>10 DEF Reaches
    <3> QED BY <3>11
  <2> QED BY <2>3, <2>4
<1>3. \A c \in Nat : c \in S
  <2> HIDE DEF S
  <2> QED BY <1>2, StrongInduction
<1> QED BY <1>1, <1>3, TypeFacts

-----------------------------------------------------------------------------
(* The properties follow from the invariant.                                *)

(* For a call in progress and a visible name both walks end at a: the       *)
(* interpreter's finds the name there or nowhere.                           *)
Located(i, x, a) ==
  /\ a \in DOMAIN contexts
  /\ Current(a, twin)
  /\ contexts[a].function.statement = AllocationScope(x)
  /\ twin[a] \in DOMAIN heapContexts
  /\ heapContexts[twin[a]].function = AllocationScope(x)
  /\ ContextOf(i, x) = twin[a]
  /\ Found(i, x) = IF x \in DOMAIN contexts[a].symbols THEN a ELSE 0
  /\ \/ twin[a] = frames[i].context
     \/ \E k \in DOMAIN heapContexts : heapContexts[k].outer = twin[a]

(* There is such a context.                                                 *)
LEMMA Locations ==
  ASSUME Invariant, NEW i \in DOMAIN stack, NEW x \in Visible(RunningFunction(i))
  PROVE  \E a \in DOMAIN contexts : Located(i, x, a)
<1>1. Types(contexts, stack, targets, heapContexts, frames, twin)
  BY DEF Invariant, Inv
<1>2. x \in Names /\ AllocationScope(x) \in Enclosing[RunningFunction(i)]
  BY DEF Visible, Names
<1>3. /\ stack[i] \in DOMAIN contexts /\ Current(stack[i], twin)
      /\ frames[i].code = RunningFunction(i) /\ frames[i].context = twin[stack[i]]
  BY DEF Invariant, Inv, FramesMatch, RunningFunction
<1>4. PICK a \in DOMAIN contexts : Reaches(stack[i], x, a)
  BY <1>2, <1>3, StaticChain DEF RunningFunction
<1>5. twin[a] \in DOMAIN heapContexts /\ heapContexts[twin[a]].function = AllocationScope(x)
  BY <1>4 DEF Reaches, Invariant, Inv, TwinsMatch
<1>6. ContextOf(i, x) = twin[a]
  BY <1>3, <1>4 DEF Reaches, ContextOf, RunningFunction
<1>7. Found(i, x) = IF x \in DOMAIN contexts[a].symbols THEN a ELSE 0
  <2>1. CASE AllocationScope(x) = Main
    <3>1. a = 1
      BY <1>4, <2>1 DEF Reaches, Invariant, Inv, ContextsNested, InnerFunctions
    <3>2. Last(stack) = 1
      BY DEF Last, Invariant, Inv, FramesMatch
    <3>3. contexts[1].function.outer = 0
      BY DEF Invariant, Inv, ContextsNested
    <3>4. FoundFrom(1, x) = IF x \in DOMAIN contexts[1].symbols THEN 1 ELSE 0
      BY <3>1, <3>3, FoundContexts
    <3> QED BY <2>1, <3>1, <3>2, <3>4 DEF Found
  <2>2. CASE AllocationScope(x) # Main
    BY <1>4, <2>2 DEF Reaches, Found
  <2> QED BY <2>1, <2>2
<1> QED BY <1>3, <1>4, <1>5, <1>6, <1>7 DEF Located, Reaches

(* Current contexts hold the values of the interpreter.                     *)
LEMMA InvariantSameValues == Invariant => SameValues
<1>1. SUFFICES ASSUME Invariant, NEW i \in DOMAIN stack,
                      NEW v \in Visible(RunningFunction(i)) \cap Variables, Found(i, v) # 0
               PROVE  /\ heapContexts[ContextOf(i, v)].function = Scope[v]
                      /\ SameValue(contexts[Found(i, v)].symbols[v],
                                   heapContexts[ContextOf(i, v)].slots[v])
  BY DEF SameValues
<1>2. PICK a \in DOMAIN contexts : Located(i, v, a)
  BY <1>1, Locations
<1>3. v \in DOMAIN contexts[a].symbols /\ Found(i, v) = a
  BY <1>1, <1>2 DEF Located
<1>4. Same(contexts[a].symbols[v], heapContexts[twin[a]].slots[v], heapContexts, twin)
  BY <1>1, <1>2, <1>3 DEF Invariant, Inv, SymbolsMatch, Located
<1>5. SameValue(contexts[a].symbols[v], heapContexts[twin[a]].slots[v])
  <2>1. contexts[a].symbols \in Symbols
    BY <1>1, <1>2, TypeFacts DEF Invariant, Inv
  <2>2. contexts[a].symbols[v] \in AllInterpreterValues
    BY <1>3, <2>1 DEF Symbols
  <2>3. contexts[a].symbols[v][1] \in {"undefined", "number", "function"}
    BY <2>2 DEF AllInterpreterValues, UNDEFINED
  <2> QED BY <1>4, <2>3 DEF Same, SameValue
<1> QED BY <1>2, <1>3, <1>5, ScopesOfNames DEF Located

(* The chain of a current context leads to contexts of the same calls.      *)
LEMMA InvariantLexicalChain == Invariant => LexicalChain
<1> SUFFICES ASSUME Invariant PROVE LexicalChain
  OBVIOUS
<1> DEFINE D == 0..Len(contexts)
           Body(h, c) == IF c = 0 THEN {} ELSE {c} \cup h[contexts[c].function.outer]
           IsChain(h) == h = [c \in D |-> Body(h, c)]
           chain == CHOOSE h : IsChain(h)
<1>1. Types(contexts, stack, targets, heapContexts, frames, twin)
  BY DEF Invariant, Inv
<1>2. /\ Len(contexts) \in Nat /\ DOMAIN contexts = 1..Len(contexts)
      /\ \A c \in DOMAIN contexts : contexts[c].function.outer \in 0..(c - 1)
  <2>1. Len(contexts) \in Nat /\ DOMAIN contexts = 1..Len(contexts)
    BY DEF Invariant, Inv, Types
  <2>2. contexts[1].function.outer = 0
    BY DEF Invariant, Inv, ContextsNested
  <2>3. \A c \in DOMAIN contexts : c # 1 => contexts[c].function.outer \in 1..(c - 1)
    BY DEF Invariant, Inv, ContextsNested
  <2> QED BY <2>1, <2>2, <2>3
<1>3. IsChain(chain)
  <2> DEFINE rank == [c \in D |-> c]
             base == [c \in {0} |-> {}]
             next == [c \in D \ {0} |-> contexts[c].function.outer]
             step == [c \in D \ {0} |-> [C \in SUBSET D |-> {c} \cup C]]
  <2>1. \A c \in D \ {0} : next[c] \in D /\ next[c] < c /\ next[c] = contexts[c].function.outer
    BY <1>2
  <2>2. Recursion(D, SUBSET D, rank, {0}, base, next, step)
    <3>1. rank \in [D -> Nat] /\ {0} \in SUBSET D /\ base \in [{0} -> SUBSET D]
      BY <1>2
    <3>2. step \in [D \ {0} -> [SUBSET D -> SUBSET D]]
      OBVIOUS
    <3>3. \A c \in D : rank[c] = c
      OBVIOUS
    <3> HIDE DEF rank, base, step, D
    <3>4. next \in [D \ {0} -> D] /\ \A c \in D \ {0} : rank[next[c]] < rank[c]
      BY <2>1, <3>3
    <3> QED BY <3>1, <3>2, <3>4 DEF Recursion
  <2>3. PICK h \in [D -> SUBSET D] : Satisfies(h, D, {0}, base, next, step)
    <3> HIDE DEF base, step, next, D, rank
    <3> QED BY <2>2, RecursiveFunctionExists
  <2>4. ASSUME NEW c \in D PROVE h[c] = Body(h, c)
    <3>1. CASE c = 0
      BY <2>3, <3>1 DEF Satisfies
    <3>2. CASE c # 0
      <4>1. h[next[c]] \in SUBSET D /\ next[c] = contexts[c].function.outer
        BY <2>1, <2>3, <3>2
      <4>2. h[c] = step[c][h[next[c]]]
        BY <2>3, <3>2 DEF Satisfies
      <4> QED BY <3>2, <4>1, <4>2
    <3> QED BY <3>1, <3>2
  <2>5. h = [c \in D |-> Body(h, c)]
    BY <2>3, <2>4
  <2>6. \E u : IsChain(u)
    BY <2>5
  <2> QED BY <2>6
<1> HIDE DEF chain
<1>4. chain[0] = {} /\ \A c \in DOMAIN contexts : chain[c] = {c} \cup chain[contexts[c].function.outer]
  <2>1. \A c \in D : chain[c] = Body(chain, c)
    BY <1>3
  <2>2. 0 \in D /\ \A c \in DOMAIN contexts : c \in D /\ c # 0
    BY <1>2
  <2> HIDE DEF D
  <2> QED BY <2>1, <2>2
<1> DEFINE St(c) == contexts[c].function.statement
           Leads(c, d) == /\ d \in DOMAIN contexts
                          /\ St(d) \in Enclosing[St(c)]
                          /\ OuterFunctionContext(twin[c], VariableDepth(St(c), St(d))) = twin[d]
           S == {c \in Nat : c \in DOMAIN contexts => \A d \in chain[c] : Leads(c, d)}
<1>5. ASSUME NEW c \in Nat, \A m \in Nat : m < c => m \in S PROVE c \in S
  <2>1. SUFFICES ASSUME c \in DOMAIN contexts, NEW d \in chain[c] PROVE Leads(c, d)
    OBVIOUS
  <2>2. St(c) \in Functions /\ St(c) \in Enclosing[St(c)]
    <3>1. St(c) \in Functions
      BY <1>1, <2>1, TypeFacts
    <3> QED BY <3>1, EnclosingFunctions DEF InnerFunctions
  <2>3. CASE d = c
    BY <2>1, <2>2, <2>3, VariableDepths, OuterFunctionContexts
  <2>4. CASE d # c
    <3> DEFINE o == contexts[c].function.outer
    <3>1. d \in chain[o]
      BY <1>4, <2>1, <2>4
    <3>2. c # 1
      BY <1>4, <3>1 DEF Invariant, Inv, ContextsNested
    <3>3. St(c) \in InnerFunctions /\ o \in 1..(c - 1) /\ St(o) = Outer[St(c)]
      BY <2>1, <3>2 DEF Invariant, Inv, ContextsNested
    <3>4. o \in Nat /\ o < c /\ o \in DOMAIN contexts
      BY <1>2, <2>1, <3>3
    <3>5. Leads(o, d)
      BY <1>5, <3>1, <3>4
    <3>6. St(d) \in Enclosing[St(c)]
      BY <3>3, <3>5, EnclosingFunctions
    <3>7. St(d) # St(c) /\ St(d) \in Functions /\ St(o) \in Functions
      BY <1>1, <3>3, <3>4, <3>5, NotEnclosedByInner, TypeFacts
    <3>8. PICK n \in Nat : n = VariableDepth(St(o), St(d))
      BY <3>7, VariableDepths
    <3>9. VariableDepth(St(c), St(d)) = n + 1
      BY <2>2, <3>3, <3>7, <3>8, VariableDepths DEF InnerFunctions
    <3>10. heapContexts[twin[c]].outer = twin[o]
      BY <2>1, <3>2 DEF Invariant, Inv, TwinsMatch
    <3>11. OuterFunctionContext(twin[c], n + 1) = OuterFunctionContext(twin[o], n)
      <4>1. OuterFunctionContext(twin[c], n + 1)
              = OuterFunctionContext(heapContexts[twin[c]].outer, n)
        BY OuterFunctionContexts
      <4> QED BY <3>10, <4>1
    <3> QED BY <3>5, <3>6, <3>8, <3>9, <3>11
  <2> QED BY <2>3, <2>4
<1>6. \A c \in DOMAIN contexts : c \in S
  <2>1. \A c \in Nat : c \in S
    <3> HIDE DEF S
    <3> QED BY <1>5, StrongInduction
  <2> QED BY <1>2, <2>1
<1>7. ASSUME NEW i \in DOMAIN stack
      PROVE  /\ frames[i].code = RunningFunction(i)
             /\ \A c \in chain[stack[i]] :
                  LET f == contexts[c].function.statement
                      k == OuterFunctionContext(frames[i].context, VariableDepth(frames[i].code, f))
                  IN k = twin[c] /\ heapContexts[k].function = f
  <2>1. /\ stack[i] \in DOMAIN contexts
        /\ frames[i].code = St(stack[i]) /\ frames[i].context = twin[stack[i]]
    BY DEF Invariant, Inv, FramesMatch
  <2>2. \A c \in chain[stack[i]] : Leads(stack[i], c)
    BY <1>6, <2>1
  <2>3. \A c \in DOMAIN contexts : heapContexts[twin[c]].function = St(c)
    BY DEF Invariant, Inv, TwinsMatch
  <2> QED BY <2>1, <2>2, <2>3 DEF RunningFunction
<1> QED BY <1>7 DEF LexicalChain, chain

(* A context refers to contexts that exist, and has a word for each local.  *)
LEMMA InvariantTypeOK == Invariant => TypeOK
<1> SUFFICES ASSUME Invariant PROVE TypeOK
  OBVIOUS
<1>1. Types(contexts, stack, targets, heapContexts, frames, twin)
  BY DEF Invariant, Inv
<1>2. ASSUME NEW c \in DOMAIN contexts
      PROVE  LET f == contexts[c].function.statement
             IN /\ contexts[c].function \in [statement : Functions, outer : 0..(c - 1)]
                /\ DOMAIN contexts[c].symbols \subseteq VariablesOf(f) \cup InnerOf(f)
                /\ \A x \in DOMAIN contexts[c].symbols : contexts[c].symbols[x] \in InterpreterValues
  <2>1. contexts[c].function.outer \in 0..(c - 1)
    <3>1. c \in Nat \ {0}
      BY <1>1, TypeFacts
    <3>2. CASE c = 1
      BY <3>2 DEF Invariant, Inv, ContextsNested
    <3>3. CASE c # 1
      <4>1. contexts[c].function.outer \in 1..(c - 1)
        BY <3>3 DEF Invariant, Inv, ContextsNested
      <4> QED BY <3>1, <4>1
    <3> QED BY <3>2, <3>3
  <2>2. contexts[c].function \in [statement : Functions, outer : 0..(c - 1)]
    <3>1. contexts[c].function \in InterpreterFunction
      BY <1>1, TypeFacts DEF InterpreterContext
    <3> QED BY <2>1, <3>1 DEF InterpreterFunction
  <2>3. DOMAIN contexts[c].symbols \subseteq VariablesOf(contexts[c].function.statement)
                                              \cup InnerOf(contexts[c].function.statement)
    BY DEF Invariant, Inv, SymbolsNested
  <2>4. ASSUME NEW x \in DOMAIN contexts[c].symbols
        PROVE  contexts[c].symbols[x] \in InterpreterValues
    <3> DEFINE value == contexts[c].symbols[x]
    <3>1. value \in AllInterpreterValues
      <4>1. contexts[c].symbols \in Symbols
        BY <1>1, TypeFacts
      <4> QED BY <4>1 DEF Symbols
    <3>2. ValueNested(value, contexts)
      BY DEF Invariant, Inv, SymbolsNested
    <3> HIDE DEF value
    <3>3. CASE value \in {"function"} \X [statement : InnerFunctions, outer : Nat]
      <4>1. value[1] = "function" /\ value = <<value[1], value[2]>>
            /\ value[2] \in [statement : InnerFunctions, outer : Nat]
        BY <3>3
      <4>2. value[2].outer \in DOMAIN contexts
        BY <3>2, <4>1 DEF ValueNested
      <4>3. value[2] \in [statement : InnerFunctions, outer : DOMAIN contexts]
        BY <4>1, <4>2
      <4>4. value \in InterpreterValues
        BY <4>1, <4>3 DEF InterpreterValues
      <4> QED BY <4>4 DEF value
    <3> QED BY <3>1, <3>3 DEF AllInterpreterValues, InterpreterValues, value
  <2> QED BY <2>2, <2>3, <2>4
<1>3. ASSUME NEW word \in HeapWords, WordNested(word, heapContexts)
      PROVE  word \in HeapValues \cup {UNSET}
  <2>1. CASE word \in {"function"} \X [code : InnerFunctions, context : Nat]
    <3>1. word[2].context \in DOMAIN heapContexts
      BY <1>3, <2>1 DEF WordNested
    <3>2. word[1] = "function" /\ word = <<word[1], word[2]>>
          /\ word[2] \in [code : InnerFunctions, context : Nat]
      BY <2>1
    <3>3. word[2] \in [code : InnerFunctions, context : DOMAIN heapContexts]
      BY <3>1, <3>2
    <3> QED BY <3>2, <3>3 DEF HeapValues
  <2> QED BY <2>1 DEF HeapWords, AllHeapValues, HeapValues
<1>4. ASSUME NEW k \in DOMAIN heapContexts
      PROVE  /\ heapContexts[k].function \in Functions
             /\ heapContexts[k].outer \in 0..(k - 1)
             /\ heapContexts[k].slots
                  \in [VariablesOf(heapContexts[k].function) -> HeapValues \cup {UNSET}]
             /\ heapContexts[k].result \in HeapValues \cup {UNSET}
  <2>1. /\ k \in Nat \ {0} /\ heapContexts[k].function \in Functions
        /\ heapContexts[k].slots \in Slots /\ heapContexts[k].result \in HeapWords
    BY <1>1, TypeFacts
  <2>2. heapContexts[k].outer \in 0..(k - 1)
    <3>1. CASE k = 1
      BY <3>1 DEF Invariant, Inv, HeapNested
    <3>2. CASE k # 1
      <4>1. heapContexts[k].outer \in 1..(k - 1)
        BY <3>2 DEF Invariant, Inv, HeapNested
      <4> QED BY <2>1, <4>1
    <3> QED BY <3>1, <3>2
  <2>3. /\ DOMAIN heapContexts[k].slots = VariablesOf(heapContexts[k].function)
        /\ \A v \in DOMAIN heapContexts[k].slots : WordNested(heapContexts[k].slots[v], heapContexts)
        /\ WordNested(heapContexts[k].result, heapContexts)
    BY DEF Invariant, Inv, WordsNested
  <2>4. \A v \in DOMAIN heapContexts[k].slots : heapContexts[k].slots[v] \in HeapValues \cup {UNSET}
    <3> TAKE v \in DOMAIN heapContexts[k].slots
    <3>1. heapContexts[k].slots[v] \in HeapWords
      BY <2>1 DEF Slots
    <3> QED BY <1>3, <2>3, <3>1
  <2>5. heapContexts[k].slots
          \in [VariablesOf(heapContexts[k].function) -> HeapValues \cup {UNSET}]
    <3>1. heapContexts[k].slots
            = [v \in DOMAIN heapContexts[k].slots |-> heapContexts[k].slots[v]]
      BY <2>1 DEF Slots
    <3> QED BY <2>3, <2>4, <3>1
  <2> QED BY <1>3, <2>1, <2>2, <2>3, <2>5
<1>5. Len(stack) = Len(frames) /\ Len(targets) = Len(stack) - 1 /\ Len(twin) = Len(contexts)
  BY DEF Invariant, Inv, Types
<1>6. twin \in Seq(DOMAIN heapContexts)
  <2>1. \A c \in DOMAIN contexts : twin[c] \in DOMAIN heapContexts
    BY DEF Invariant, Inv, TwinsMatch
  <2>2. twin \in Seq(Nat \ {0})
    BY <1>1 DEF Types
  <2>3. DOMAIN twin = DOMAIN contexts
    BY <1>1, TypeFacts
  <2> QED BY ONLY <2>1, <2>2, <2>3
<1> QED BY <1>2, <1>4, <1>5, <1>6 DEF TypeOK

-----------------------------------------------------------------------------
(* What statements do to the heap.                                          *)

(* Every context of hs is in hs2, with the same function and outer context. *)
Keeps(hs, hs2) ==
  /\ DOMAIN hs \subseteq DOMAIN hs2
  /\ \A k \in DOMAIN hs : hs2[k].function = hs[k].function /\ hs2[k].outer = hs[k].outer

(* A Function is a word of a kind of its own.                               *)
LEMMA WordKinds ==
  /\ ~ UNSET \in {"function"} \X [code : InnerFunctions, context : Nat]
  /\ \A n \in {"number"} \X Numbers :
       /\ n[1] = "number"
       /\ ~ n \in {"function"} \X [code : InnerFunctions, context : Nat]
  /\ \A word \in HeapWords : word # UNSET /\ word[1] = "function" =>
       word \in {"function"} \X [code : InnerFunctions, context : Nat]
  /\ \A hs : WordNested(UNSET, hs) /\ \A n \in {"number"} \X Numbers : WordNested(n, hs)
<1>1. ~ UNSET \in {"function"} \X [code : InnerFunctions, context : Nat]
  BY NamesAssumption
<1>2. ASSUME NEW n \in {"number"} \X Numbers
      PROVE  n[1] = "number" /\ ~ n \in {"function"} \X [code : InnerFunctions, context : Nat]
  <2>1. n[1] = "number"
    OBVIOUS
  <2>2. ASSUME n \in {"function"} \X [code : InnerFunctions, context : Nat] PROVE n[1] = "function"
    BY <2>2
  <2> QED BY <2>1, <2>2
<1>3. \A word \in HeapWords : word # UNSET /\ word[1] = "function" =>
        word \in {"function"} \X [code : InnerFunctions, context : Nat]
  BY DEF HeapWords, AllHeapValues
<1> QED BY <1>1, <1>2, <1>3 DEF WordNested

(* The values of the interpreter are of three kinds.                        *)
LEMMA ValueKinds ==
  \A value \in AllInterpreterValues :
    /\ value[1] \in {"undefined", "number", "function"}
    /\ value[1] = "function" => value \in {"function"} \X [statement : InnerFunctions, outer : Nat]
BY DEF AllInterpreterValues, UNDEFINED

(* What a word refers to does not change.                                   *)
LEMMA WordKept ==
  ASSUME NEW hs, NEW hs2, Keeps(hs, hs2), NEW word, WordNested(word, hs)
  PROVE  WordNested(word, hs2)
BY DEF WordNested, Keeps

(* A value and a word that are the same remain so.                          *)
LEMMA SameKept ==
  ASSUME NEW hs, NEW hs2, Keeps(hs, hs2), NEW tw, NEW value \in AllInterpreterValues,
         NEW word \in HeapWords, WordNested(word, hs), Same(value, word, hs, tw)
  PROVE  Same(value, word, hs2, tw)
<1>1. value[1] \in {"undefined", "number", "function"}
  BY ValueKinds
<1>2. CASE value[1] = "undefined"
  BY <1>2 DEF Same
<1>3. CASE value[1] = "number"
  BY <1>3 DEF Same
<1>4. CASE value[1] = "function"
  <2>1. /\ word # UNSET /\ word[1] = "function" /\ word[2].code = value[2].statement
        /\ hs[word[2].context].outer = tw[value[2].outer] /\ Current(value[2].outer, tw)
    BY <1>4 DEF Same
  <2>2. word[2].context \in DOMAIN hs
    BY <2>1, WordKinds DEF WordNested
  <2>3. hs2[word[2].context].outer = tw[value[2].outer]
    BY <2>1, <2>2 DEF Keeps
  <2> QED BY <1>4, <2>1, <2>3 DEF Same
<1> QED BY <1>1, <1>2, <1>3, <1>4

(* The words that contexts hold.                                            *)
LEMMA StoredValues ==
  ASSUME NEW cs, NEW st, NEW tg, NEW hs, NEW fr, NEW tw, Inv(cs, st, tg, hs, fr, tw)
  PROVE  /\ \A c \in DOMAIN cs : \A x \in DOMAIN cs[c].symbols : cs[c].symbols[x] \in AllInterpreterValues
         /\ \A k \in DOMAIN hs : \A v \in DOMAIN hs[k].slots : hs[k].slots[v] \in HeapWords
         /\ \A c \in DOMAIN cs : \A v \in DOMAIN cs[c].symbols \cap Variables :
              tw[c] \in DOMAIN hs /\ v \in DOMAIN hs[tw[c]].slots
<1>1. Types(cs, st, tg, hs, fr, tw)
  BY DEF Inv
<1>2. /\ \A c \in DOMAIN cs : cs[c].symbols \in Symbols /\ cs[c].function.statement \in Functions
      /\ \A k \in DOMAIN hs : hs[k].slots \in Slots
  BY <1>1, TypeFacts
<1>3. ASSUME NEW c \in DOMAIN cs, NEW v \in DOMAIN cs[c].symbols \cap Variables
      PROVE  tw[c] \in DOMAIN hs /\ v \in DOMAIN hs[tw[c]].slots
  <2>1. tw[c] \in DOMAIN hs /\ hs[tw[c]].function = cs[c].function.statement
    BY DEF Inv, TwinsMatch
  <2>2. v \in VariablesOf(cs[c].function.statement)
    <3>1. v \in VariablesOf(cs[c].function.statement) \cup InnerOf(cs[c].function.statement)
      BY DEF Inv, SymbolsNested
    <3> QED BY <3>1, ScopesOfNames DEF InnerOf
  <2> QED BY <2>1, <2>2 DEF Inv, WordsNested
<1>4. \A c \in DOMAIN cs : \A x \in DOMAIN cs[c].symbols : cs[c].symbols[x] \in AllInterpreterValues
  BY <1>2 DEF Symbols
<1>5. \A k \in DOMAIN hs : \A v \in DOMAIN hs[k].slots : hs[k].slots[v] \in HeapWords
  BY <1>2 DEF Slots
<1> QED BY <1>3, <1>4, <1>5

(* No context of hs is inside of context k.                                 *)
NoneInside(k, hs) == \A j \in DOMAIN hs : hs[j].outer # k

(* A new context of the compiled code.                                      *)
EmptyContext(f, o) ==
  [function |-> f, outer |-> o, slots |-> [v \in VariablesOf(f) |-> UNSET], result |-> UNSET]

(* A context is created inside of one of the function around.               *)
LEMMA HeapGrows ==
  ASSUME NEW cs, NEW st, NEW tg, NEW hs, NEW fr, NEW tw, Inv(cs, st, tg, hs, fr, tw),
         NEW f \in InnerFunctions, NEW o \in DOMAIN hs, hs[o].function = Outer[f],
         NEW hs2, hs2 = Append(hs, EmptyContext(f, o))
  PROVE  /\ Inv(cs, st, tg, hs2, fr, tw)
         /\ Keeps(hs, hs2)
         /\ Len(hs2) = Len(hs) + 1 /\ Len(hs2) \in DOMAIN hs2 /\ Len(hs2) \notin DOMAIN hs
         /\ hs2[Len(hs2)].function = f /\ hs2[Len(hs2)].outer = o
<1> DEFINE new == EmptyContext(f, o)
           n == Len(hs) + 1
<1>1. Types(cs, st, tg, hs, fr, tw)
  BY DEF Inv
<1>2. /\ Len(hs) \in Nat \ {0} /\ DOMAIN hs = 1..Len(hs) /\ o \in Nat
  BY <1>1, TypeFacts
<1>3. new \in HeapContext
  <2>1. [v \in VariablesOf(f) |-> UNSET] \in Slots
    <3>1. VariablesOf(f) \in SUBSET Variables /\ UNSET \in HeapWords
      BY DEF VariablesOf, HeapWords
    <3> QED BY <3>1 DEF Slots
  <2> QED BY <1>2, <2>1 DEF HeapContext, HeapWords, InnerFunctions, EmptyContext
<1>4. /\ new.function = f /\ new.outer = o /\ new.result = UNSET
      /\ DOMAIN new.slots = VariablesOf(f) /\ \A v \in VariablesOf(f) : new.slots[v] = UNSET
  BY DEF EmptyContext
<1>5. hs2 = Append(hs, new)
  OBVIOUS
<1> HIDE DEF new
<1>6. /\ hs2 \in Seq(HeapContext) /\ Len(hs2) = n /\ DOMAIN hs2 = 1..n
      /\ \A k \in DOMAIN hs : hs2[k] = hs[k]
      /\ hs2[n] = new
  BY <1>1, <1>2, <1>3, <1>5 DEF Types
<1>7. DOMAIN hs2 = DOMAIN hs \cup {n} /\ n \notin DOMAIN hs /\ n # 1 /\ 1 \in DOMAIN hs
  BY <1>2, <1>6
<1>8. Keeps(hs, hs2)
  BY <1>6, <1>7 DEF Keeps
<1>9. Types(cs, st, tg, hs2, fr, tw)
  BY <1>1, <1>2, <1>6 DEF Types
<1>10. HeapNested(hs2)
  <2>1. hs2[1].function = Main /\ hs2[1].outer = 0
    BY <1>6, <1>7 DEF Inv, HeapNested
  <2>2. ASSUME NEW k \in DOMAIN hs2, k # 1
        PROVE  /\ hs2[k].function \in InnerFunctions
               /\ hs2[k].outer \in 1..(k - 1)
               /\ hs2[hs2[k].outer].function = Outer[hs2[k].function]
    <3>1. CASE k \in DOMAIN hs
      <4>1. /\ hs[k].function \in InnerFunctions
            /\ hs[k].outer \in 1..(k - 1)
            /\ hs[hs[k].outer].function = Outer[hs[k].function]
        BY <2>2, <3>1 DEF Inv, HeapNested
      <4>2. hs[k].outer \in DOMAIN hs
        BY <1>2, <3>1, <4>1
      <4> QED BY <1>6, <3>1, <4>1, <4>2
    <3>2. CASE k = n
      <4>1. o \in 1..(n - 1)
        BY <1>2
      <4> QED BY <1>4, <1>6, <3>2, <4>1
    <3> QED BY <1>7, <3>1, <3>2
  <2> QED BY <2>1, <2>2 DEF HeapNested
<1>11. WordsNested(hs2)
  <2>1. ASSUME NEW k \in DOMAIN hs2
        PROVE  /\ DOMAIN hs2[k].slots = VariablesOf(hs2[k].function)
               /\ \A v \in DOMAIN hs2[k].slots : WordNested(hs2[k].slots[v], hs2)
               /\ WordNested(hs2[k].result, hs2)
    <3>1. CASE k \in DOMAIN hs
      BY <1>6, <1>8, <3>1, WordKept DEF Inv, WordsNested
    <3>2. CASE k = n
      BY <1>4, <1>6, <3>2, WordKinds
    <3> QED BY <1>7, <3>1, <3>2
  <2> QED BY <2>1 DEF WordsNested
<1>12. TwinsMatch(cs, hs2, tw)
  <2>1. ASSUME NEW c \in DOMAIN cs
        PROVE  /\ tw[c] \in DOMAIN hs2
               /\ hs2[tw[c]].function = cs[c].function.statement
               /\ c # 1 => hs2[tw[c]].outer = tw[cs[c].function.outer]
    <3>1. /\ tw[c] \in DOMAIN hs
          /\ hs[tw[c]].function = cs[c].function.statement
          /\ c # 1 => hs[tw[c]].outer = tw[cs[c].function.outer]
      BY DEF Inv, TwinsMatch
    <3> QED BY <1>8, <3>1 DEF Keeps
  <2> QED BY <2>1 DEF TwinsMatch, Inv
<1>13. SymbolsMatch(cs, hs2, tw)
  <2>1. ASSUME NEW c \in DOMAIN cs, Current(c, tw), NEW v \in DOMAIN cs[c].symbols \cap Variables
        PROVE  Same(cs[c].symbols[v], hs2[tw[c]].slots[v], hs2, tw)
    <3>1. tw[c] \in DOMAIN hs /\ v \in DOMAIN hs[tw[c]].slots
      BY StoredValues
    <3>2. cs[c].symbols[v] \in AllInterpreterValues /\ hs[tw[c]].slots[v] \in HeapWords
      BY <3>1, StoredValues
    <3>3. Same(cs[c].symbols[v], hs[tw[c]].slots[v], hs, tw) /\ WordNested(hs[tw[c]].slots[v], hs)
      BY <2>1, <3>1 DEF Inv, SymbolsMatch, WordsNested
    <3>4. Same(cs[c].symbols[v], hs[tw[c]].slots[v], hs2, tw)
      BY <1>8, <3>2, <3>3, SameKept
    <3> QED BY <1>6, <3>1, <3>4
  <2> QED BY <2>1 DEF SymbolsMatch
<1>14. Inv(cs, st, tg, hs2, fr, tw)
  BY <1>9, <1>10, <1>11, <1>12, <1>13 DEF Inv
<1> QED BY <1>4, <1>6, <1>7, <1>8, <1>14

(* It is inside of no other context than o.                                 *)
LEMMA InsideGrows ==
  ASSUME NEW hs \in Seq(HeapContext), NEW f \in InnerFunctions, NEW o \in DOMAIN hs,
         NEW k, k # o, NoneInside(k, hs)
  PROVE  NoneInside(k, Append(hs, EmptyContext(f, o)))
<1>1. DOMAIN hs = 1..Len(hs) /\ Len(hs) \in Nat
  OBVIOUS
<1>2. EmptyContext(f, o) \in HeapContext
  <2>1. [v \in VariablesOf(f) |-> UNSET] \in Slots
    <3>1. VariablesOf(f) \in SUBSET Variables /\ UNSET \in HeapWords
      BY DEF VariablesOf, HeapWords
    <3> QED BY <3>1 DEF Slots
  <2> QED BY <1>1, <2>1 DEF HeapContext, HeapWords, InnerFunctions, EmptyContext
<1>3. PICK new \in HeapContext : new = EmptyContext(f, o) /\ new.outer = o
  BY <1>2 DEF EmptyContext
<1>4. /\ DOMAIN Append(hs, new) = DOMAIN hs \cup {Len(hs) + 1}
      /\ Append(hs, new)[Len(hs) + 1] = new
      /\ \A j \in DOMAIN hs : Append(hs, new)[j] = hs[j]
  <2>1. hs \in Seq(HeapContext) /\ new \in HeapContext
    OBVIOUS
  <2> QED BY ONLY <2>1, ElementAppended
<1> QED BY <1>3, <1>4 DEF NoneInside

(* Words are written into contexts that exist.                              *)
LEMMA HeapWritten ==
  ASSUME NEW cs, NEW st, NEW tg, NEW hs, NEW fr, NEW tw, Inv(cs, st, tg, hs, fr, tw),
         NEW hs2 \in Seq(HeapContext), Len(hs2) = Len(hs),
         \A k \in DOMAIN hs :
           /\ hs2[k].function = hs[k].function /\ hs2[k].outer = hs[k].outer
           /\ DOMAIN hs2[k].slots = DOMAIN hs[k].slots
           /\ \A v \in DOMAIN hs[k].slots : WordNested(hs2[k].slots[v], hs)
           /\ WordNested(hs2[k].result, hs)
  PROVE  /\ DOMAIN hs2 = DOMAIN hs /\ Keeps(hs, hs2)
         /\ Types(cs, st, tg, hs2, fr, tw)
         /\ HeapNested(hs2)
         /\ WordsNested(hs2)
         /\ TwinsMatch(cs, hs2, tw)
<1>1. Types(cs, st, tg, hs, fr, tw)
  BY DEF Inv
<1>2. Len(hs) \in Nat \ {0} /\ DOMAIN hs = 1..Len(hs) /\ DOMAIN hs2 = DOMAIN hs
  BY <1>1, TypeFacts
<1>3. Keeps(hs, hs2)
  BY <1>2 DEF Keeps
<1>4. Types(cs, st, tg, hs2, fr, tw)
  BY <1>1 DEF Types
<1>5. HeapNested(hs2)
  <2>1. hs2[1].function = Main /\ hs2[1].outer = 0
    <3>1. 1 \in DOMAIN hs
      BY <1>2
    <3> QED BY <3>1 DEF Inv, HeapNested
  <2>2. ASSUME NEW k \in DOMAIN hs2, k # 1
        PROVE  /\ hs2[k].function \in InnerFunctions
               /\ hs2[k].outer \in 1..(k - 1)
               /\ hs2[hs2[k].outer].function = Outer[hs2[k].function]
    <3>1. /\ hs[k].function \in InnerFunctions
          /\ hs[k].outer \in 1..(k - 1)
          /\ hs[hs[k].outer].function = Outer[hs[k].function]
      BY <1>2, <2>2 DEF Inv, HeapNested
    <3>2. hs[k].outer \in DOMAIN hs
      BY <1>2, <3>1
    <3> QED BY <1>2, <3>1, <3>2
  <2> QED BY <2>1, <2>2 DEF HeapNested
<1>6. WordsNested(hs2)
  <2>1. ASSUME NEW k \in DOMAIN hs2
        PROVE  /\ DOMAIN hs2[k].slots = VariablesOf(hs2[k].function)
               /\ \A v \in DOMAIN hs2[k].slots : WordNested(hs2[k].slots[v], hs2)
               /\ WordNested(hs2[k].result, hs2)
    <3>1. DOMAIN hs[k].slots = VariablesOf(hs[k].function)
      BY <1>2 DEF Inv, WordsNested
    <3> QED BY <1>2, <1>3, <3>1, WordKept
  <2> QED BY <2>1 DEF WordsNested
<1>7. TwinsMatch(cs, hs2, tw)
  <2>1. ASSUME NEW c \in DOMAIN cs
        PROVE  /\ tw[c] \in DOMAIN hs2
               /\ hs2[tw[c]].function = cs[c].function.statement
               /\ c # 1 => hs2[tw[c]].outer = tw[cs[c].function.outer]
    <3>1. /\ tw[c] \in DOMAIN hs
          /\ hs[tw[c]].function = cs[c].function.statement
          /\ c # 1 => hs[tw[c]].outer = tw[cs[c].function.outer]
      BY DEF Inv, TwinsMatch
    <3> QED BY <1>3, <3>1 DEF Keeps
  <2> QED BY <2>1 DEF TwinsMatch, Inv
<1> QED BY <1>2, <1>3, <1>4, <1>5, <1>6, <1>7

(* What Return does to the context of the call.                             *)
WithResult(hs, k, word) == [hs EXCEPT ![k].result = word]

(* A result is written.                                                     *)
LEMMA ResultWritten ==
  ASSUME NEW cs, NEW st, NEW tg, NEW hs, NEW fr, NEW tw, Inv(cs, st, tg, hs, fr, tw),
         NEW k \in DOMAIN hs, NEW word \in HeapWords, WordNested(word, hs),
         NEW hs2, hs2 = WithResult(hs, k, word)
  PROVE  Inv(cs, st, tg, hs2, fr, tw) /\ Keeps(hs, hs2) /\ hs2[k].result = word
<1>1. Types(cs, st, tg, hs, fr, tw)
  BY DEF Inv
<1>2. DOMAIN hs = 1..Len(hs) /\ hs[k] \in HeapContext
  BY <1>1, TypeFacts
<1> DEFINE new == [hs[k] EXCEPT !.result = word]
<1>3. /\ new \in HeapContext /\ new.result = word
      /\ new.function = hs[k].function /\ new.outer = hs[k].outer /\ new.slots = hs[k].slots
  BY <1>2 DEF HeapContext
<1>4. hs2 = [hs EXCEPT ![k] = new]
  BY DEF WithResult
<1> HIDE DEF new
<1>5. /\ hs2 \in Seq(HeapContext) /\ Len(hs2) = Len(hs)
      /\ hs2[k] = new /\ \A j \in DOMAIN hs : j # k => hs2[j] = hs[j]
  <2>1. hs \in Seq(HeapContext)
    BY <1>1 DEF Types
  <2> QED BY <1>3, <1>4, <2>1, ElementReplaced
<1>6. ASSUME NEW j \in DOMAIN hs
      PROVE  /\ hs2[j].function = hs[j].function /\ hs2[j].outer = hs[j].outer
             /\ hs2[j].slots = hs[j].slots /\ DOMAIN hs2[j].slots = DOMAIN hs[j].slots
             /\ \A v \in DOMAIN hs[j].slots : WordNested(hs2[j].slots[v], hs)
             /\ WordNested(hs2[j].result, hs)
  <2>1. /\ \A u \in DOMAIN hs[j].slots : WordNested(hs[j].slots[u], hs)
        /\ WordNested(hs[j].result, hs)
    BY DEF Inv, WordsNested
  <2>2. CASE j = k
    BY <1>3, <1>5, <2>1, <2>2
  <2>3. CASE j # k
    BY <1>5, <2>1, <2>3
  <2> QED BY <2>2, <2>3
<1>7. \A j \in DOMAIN hs :
        /\ hs2[j].function = hs[j].function /\ hs2[j].outer = hs[j].outer
        /\ DOMAIN hs2[j].slots = DOMAIN hs[j].slots
        /\ \A v \in DOMAIN hs[j].slots : WordNested(hs2[j].slots[v], hs)
        /\ WordNested(hs2[j].result, hs)
  BY <1>6
<1>8. /\ Keeps(hs, hs2) /\ Types(cs, st, tg, hs2, fr, tw) /\ HeapNested(hs2)
      /\ WordsNested(hs2) /\ TwinsMatch(cs, hs2, tw)
  <2>1. Inv(cs, st, tg, hs, fr, tw) /\ hs2 \in Seq(HeapContext) /\ Len(hs2) = Len(hs)
    BY <1>5
  <2> QED BY ONLY <1>7, <2>1, HeapWritten
<1>9. SymbolsMatch(cs, hs2, tw)
  <2>1. ASSUME NEW c \in DOMAIN cs, Current(c, tw), NEW v \in DOMAIN cs[c].symbols \cap Variables
        PROVE  Same(cs[c].symbols[v], hs2[tw[c]].slots[v], hs2, tw)
    <3>1. tw[c] \in DOMAIN hs /\ v \in DOMAIN hs[tw[c]].slots
      BY StoredValues
    <3>2. cs[c].symbols[v] \in AllInterpreterValues /\ hs[tw[c]].slots[v] \in HeapWords
      BY <3>1, StoredValues
    <3>3. Same(cs[c].symbols[v], hs[tw[c]].slots[v], hs, tw) /\ WordNested(hs[tw[c]].slots[v], hs)
      BY <2>1, <3>1 DEF Inv, SymbolsMatch, WordsNested
    <3>4. Same(cs[c].symbols[v], hs[tw[c]].slots[v], hs2, tw)
      BY <1>8, <3>2, <3>3, SameKept
    <3> QED BY <1>6, <3>1, <3>4
  <2> QED BY <2>1 DEF SymbolsMatch
<1> QED BY <1>3, <1>5, <1>8, <1>9 DEF Inv

(* The words of a heap in which slot v of context k is written.             *)
LEMMA SlotWritten ==
  ASSUME NEW cs, NEW st, NEW tg, NEW hs, NEW fr, NEW tw, Inv(cs, st, tg, hs, fr, tw),
         NEW k \in DOMAIN hs, NEW v \in DOMAIN hs[k].slots,
         NEW word \in HeapWords, WordNested(word, hs),
         NEW hs2, hs2 = AddParameter(hs, k, v, word)
  PROVE  /\ DOMAIN hs2 = DOMAIN hs /\ Keeps(hs, hs2)
         /\ Types(cs, st, tg, hs2, fr, tw)
         /\ HeapNested(hs2)
         /\ WordsNested(hs2)
         /\ TwinsMatch(cs, hs2, tw)
         /\ hs2[k].slots[v] = word
         /\ \A j \in DOMAIN hs : \A u \in DOMAIN hs[j].slots :
              (j # k \/ u # v) => hs2[j].slots[u] = hs[j].slots[u]
<1>1. Types(cs, st, tg, hs, fr, tw)
  BY DEF Inv
<1>2. DOMAIN hs = 1..Len(hs) /\ hs[k] \in HeapContext /\ hs[k].slots \in Slots
  BY <1>1, TypeFacts
<1> DEFINE slots == [hs[k].slots EXCEPT ![v] = word]
           new == [hs[k] EXCEPT !.slots = slots]
<1>3. /\ DOMAIN slots = DOMAIN hs[k].slots
      /\ slots[v] = word /\ \A u \in DOMAIN hs[k].slots : u # v => slots[u] = hs[k].slots[u]
      /\ slots \in Slots
  <2>1. PICK D \in SUBSET Variables : hs[k].slots \in [D -> HeapWords]
    BY <1>2 DEF Slots
  <2>2. slots \in [D -> HeapWords]
    BY <2>1
  <2> QED BY <2>1, <2>2 DEF Slots
<1> HIDE DEF slots
<1>4. /\ new \in HeapContext /\ new.slots = slots
      /\ new.function = hs[k].function /\ new.outer = hs[k].outer /\ new.result = hs[k].result
  BY <1>2, <1>3 DEF HeapContext
<1>5. hs2 = [hs EXCEPT ![k] = new]
  BY DEF slots, AddParameter
<1> HIDE DEF new
<1>6. /\ hs2 \in Seq(HeapContext) /\ Len(hs2) = Len(hs)
      /\ hs2[k] = new /\ \A j \in DOMAIN hs : j # k => hs2[j] = hs[j]
  <2>1. hs \in Seq(HeapContext)
    BY <1>1 DEF Types
  <2> QED BY <1>4, <1>5, <2>1, ElementReplaced
<1>7. ASSUME NEW j \in DOMAIN hs
      PROVE  /\ hs2[j].function = hs[j].function /\ hs2[j].outer = hs[j].outer
             /\ DOMAIN hs2[j].slots = DOMAIN hs[j].slots
             /\ \A u \in DOMAIN hs[j].slots : WordNested(hs2[j].slots[u], hs)
             /\ WordNested(hs2[j].result, hs)
  <2>1. /\ \A u \in DOMAIN hs[j].slots : WordNested(hs[j].slots[u], hs)
        /\ WordNested(hs[j].result, hs)
    BY DEF Inv, WordsNested
  <2>2. CASE j = k
    BY <1>3, <1>4, <1>6, <2>1, <2>2
  <2>3. CASE j # k
    BY <1>6, <2>1, <2>3
  <2> QED BY <2>2, <2>3
<1>8. /\ DOMAIN hs2 = DOMAIN hs /\ Keeps(hs, hs2)
      /\ Types(cs, st, tg, hs2, fr, tw) /\ HeapNested(hs2)
      /\ WordsNested(hs2) /\ TwinsMatch(cs, hs2, tw)
  BY <1>6, <1>7, HeapWritten
<1> QED BY <1>3, <1>4, <1>6, <1>8

(* Current contexts do not share a FunctionContext.                         *)
LEMMA TwinsDiffer ==
  ASSUME NEW cs, NEW st, NEW tg, NEW hs, NEW fr, NEW tw, Inv(cs, st, tg, hs, fr, tw),
         NEW c \in DOMAIN cs, NEW d \in DOMAIN cs, Current(c, tw), Current(d, tw), c # d
  PROVE  tw[c] # tw[d]
<1>1. c \in DOMAIN tw /\ d \in DOMAIN tw /\ (c < d \/ d < c)
  BY TypeFacts DEF Inv
<1> QED BY <1>1 DEF Current

(* A slot is written for a variable that the interpreter has no value for.  *)
LEMMA UnboundWritten ==
  ASSUME NEW cs, NEW st, NEW tg, NEW hs, NEW fr, NEW tw, Inv(cs, st, tg, hs, fr, tw),
         NEW a \in DOMAIN cs, Current(a, tw), NEW v \in VariablesOf(cs[a].function.statement),
         v \notin DOMAIN cs[a].symbols,
         NEW word \in HeapWords, WordNested(word, hs),
         NEW hs2, hs2 = AddParameter(hs, tw[a], v, word)
  PROVE  Inv(cs, st, tg, hs2, fr, tw)
<1>1. tw[a] \in DOMAIN hs /\ v \in DOMAIN hs[tw[a]].slots
  BY DEF Inv, TwinsMatch, WordsNested
<1>2. /\ DOMAIN hs2 = DOMAIN hs /\ Keeps(hs, hs2)
      /\ Types(cs, st, tg, hs2, fr, tw)
      /\ HeapNested(hs2)
      /\ WordsNested(hs2)
      /\ TwinsMatch(cs, hs2, tw)
      /\ \A j \in DOMAIN hs : \A u \in DOMAIN hs[j].slots :
           (j # tw[a] \/ u # v) => hs2[j].slots[u] = hs[j].slots[u]
  BY <1>1, SlotWritten
<1>3. SymbolsMatch(cs, hs2, tw)
  <2>1. ASSUME NEW c \in DOMAIN cs, Current(c, tw), NEW u \in DOMAIN cs[c].symbols \cap Variables
        PROVE  Same(cs[c].symbols[u], hs2[tw[c]].slots[u], hs2, tw)
    <3>1. tw[c] \in DOMAIN hs /\ u \in DOMAIN hs[tw[c]].slots
      BY StoredValues
    <3>2. cs[c].symbols[u] \in AllInterpreterValues /\ hs[tw[c]].slots[u] \in HeapWords
      BY <3>1, StoredValues
    <3>3. Same(cs[c].symbols[u], hs[tw[c]].slots[u], hs, tw) /\ WordNested(hs[tw[c]].slots[u], hs)
      BY <2>1, <3>1 DEF Inv, SymbolsMatch, WordsNested
    <3>4. Same(cs[c].symbols[u], hs[tw[c]].slots[u], hs2, tw)
      BY <1>2, <3>2, <3>3, SameKept
    <3>5. tw[c] # tw[a] \/ u # v
      BY <2>1, TwinsDiffer
    <3> QED BY <1>2, <3>1, <3>4, <3>5
  <2> QED BY <2>1 DEF SymbolsMatch
<1> QED BY <1>2, <1>3 DEF Inv

(* What WithVariable does to context a of the interpreter.                  *)
Bind(cs, a, v, value) ==
  [cs EXCEPT ![a].symbols = [x \in DOMAIN @ \cup {v} |-> IF x = v THEN value ELSE @[x]]]

(* A value is stored: in a context of the interpreter, and in the context   *)
(* of the same call in the compiled code.                                   *)
LEMMA ValueStored ==
  ASSUME NEW cs, NEW st, NEW tg, NEW hs, NEW fr, NEW tw, Inv(cs, st, tg, hs, fr, tw),
         NEW a \in DOMAIN cs, Current(a, tw), NEW v \in VariablesOf(cs[a].function.statement),
         NEW value \in AllInterpreterValues, ValueNested(value, cs),
         NEW word \in HeapWords, WordNested(word, hs), Same(value, word, hs, tw),
         NEW cs2, cs2 = Bind(cs, a, v, value),
         NEW hs2, hs2 = AddParameter(hs, tw[a], v, word)
  PROVE  Inv(cs2, st, tg, hs2, fr, tw)
<1>1. tw[a] \in DOMAIN hs /\ v \in DOMAIN hs[tw[a]].slots /\ v \in Variables
  BY DEF Inv, TwinsMatch, WordsNested, VariablesOf
<1>2. /\ DOMAIN hs2 = DOMAIN hs /\ Keeps(hs, hs2)
      /\ Types(cs, st, tg, hs2, fr, tw)
      /\ HeapNested(hs2)
      /\ WordsNested(hs2)
      /\ TwinsMatch(cs, hs2, tw)
      /\ hs2[tw[a]].slots[v] = word
      /\ \A j \in DOMAIN hs : \A u \in DOMAIN hs[j].slots :
           (j # tw[a] \/ u # v) => hs2[j].slots[u] = hs[j].slots[u]
  BY <1>1, SlotWritten
<1>3. Types(cs, st, tg, hs, fr, tw)
  BY DEF Inv
<1> DEFINE symbols == [x \in DOMAIN cs[a].symbols \cup {v} |->
                         IF x = v THEN value ELSE cs[a].symbols[x]]
           new == [cs[a] EXCEPT !.symbols = symbols]
<1>4. /\ DOMAIN symbols = DOMAIN cs[a].symbols \cup {v} /\ symbols[v] = value
      /\ \A x \in DOMAIN cs[a].symbols : x # v => symbols[x] = cs[a].symbols[x]
      /\ symbols \in Symbols
  <2>0. cs[a].symbols \in Symbols
    BY <1>3, TypeFacts
  <2>1. PICK D \in SUBSET Names : cs[a].symbols \in [D -> AllInterpreterValues]
    BY <2>0 DEF Symbols
  <2>2. symbols \in [D \cup {v} -> AllInterpreterValues] /\ D \cup {v} \in SUBSET Names
    BY <1>1, <2>1, ScopesOfNames
  <2> QED BY <2>2 DEF Symbols
<1> HIDE DEF symbols
<1>5. /\ new \in InterpreterContext /\ new.symbols = symbols /\ new.function = cs[a].function
  BY <1>3, <1>4, TypeFacts DEF InterpreterContext
<1>6. cs2 = [cs EXCEPT ![a] = new]
  BY DEF symbols, Bind
<1> HIDE DEF new
<1>7. /\ cs2 \in Seq(InterpreterContext) /\ Len(cs2) = Len(cs) /\ DOMAIN cs2 = DOMAIN cs
      /\ cs2[a] = new /\ \A c \in DOMAIN cs : c # a => cs2[c] = cs[c]
  <2>1. cs \in Seq(InterpreterContext)
    BY <1>3 DEF Types
  <2> QED BY <1>5, <1>6, <2>1, ElementReplaced
<1>8. \A c \in DOMAIN cs : cs2[c].function = cs[c].function
  BY <1>5, <1>7
<1>9. Types(cs2, st, tg, hs2, fr, tw)
  BY <1>2, <1>7 DEF Types
<1>10. DOMAIN cs = 1..Len(cs) /\ Len(cs) \in Nat \ {0}
  BY <1>3, TypeFacts
<1>11. ContextsNested(cs2)
  <2>1. cs2[1].function = [statement |-> Main, outer |-> 0]
    BY <1>8, <1>10 DEF Inv, ContextsNested
  <2>2. ASSUME NEW c \in DOMAIN cs2, c # 1
        PROVE  /\ cs2[c].function.statement \in InnerFunctions
               /\ cs2[c].function.outer \in 1..(c - 1)
               /\ cs2[cs2[c].function.outer].function.statement = Outer[cs2[c].function.statement]
    <3>1. /\ cs[c].function.statement \in InnerFunctions
          /\ cs[c].function.outer \in 1..(c - 1)
          /\ cs[cs[c].function.outer].function.statement = Outer[cs[c].function.statement]
      BY <1>7, <2>2 DEF Inv, ContextsNested
    <3>2. cs[c].function.outer \in DOMAIN cs
      BY <1>7, <1>10, <3>1
    <3> QED BY <1>7, <1>8, <3>1, <3>2
  <2> QED BY <2>1, <2>2 DEF ContextsNested
<1>12. ASSUME NEW w, ValueNested(w, cs) PROVE ValueNested(w, cs2)
  BY <1>7, <1>8, <1>12 DEF ValueNested
<1>13. SymbolsNested(cs2)
  <2>1. ASSUME NEW c \in DOMAIN cs2
        PROVE  LET f == cs2[c].function.statement
               IN /\ DOMAIN cs2[c].symbols \subseteq VariablesOf(f) \cup InnerOf(f)
                  /\ \A g \in InnerOf(f) :
                       g \in DOMAIN cs2[c].symbols
                         /\ cs2[c].symbols[g] = <<"function", [statement |-> g, outer |-> c]>>
                  /\ \A x \in DOMAIN cs2[c].symbols : ValueNested(cs2[c].symbols[x], cs2)
    <3> DEFINE f == cs[c].function.statement
    <3>1. /\ DOMAIN cs[c].symbols \subseteq VariablesOf(f) \cup InnerOf(f)
          /\ \A g \in InnerOf(f) :
               g \in DOMAIN cs[c].symbols
                 /\ cs[c].symbols[g] = <<"function", [statement |-> g, outer |-> c]>>
          /\ \A x \in DOMAIN cs[c].symbols : ValueNested(cs[c].symbols[x], cs2)
      BY <1>7, <1>12 DEF Inv, SymbolsNested
    <3>2. CASE c = a
      <4>1. \A g \in InnerOf(f) : g # v
        BY <1>1, ScopesOfNames DEF InnerOf
      <4>2. cs2[c].symbols = symbols /\ cs2[c].function = cs[c].function
        BY <1>5, <1>7, <3>2
      <4>3. \A x \in DOMAIN symbols : ValueNested(symbols[x], cs2)
        BY <1>4, <1>12, <3>1, <3>2
      <4> QED BY <1>4, <3>1, <3>2, <4>1, <4>2, <4>3
    <3>3. CASE c # a
      BY <1>7, <3>1, <3>3
    <3> QED BY <3>2, <3>3
  <2> QED BY <2>1 DEF SymbolsNested
<1>14. TwinsMatch(cs2, hs2, tw)
  <2>1. tw[1] = 1
    BY DEF Inv, TwinsMatch
  <2>2. ASSUME NEW c \in DOMAIN cs2
        PROVE  /\ tw[c] \in DOMAIN hs2
               /\ hs2[tw[c]].function = cs2[c].function.statement
               /\ c # 1 => hs2[tw[c]].outer = tw[cs2[c].function.outer]
    <3>1. /\ tw[c] \in DOMAIN hs2
          /\ hs2[tw[c]].function = cs[c].function.statement
          /\ c # 1 => hs2[tw[c]].outer = tw[cs[c].function.outer]
      BY <1>2, <1>7 DEF TwinsMatch
    <3> QED BY <1>7, <1>8, <3>1
  <2> QED BY <2>1, <2>2 DEF TwinsMatch
<1>15. FramesMatch(cs2, st, fr, tw)
  <2>1. \A i \in DOMAIN st :
          /\ st[i] \in DOMAIN cs2 /\ Current(st[i], tw)
          /\ fr[i].code = cs2[st[i]].function.statement /\ fr[i].context = tw[st[i]]
    BY <1>7, <1>8 DEF Inv, FramesMatch
  <2> QED BY <2>1 DEF Inv, FramesMatch
<1>16. OutersCurrent(cs2, tw)
  BY <1>7, <1>8 DEF Inv, OutersCurrent
<1>17. SymbolsMatch(cs2, hs2, tw)
  <2>1. ASSUME NEW c \in DOMAIN cs2, Current(c, tw), NEW u \in DOMAIN cs2[c].symbols \cap Variables
        PROVE  Same(cs2[c].symbols[u], hs2[tw[c]].slots[u], hs2, tw)
    <3>1. CASE c = a /\ u = v
      <4>1. cs2[c].symbols[u] = value /\ hs2[tw[c]].slots[u] = word
        BY <1>2, <1>4, <1>5, <1>7, <3>1
      <4>2. Same(value, word, hs2, tw)
        BY <1>2, SameKept
      <4> QED BY <4>1, <4>2
    <3>2. CASE c # a \/ u # v
      <4>1. /\ c \in DOMAIN cs /\ u \in DOMAIN cs[c].symbols \cap Variables
            /\ cs2[c].symbols[u] = cs[c].symbols[u]
        <5>1. CASE c = a
          BY <1>4, <1>5, <1>7, <2>1, <3>2, <5>1
        <5>2. CASE c # a
          BY <1>7, <2>1, <5>2
        <5> QED BY <5>1, <5>2
      <4>2. tw[c] \in DOMAIN hs /\ u \in DOMAIN hs[tw[c]].slots
        BY <4>1, StoredValues
      <4>3. cs[c].symbols[u] \in AllInterpreterValues /\ hs[tw[c]].slots[u] \in HeapWords
        BY <4>1, <4>2, StoredValues
      <4>4. Same(cs[c].symbols[u], hs[tw[c]].slots[u], hs, tw) /\ WordNested(hs[tw[c]].slots[u], hs)
        BY <2>1, <4>1, <4>2 DEF Inv, SymbolsMatch, WordsNested
      <4>5. Same(cs[c].symbols[u], hs[tw[c]].slots[u], hs2, tw)
        BY <1>2, <4>3, <4>4, SameKept
      <4>6. tw[c] # tw[a] \/ u # v
        BY <2>1, <3>2, <4>1, TwinsDiffer
      <4> QED BY <1>2, <4>1, <4>2, <4>5, <4>6
    <3> QED BY <3>1, <3>2
  <2> QED BY <2>1 DEF SymbolsMatch
<1> QED BY <1>2, <1>9, <1>11, <1>13, <1>14, <1>15, <1>16, <1>17 DEF Inv

-----------------------------------------------------------------------------
(* Calls.                                                                   *)

(* A call returns.                                                          *)
LEMMA CallLeft ==
  ASSUME NEW cs, NEW st, NEW tg, NEW hs, NEW fr, NEW tw, Inv(cs, st, tg, hs, fr, tw),
         Len(st) > 1
  PROVE  Inv(cs, Tail(st), Tail(tg), hs, Tail(fr), tw)
<1>1. Types(cs, st, tg, hs, fr, tw)
  BY DEF Inv
<1>2. /\ Len(st) \in Nat \ {0} /\ Len(fr) = Len(st) /\ Len(tg) = Len(st) - 1
      /\ st \in Seq(Nat \ {0}) /\ fr \in Seq(Frame) /\ tg \in Seq(Targets \cup {NONE})
  BY <1>1 DEF Types
<1>3. /\ Tail(st) \in Seq(Nat \ {0}) /\ Len(Tail(st)) = Len(st) - 1
      /\ DOMAIN Tail(st) = 1..(Len(st) - 1)
      /\ \A i \in 1..(Len(st) - 1) : i + 1 \in DOMAIN st /\ Tail(st)[i] = st[i + 1]
  BY <1>2, ElementTaken
<1>4. /\ Tail(fr) \in Seq(Frame) /\ Len(Tail(fr)) = Len(fr) - 1
      /\ \A i \in 1..(Len(st) - 1) : Tail(fr)[i] = fr[i + 1]
  BY <1>2, ElementTaken
<1>5. /\ Tail(tg) \in Seq(Targets \cup {NONE}) /\ Len(Tail(tg)) = Len(tg) - 1
      /\ DOMAIN Tail(tg) = 1..(Len(tg) - 1)
      /\ \A i \in 1..(Len(tg) - 1) : i + 1 \in DOMAIN tg /\ Tail(tg)[i] = tg[i + 1]
  BY <1>2, ElementTaken
<1>6. Types(cs, Tail(st), Tail(tg), hs, Tail(fr), tw)
  <2>1. Len(Tail(st)) > 0 /\ Len(Tail(fr)) = Len(Tail(st)) /\ Len(Tail(tg)) = Len(Tail(st)) - 1
    BY <1>2, <1>3, <1>4, <1>5
  <2> QED BY <1>1, <1>3, <1>4, <1>5, <2>1 DEF Types
<1>7. FramesMatch(cs, Tail(st), Tail(fr), tw)
  <2>1. Tail(st)[Len(Tail(st))] = st[Len(st)]
    BY <1>2, <1>3
  <2>2. ASSUME NEW i \in DOMAIN Tail(st)
        PROVE  /\ Tail(st)[i] \in DOMAIN cs /\ Current(Tail(st)[i], tw)
               /\ Tail(fr)[i].code = cs[Tail(st)[i]].function.statement
               /\ Tail(fr)[i].context = tw[Tail(st)[i]]
    <3>1. /\ i + 1 \in DOMAIN st /\ Tail(st)[i] = st[i + 1] /\ Tail(fr)[i] = fr[i + 1]
      BY <1>3, <1>4
    <3> QED BY <3>1 DEF Inv, FramesMatch
  <2> QED BY <2>1, <2>2 DEF Inv, FramesMatch
<1>8. TargetsVisible(Tail(tg), Tail(fr))
  <2>1. ASSUME NEW i \in DOMAIN Tail(tg), Tail(tg)[i] # NONE
        PROVE  Tail(tg)[i] \in Visible(Tail(fr)[i + 1].code)
    <3>1. i + 1 \in DOMAIN tg /\ Tail(tg)[i] = tg[i + 1]
      BY <1>5, <2>1
    <3>2. i + 1 \in 1..(Len(st) - 1)
      BY <1>2, <1>5, <2>1
    <3> QED BY <1>4, <2>1, <3>1, <3>2 DEF Inv, TargetsVisible
  <2> QED BY <2>1 DEF TargetsVisible
<1> QED BY <1>6, <1>7, <1>8 DEF Inv

(* Entering a call of f in FunctionContext k, of which nothing is in use:   *)
(* only older contexts with the same k are not current any more.            *)
LEMMA CurrentAfterCall ==
  ASSUME NEW tw \in Seq(Nat \ {0}), NEW k \in Nat \ {0}
  PROVE  /\ Current(Len(tw) + 1, Append(tw, k))
         /\ \A c \in DOMAIN tw : Current(c, Append(tw, k)) <=> Current(c, tw) /\ tw[c] # k
<1>1. /\ DOMAIN Append(tw, k) = DOMAIN tw \cup {Len(tw) + 1} /\ Append(tw, k)[Len(tw) + 1] = k
      /\ \A c \in DOMAIN tw : Append(tw, k)[c] = tw[c]
      /\ Len(tw) \in Nat /\ DOMAIN tw = 1..Len(tw)
  BY ElementAppended
<1>2. Current(Len(tw) + 1, Append(tw, k))
  BY <1>1 DEF Current
<1>3. ASSUME NEW c \in DOMAIN tw PROVE Current(c, Append(tw, k)) <=> Current(c, tw) /\ tw[c] # k
  <2>1. Len(tw) + 1 > c /\ c \in DOMAIN Append(tw, k)
    BY <1>1
  <2>2. Current(c, Append(tw, k)) => Current(c, tw) /\ tw[c] # k
    BY <1>1, <2>1 DEF Current
  <2>3. Current(c, tw) /\ tw[c] # k => Current(c, Append(tw, k))
    BY <1>1, <2>1 DEF Current
  <2> QED BY <2>2, <2>3
<1> QED BY <1>2, <1>3

(* A value and a word that are the same are so after the call.              *)
LEMMA SameAfterCall ==
  ASSUME NEW hs, NEW tw \in Seq(Nat \ {0}), NEW k \in Nat \ {0},
         \A j \in DOMAIN hs : hs[j].outer # k,
         NEW value \in AllInterpreterValues, value[1] = "function" => value[2].outer \in DOMAIN tw,
         NEW word \in HeapWords, WordNested(word, hs), Same(value, word, hs, tw)
  PROVE  Same(value, word, hs, Append(tw, k))
<1>1. value[1] \in {"undefined", "number", "function"}
  BY ValueKinds
<1>2. CASE value[1] = "undefined"
  BY <1>2 DEF Same
<1>3. CASE value[1] = "number"
  BY <1>3 DEF Same
<1>4. CASE value[1] = "function"
  <2>1. /\ word # UNSET /\ word[1] = "function" /\ word[2].code = value[2].statement
        /\ hs[word[2].context].outer = tw[value[2].outer] /\ Current(value[2].outer, tw)
    BY <1>4 DEF Same
  <2>2. word[2].context \in DOMAIN hs
    BY <2>1, WordKinds DEF WordNested
  <2>3. Append(tw, k)[value[2].outer] = tw[value[2].outer]
    BY <1>4, ElementAppended
  <2>4. tw[value[2].outer] # k
    BY <2>1, <2>2
  <2>5. Current(value[2].outer, Append(tw, k))
    BY <1>4, <2>1, <2>4, CurrentAfterCall
  <2> QED BY <1>4, <2>1, <2>3, <2>5 DEF Same
<1> QED BY <1>1, <1>2, <1>3, <1>4

(* A call is entered, without the argument.                                 *)
NewContext(f, o, c) ==
  [function |-> [statement |-> f, outer |-> o],
   symbols |-> [g \in InnerOf(f) |-> <<"function", [statement |-> g, outer |-> c]>>]]

LEMMA CallEntered ==
  ASSUME NEW cs, NEW st, NEW tg, NEW hs, NEW fr, NEW tw, Inv(cs, st, tg, hs, fr, tw),
         NEW f \in InnerFunctions,
         NEW o \in DOMAIN cs, Current(o, tw), cs[o].function.statement = Outer[f],
         NEW k \in DOMAIN hs, hs[k].function = f, hs[k].outer = tw[o],
         \A i \in DOMAIN fr : fr[i].context # k,
         \A j \in DOMAIN hs : hs[j].outer # k,
         NEW target \in Targets \cup {NONE}, target # NONE => target \in Visible(fr[1].code),
         NEW n, n = Len(cs) + 1
  PROVE  Inv(Append(cs, NewContext(f, o, n)), <<n>> \o st, <<target>> \o tg, hs,
             <<[code |-> f, context |-> k]>> \o fr, Append(tw, k))
<1> DEFINE cs2 == Append(cs, NewContext(f, o, n))
           st2 == <<n>> \o st
           tg2 == <<target>> \o tg
           frame == [code |-> f, context |-> k]
           fr2 == <<frame>> \o fr
           tw2 == Append(tw, k)
<1>1. Types(cs, st, tg, hs, fr, tw)
  BY DEF Inv
<1>2. /\ cs \in Seq(InterpreterContext) /\ st \in Seq(Nat \ {0}) /\ tg \in Seq(Targets \cup {NONE})
      /\ fr \in Seq(Frame) /\ tw \in Seq(Nat \ {0})
      /\ Len(tw) = Len(cs) /\ Len(fr) = Len(st) /\ Len(tg) = Len(st) - 1 /\ Len(st) \in Nat \ {0}
      /\ DOMAIN tw = DOMAIN cs /\ n \in Nat \ {0} /\ k \in Nat \ {0} /\ DOMAIN cs = 1..(n - 1)
      /\ DOMAIN fr = DOMAIN st /\ DOMAIN st = 1..Len(st) /\ DOMAIN tg = 1..(Len(st) - 1)
  <2>1. /\ cs \in Seq(InterpreterContext) /\ st \in Seq(Nat \ {0}) /\ tg \in Seq(Targets \cup {NONE})
        /\ fr \in Seq(Frame) /\ tw \in Seq(Nat \ {0})
        /\ Len(tw) = Len(cs) /\ Len(fr) = Len(st) /\ Len(tg) = Len(st) - 1
    BY <1>1 DEF Types
  <2>2. /\ Len(cs) \in Nat \ {0} /\ DOMAIN cs = 1..Len(cs) /\ DOMAIN tw = 1..Len(cs)
        /\ Len(hs) \in Nat /\ DOMAIN hs = 1..Len(hs)
        /\ Len(st) \in Nat \ {0} /\ DOMAIN st = 1..Len(st) /\ DOMAIN fr = 1..Len(st)
        /\ DOMAIN tg = 1..(Len(st) - 1)
    BY <1>1, TypeFacts
  <2>3. k \in Nat \ {0} /\ n \in Nat \ {0} /\ n - 1 = Len(cs)
    BY <2>2
  <2> QED BY <2>1, <2>2, <2>3
<1>3. /\ NewContext(f, o, n).function.statement = f /\ NewContext(f, o, n).function.outer = o
      /\ DOMAIN NewContext(f, o, n).symbols = InnerOf(f)
      /\ \A g \in InnerOf(f) :
           NewContext(f, o, n).symbols[g] = <<"function", [statement |-> g, outer |-> n]>>
  BY DEF NewContext
<1>4. NewContext(f, o, n) \in InterpreterContext
  <2> DEFINE symbols == [g \in InnerOf(f) |-> <<"function", [statement |-> g, outer |-> n]>>]
  <2>1. symbols \in [InnerOf(f) -> AllInterpreterValues]
    <3>1. ASSUME NEW g \in InnerOf(f)
          PROVE  <<"function", [statement |-> g, outer |-> n]>> \in AllInterpreterValues
      <4>1. g \in InnerFunctions /\ n \in Nat
        BY <1>2 DEF InnerOf
      <4> QED BY <4>1 DEF AllInterpreterValues
    <3> QED BY <3>1
  <2>2. InnerOf(f) \in SUBSET Names
    BY DEF InnerOf, Names
  <2>3. symbols \in Symbols
    BY <2>1, <2>2 DEF Symbols
  <2>4. f \in Functions /\ o \in Nat
    BY <1>2 DEF InnerFunctions
  <2> HIDE DEF symbols
  <2>5. [function |-> [statement |-> f, outer |-> o], symbols |-> symbols] \in InterpreterContext
    BY <2>3, <2>4 DEF InterpreterContext, InterpreterFunction
  <2> QED BY <2>5 DEF NewContext, symbols
<1>5. /\ cs2 \in Seq(InterpreterContext) /\ Len(cs2) = n /\ DOMAIN cs2 = DOMAIN cs \cup {n}
      /\ n \notin DOMAIN cs /\ cs2[n] = NewContext(f, o, n) /\ \A c \in DOMAIN cs : cs2[c] = cs[c]
  <2>1. PICK e \in InterpreterContext : e = NewContext(f, o, n)
    BY <1>4
  <2>2. /\ Append(cs, e) \in Seq(InterpreterContext) /\ Len(Append(cs, e)) = Len(cs) + 1
        /\ DOMAIN Append(cs, e) = DOMAIN cs \cup {Len(cs) + 1} /\ Len(cs) + 1 \notin DOMAIN cs
        /\ Append(cs, e)[Len(cs) + 1] = e
        /\ \A i \in DOMAIN cs : Append(cs, e)[i] = cs[i]
    <3>1. cs \in Seq(InterpreterContext) /\ e \in InterpreterContext
      BY <1>2
    <3> QED BY ONLY <3>1, ElementAppended
  <2> QED BY <2>1, <2>2
<1>6. /\ st2 \in Seq(Nat \ {0}) /\ Len(st2) = Len(st) + 1 /\ DOMAIN st2 = 1..(Len(st) + 1)
      /\ st2[1] = n /\ \A i \in 2..(Len(st) + 1) : i - 1 \in DOMAIN st /\ st2[i] = st[i - 1]
  BY <1>2, ElementPrepended
<1>7. /\ tg2 \in Seq(Targets \cup {NONE}) /\ Len(tg2) = Len(tg) + 1 /\ DOMAIN tg2 = 1..(Len(tg) + 1)
      /\ tg2[1] = target /\ \A i \in 2..(Len(tg) + 1) : i - 1 \in DOMAIN tg /\ tg2[i] = tg[i - 1]
  <2>1. PICK T : T = Targets \cup {NONE}
    OBVIOUS
  <2>2. tg \in Seq(T) /\ target \in T
    BY <1>2, <2>1
  <2>3. /\ tg2 \in Seq(T) /\ Len(tg2) = Len(tg) + 1 /\ DOMAIN tg2 = 1..(Len(tg) + 1)
        /\ tg2[1] = target
        /\ \A i \in 2..(Len(tg) + 1) : i - 1 \in DOMAIN tg /\ tg2[i] = tg[i - 1]
    <3>1. /\ <<target>> \o tg \in Seq(T) /\ Len(<<target>> \o tg) = Len(tg) + 1
          /\ DOMAIN (<<target>> \o tg) = 1..(Len(tg) + 1)
          /\ (<<target>> \o tg)[1] = target
          /\ \A i \in 2..(Len(tg) + 1) : i - 1 \in DOMAIN tg /\ (<<target>> \o tg)[i] = tg[i - 1]
      <4>1. tg \in Seq(T)
        BY <2>2
      <4>2. target \in T
        BY <2>2
      <4> QED BY ONLY <4>1, <4>2, ElementPrepended
    <3> QED BY <3>1
  <2> QED BY <2>1, <2>3
<1>8. frame \in Frame /\ frame.code = f /\ frame.context = k
  BY <1>2 DEF Frame, InnerFunctions
<1> HIDE DEF frame
<1>9. /\ fr2 \in Seq(Frame) /\ Len(fr2) = Len(fr) + 1
      /\ fr2[1] = frame /\ \A i \in 2..(Len(st) + 1) : fr2[i] = fr[i - 1]
  <2>1. fr \in Seq(Frame) /\ frame \in Frame /\ Len(fr) = Len(st)
    BY <1>2, <1>8
  <2>2. /\ <<frame>> \o fr \in Seq(Frame) /\ Len(<<frame>> \o fr) = Len(fr) + 1
        /\ (<<frame>> \o fr)[1] = frame
        /\ \A i \in 2..(Len(fr) + 1) : (<<frame>> \o fr)[i] = fr[i - 1]
    BY ONLY <2>1, ElementPrepended
  <2> QED BY <2>1, <2>2
<1>10. /\ tw2 \in Seq(Nat \ {0}) /\ Len(tw2) = n /\ DOMAIN tw2 = DOMAIN tw \cup {n}
       /\ tw2[n] = k /\ \A c \in DOMAIN tw : tw2[c] = tw[c]
  <2>1. tw \in Seq(Nat \ {0}) /\ k \in Nat \ {0} /\ Len(tw) + 1 = n
    BY <1>2
  <2>2. /\ Append(tw, k) \in Seq(Nat \ {0}) /\ Len(Append(tw, k)) = Len(tw) + 1
        /\ DOMAIN Append(tw, k) = DOMAIN tw \cup {Len(tw) + 1}
        /\ Append(tw, k)[Len(tw) + 1] = k
        /\ \A c \in DOMAIN tw : Append(tw, k)[c] = tw[c]
    BY ONLY <2>1, ElementAppended
  <2> QED BY <2>1, <2>2
<1>11. /\ Current(n, tw2)
       /\ \A c \in DOMAIN cs : Current(c, tw2) <=> Current(c, tw) /\ tw[c] # k
  BY <1>2, CurrentAfterCall
<1> HIDE DEF cs2, st2, tg2, fr2, tw2
<1>12. Types(cs2, st2, tg2, hs, fr2, tw2)
  <2>1. /\ Len(cs2) > 0 /\ Len(tw2) = Len(cs2)
        /\ Len(st2) > 0 /\ Len(fr2) = Len(st2) /\ Len(tg2) = Len(st2) - 1
    <3>1. Len(cs2) = n /\ Len(tw2) = n /\ Len(st2) = Len(st) + 1 /\ Len(fr2) = Len(fr) + 1
          /\ Len(tg2) = Len(tg) + 1
      BY <1>5, <1>6, <1>7, <1>9, <1>10
    <3>2. n \in Nat \ {0} /\ Len(st) \in Nat \ {0} /\ Len(fr) = Len(st) /\ Len(tg) = Len(st) - 1
      BY <1>2
    <3> QED BY ONLY <3>1, <3>2
  <2> QED BY <1>1, <1>5, <1>6, <1>7, <1>9, <1>10, <2>1 DEF Types
<1>indexes. /\ DOMAIN cs = 1..(n - 1) /\ DOMAIN tw = DOMAIN cs /\ n \in Nat \ {0} /\ k \in Nat \ {0}
            /\ DOMAIN fr = DOMAIN st /\ DOMAIN st = 1..Len(st) /\ DOMAIN tg = 1..(Len(st) - 1)
            /\ Len(st) \in Nat \ {0} /\ Len(tg) = Len(st) - 1
  BY <1>2
<1>entered. /\ DOMAIN cs2 = DOMAIN cs \cup {n} /\ n \notin DOMAIN cs
            /\ cs2[n] = NewContext(f, o, n) /\ \A c \in DOMAIN cs : cs2[c] = cs[c]
            /\ tw2[n] = k /\ \A c \in DOMAIN cs : tw2[c] = tw[c]
  BY <1>2, <1>5, <1>10
<1>pushed. /\ DOMAIN st2 = 1..(Len(st) + 1) /\ Len(st2) = Len(st) + 1 /\ st2[1] = n
           /\ \A i \in 2..(Len(st) + 1) : i - 1 \in DOMAIN st /\ st2[i] = st[i - 1]
           /\ DOMAIN tg2 = 1..(Len(tg) + 1) /\ tg2[1] = target
           /\ \A i \in 2..(Len(tg) + 1) : i - 1 \in DOMAIN tg /\ tg2[i] = tg[i - 1]
           /\ fr2[1] = frame /\ \A i \in 2..(Len(st) + 1) : fr2[i] = fr[i - 1]
  BY <1>6, <1>7, <1>9
<1>13. ContextsNested(cs2)
  <2>1. 1 \in DOMAIN cs /\ n # 1
    BY <1>indexes
  <2>2. ASSUME NEW c \in DOMAIN cs2, c # 1
        PROVE  /\ cs2[c].function.statement \in InnerFunctions
               /\ cs2[c].function.outer \in 1..(c - 1)
               /\ cs2[cs2[c].function.outer].function.statement = Outer[cs2[c].function.statement]
    <3>1. CASE c = n
      BY <1>indexes, <1>3, <1>entered, <3>1
    <3>2. CASE c \in DOMAIN cs
      <4>1. /\ cs[c].function.statement \in InnerFunctions
            /\ cs[c].function.outer \in 1..(c - 1)
            /\ cs[cs[c].function.outer].function.statement = Outer[cs[c].function.statement]
        BY <2>2, <3>2 DEF Inv, ContextsNested
      <4>2. cs[c].function.outer \in DOMAIN cs
        BY <1>indexes, <3>2, <4>1
      <4> QED BY <1>entered, <3>2, <4>1, <4>2
    <3> QED BY <1>entered, <3>1, <3>2
  <2>3. cs2[1].function = [statement |-> Main, outer |-> 0]
    BY <1>entered, <2>1 DEF Inv, ContextsNested
  <2> QED BY <2>2, <2>3 DEF ContextsNested
<1>14. SymbolsNested(cs2)
  <2>1. ASSUME NEW c \in DOMAIN cs2
        PROVE  LET h == cs2[c].function.statement
               IN /\ DOMAIN cs2[c].symbols \subseteq VariablesOf(h) \cup InnerOf(h)
                  /\ \A g \in InnerOf(h) :
                       g \in DOMAIN cs2[c].symbols
                         /\ cs2[c].symbols[g] = <<"function", [statement |-> g, outer |-> c]>>
                  /\ \A x \in DOMAIN cs2[c].symbols : ValueNested(cs2[c].symbols[x], cs2)
    <3>1. CASE c = n
      <4>1. \A g \in InnerOf(f) : ValueNested(cs2[c].symbols[g], cs2)
        <5> TAKE g \in InnerOf(f)
        <5>1. cs2[c].symbols[g] = <<"function", [statement |-> g, outer |-> n]>> /\ Outer[g] = f
          BY <1>3, <1>entered, <3>1 DEF InnerOf
        <5> QED BY <1>3, <1>entered, <5>1 DEF ValueNested
      <4> QED BY <1>3, <1>entered, <3>1, <4>1
    <3>2. CASE c \in DOMAIN cs
      <4>1. cs2[c] = cs[c]
        BY <1>entered, <3>2
      <4>2. \A x \in DOMAIN cs[c].symbols : ValueNested(cs[c].symbols[x], cs2)
        <5>1. \A x \in DOMAIN cs[c].symbols : ValueNested(cs[c].symbols[x], cs)
          BY <3>2 DEF Inv, SymbolsNested
        <5>2. \A a \in DOMAIN cs : a \in DOMAIN cs2 /\ cs2[a] = cs[a]
          BY <1>entered
        <5> QED BY ONLY <5>1, <5>2 DEF ValueNested
      <4> QED BY <3>2, <4>1, <4>2 DEF Inv, SymbolsNested
    <3> QED BY <1>entered, <3>1, <3>2
  <2> QED BY <2>1 DEF SymbolsNested
<1>15. TwinsMatch(cs2, hs, tw2)
  <2>1. ASSUME NEW c \in DOMAIN cs2
        PROVE  /\ tw2[c] \in DOMAIN hs
               /\ hs[tw2[c]].function = cs2[c].function.statement
               /\ c # 1 => hs[tw2[c]].outer = tw2[cs2[c].function.outer]
    <3>1. CASE c = n
      BY <1>indexes, <1>3, <1>entered, <3>1
    <3>2. CASE c \in DOMAIN cs
      <4>1. /\ tw[c] \in DOMAIN hs
            /\ hs[tw[c]].function = cs[c].function.statement
            /\ c # 1 => hs[tw[c]].outer = tw[cs[c].function.outer]
        BY <3>2 DEF Inv, TwinsMatch
      <4>2. c # 1 => cs[c].function.outer \in 1..(c - 1)
        BY <3>2 DEF Inv, ContextsNested
      <4>3. c # 1 => cs[c].function.outer \in DOMAIN tw
        <5>1. DOMAIN tw = 1..(n - 1) /\ n \in Nat \ {0} /\ c \in 1..(n - 1)
          BY <1>indexes, <3>2
        <5> QED BY ONLY <4>2, <5>1
      <4> QED BY <1>indexes, <1>entered, <3>2, <4>1, <4>3
    <3> QED BY <1>entered, <3>1, <3>2
  <2>2. tw2[1] = 1
    <3>1. 1 \in DOMAIN tw /\ tw[1] = 1
      BY <1>indexes DEF Inv, TwinsMatch
    <3> QED BY <1>indexes, <1>entered, <3>1
  <2> QED BY <2>1, <2>2 DEF TwinsMatch
<1>16. FramesMatch(cs2, st2, fr2, tw2)
  <2>1. st2[Len(st2)] = 1
    <3>1. Len(st) + 1 \in 2..(Len(st) + 1) /\ (Len(st) + 1) - 1 = Len(st)
      BY <1>indexes
    <3>2. st2[Len(st2)] = st[Len(st)]
      BY <1>pushed, <3>1
    <3> QED BY <3>2 DEF Inv, FramesMatch
  <2>2. ASSUME NEW i \in DOMAIN st2
        PROVE  /\ st2[i] \in DOMAIN cs2 /\ Current(st2[i], tw2)
               /\ fr2[i].code = cs2[st2[i]].function.statement
               /\ fr2[i].context = tw2[st2[i]]
    <3>1. CASE i = 1
      BY <1>3, <1>entered, <1>pushed, <1>8, <1>11, <3>1
    <3>2. CASE i # 1
      <4>1. i \in 2..(Len(st) + 1)
        BY <1>indexes, <1>pushed, <3>2
      <4>2. i - 1 \in DOMAIN st /\ st2[i] = st[i - 1] /\ fr2[i] = fr[i - 1]
        BY <1>pushed, <4>1
      <4>3. /\ st[i - 1] \in DOMAIN cs /\ Current(st[i - 1], tw)
            /\ fr[i - 1].code = cs[st[i - 1]].function.statement
            /\ fr[i - 1].context = tw[st[i - 1]]
        BY <4>2 DEF Inv, FramesMatch
      <4>4. fr[i - 1].context # k
        BY <1>indexes, <4>2
      <4>5. Current(st[i - 1], tw2)
        BY <1>11, <4>3, <4>4
      <4> QED BY <1>indexes, <1>entered, <4>2, <4>3, <4>5
    <3> QED BY <3>1, <3>2
  <2> QED BY <2>1, <2>2 DEF FramesMatch
<1>17. TargetsVisible(tg2, fr2)
  <2>1. ASSUME NEW i \in DOMAIN tg2, tg2[i] # NONE PROVE tg2[i] \in Visible(fr2[i + 1].code)
    <3>1. i \in 1..Len(st) /\ i + 1 \in 2..(Len(st) + 1) /\ (i + 1) - 1 = i
      BY <1>indexes, <1>pushed
    <3>2. fr2[i + 1] = fr[i]
      BY <1>pushed, <3>1
    <3>3. CASE i = 1
      <4>1. tg2[i] = target /\ fr2[i + 1] = fr[1] /\ target # NONE
        BY <1>pushed, <2>1, <3>2, <3>3
      <4> QED BY <4>1
    <3>4. CASE i # 1
      <4>1. i \in 2..(Len(tg) + 1) /\ (i - 1) + 1 = i
        <5>1. i \in 1..Len(st) /\ Len(tg) = Len(st) - 1 /\ Len(st) \in Nat \ {0}
          BY <1>indexes, <3>1
        <5> QED BY ONLY <3>4, <5>1
      <4>2. i - 1 \in DOMAIN tg /\ tg2[i] = tg[i - 1]
        BY <1>pushed, <4>1
      <4> QED BY <2>1, <3>2, <4>1, <4>2 DEF Inv, TargetsVisible
    <3> QED BY <3>3, <3>4
  <2> QED BY <2>1 DEF TargetsVisible
<1>18. OutersCurrent(cs2, tw2)
  <2>1. ASSUME NEW c \in DOMAIN cs2, c # 1, Current(c, tw2)
        PROVE  Current(cs2[c].function.outer, tw2)
    <3>1. CASE c = n
      <4>1. tw[o] # k
        OBVIOUS
      <4> QED BY <1>3, <1>entered, <1>11, <3>1, <4>1
    <3>2. CASE c \in DOMAIN cs
      <4>1. Current(c, tw) /\ Current(cs[c].function.outer, tw)
        BY <1>11, <2>1, <3>2 DEF Inv, OutersCurrent
      <4>2. tw[c] \in DOMAIN hs /\ hs[tw[c]].outer = tw[cs[c].function.outer]
        BY <2>1, <3>2 DEF Inv, TwinsMatch
      <4>3. cs[c].function.outer \in 1..(c - 1)
        BY <2>1, <3>2 DEF Inv, ContextsNested
      <4>4. cs[c].function.outer \in DOMAIN cs
        BY <1>indexes, <3>2, <4>3
      <4>5. tw[cs[c].function.outer] # k
        BY <4>2
      <4> QED BY <1>entered, <1>11, <3>2, <4>1, <4>4, <4>5
    <3> QED BY <1>entered, <3>1, <3>2
  <2> QED BY <2>1 DEF OutersCurrent
<1>19. SymbolsMatch(cs2, hs, tw2)
  <2>1. ASSUME NEW c \in DOMAIN cs2, Current(c, tw2), NEW v \in DOMAIN cs2[c].symbols \cap Variables
        PROVE  Same(cs2[c].symbols[v], hs[tw2[c]].slots[v], hs, tw2)
    <3>1. c # n
      BY <1>3, <1>entered, ScopesOfNames DEF InnerOf
    <3>2. /\ c \in DOMAIN cs /\ cs2[c] = cs[c] /\ tw2[c] = tw[c] /\ Current(c, tw)
          /\ v \in DOMAIN cs[c].symbols \cap Variables
      BY <1>indexes, <1>entered, <1>11, <2>1, <3>1
    <3>3. tw[c] \in DOMAIN hs /\ v \in DOMAIN hs[tw[c]].slots
      BY <3>2, StoredValues
    <3>4. cs[c].symbols[v] \in AllInterpreterValues /\ hs[tw[c]].slots[v] \in HeapWords
      BY <3>2, <3>3, StoredValues
    <3>5. Same(cs[c].symbols[v], hs[tw[c]].slots[v], hs, tw) /\ WordNested(hs[tw[c]].slots[v], hs)
      BY <3>2, <3>3 DEF Inv, SymbolsMatch, WordsNested
    <3>6. cs[c].symbols[v][1] = "function" => cs[c].symbols[v][2].outer \in DOMAIN tw
      BY <1>indexes, <3>2 DEF Inv, SymbolsNested, ValueNested
    <3>7. Same(cs[c].symbols[v], hs[tw[c]].slots[v], hs, tw2)
      BY <1>2, <3>4, <3>5, <3>6, SameAfterCall DEF tw2
    <3> QED BY <3>2, <3>7
  <2> QED BY <2>1 DEF SymbolsMatch
<1>20. Inv(cs2, st2, tg2, hs, fr2, tw2)
  BY <1>12, <1>13, <1>14, <1>15, <1>16, <1>17, <1>18, <1>19 DEF Inv
<1> QED BY <1>20 DEF cs2, st2, tg2, fr2, tw2, frame

-----------------------------------------------------------------------------
(* Expressions and assignments.                                             *)

Expressions == Assigned \cup Arguments \cup Returned

(* The frame and the context of a running call.                             *)
LEMMA RunningCalls ==
  ASSUME Invariant
  PROVE  /\ Len(stack) \in Nat \ {0} /\ DOMAIN stack = 1..Len(stack) /\ DOMAIN frames = DOMAIN stack
         /\ \A i \in DOMAIN stack :
              /\ stack[i] \in DOMAIN contexts /\ Current(stack[i], twin)
              /\ frames[i].code = RunningFunction(i) /\ frames[i].context = twin[stack[i]]
              /\ frames[i].code \in Functions /\ frames[i].context \in DOMAIN heapContexts
<1>1. Types(contexts, stack, targets, heapContexts, frames, twin)
  BY DEF Invariant, Inv
<1>2. Len(stack) \in Nat \ {0} /\ DOMAIN stack = 1..Len(stack) /\ DOMAIN frames = DOMAIN stack
  BY <1>1, TypeFacts
<1>3. ASSUME NEW i \in DOMAIN stack
      PROVE  /\ stack[i] \in DOMAIN contexts /\ Current(stack[i], twin)
             /\ frames[i].code = RunningFunction(i) /\ frames[i].context = twin[stack[i]]
             /\ frames[i].code \in Functions /\ frames[i].context \in DOMAIN heapContexts
  <2>1. /\ stack[i] \in DOMAIN contexts /\ Current(stack[i], twin)
        /\ frames[i].code = RunningFunction(i) /\ frames[i].context = twin[stack[i]]
    BY DEF Invariant, Inv, FramesMatch, RunningFunction
  <2>2. RunningFunction(i) \in Functions
    BY <1>1, <2>1, TypeFacts DEF RunningFunction
  <2>3. twin[stack[i]] \in DOMAIN heapContexts
    BY <2>1 DEF Invariant, Inv, TwinsMatch
  <2> QED BY <2>1, <2>2, <2>3
<1> QED BY <1>2, <1>3

(* The function g is found, hoisted, in the context of the function around  *)
(* it.                                                                      *)
LEMMA FunctionFound ==
  ASSUME Invariant, NEW g \in InnerFunctions, IsBound(g)
  PROVE  \E a \in DOMAIN contexts :
           /\ Current(a, twin) /\ contexts[a].function.statement = Outer[g]
           /\ contexts[Found(1, g)].symbols[g] = <<"function", [statement |-> g, outer |-> a]>>
           /\ ContextOf(1, g) = twin[a] /\ twin[a] \in DOMAIN heapContexts
           /\ heapContexts[twin[a]].function = Outer[g]
           /\ \/ twin[a] = frames[1].context
              \/ \E k \in DOMAIN heapContexts : heapContexts[k].outer = twin[a]
<1>1. 1 \in DOMAIN stack /\ g \in Visible(RunningFunction(1))
  BY RunningCalls DEF IsBound
<1>2. PICK a \in DOMAIN contexts : Located(1, g, a)
  BY <1>1, Locations
<1>3. AllocationScope(g) = Outer[g]
  BY ScopesOfNames
<1>4. g \in InnerOf(contexts[a].function.statement)
  BY <1>2, <1>3 DEF Located, InnerOf
<1>5. contexts[a].symbols[g] = <<"function", [statement |-> g, outer |-> a]>>
  BY <1>4 DEF Invariant, Inv, SymbolsNested
<1>6. Found(1, g) = a
  BY <1>2 DEF Located, IsBound
<1> QED BY <1>2, <1>3, <1>5, <1>6 DEF Located

(* The variable x is found, and its word is the same.                       *)
LEMMA VariableFound ==
  ASSUME Invariant, NEW x \in Variables, IsBound(x)
  PROVE  LET value == contexts[Found(1, x)].symbols[x]
             word == heapContexts[ContextOf(1, x)].slots[x]
         IN /\ value \in AllInterpreterValues /\ ValueNested(value, contexts)
            /\ word \in HeapWords /\ WordNested(word, heapContexts)
            /\ Same(value, word, heapContexts, twin)
<1>1. 1 \in DOMAIN stack /\ x \in Visible(RunningFunction(1))
  BY RunningCalls DEF IsBound
<1>2. PICK a \in DOMAIN contexts : Located(1, x, a)
  BY <1>1, Locations
<1>3. Found(1, x) = a /\ x \in DOMAIN contexts[a].symbols \cap Variables /\ ContextOf(1, x) = twin[a]
  BY <1>2 DEF Located, IsBound
<1>4. contexts[a].symbols[x] \in AllInterpreterValues
      /\ twin[a] \in DOMAIN heapContexts /\ x \in DOMAIN heapContexts[twin[a]].slots
  BY <1>3, StoredValues DEF Invariant
<1>5. heapContexts[twin[a]].slots[x] \in HeapWords
  BY <1>4, StoredValues DEF Invariant
<1>6. ValueNested(contexts[a].symbols[x], contexts)
  BY <1>3 DEF Invariant, Inv, SymbolsNested
<1>7. WordNested(heapContexts[twin[a]].slots[x], heapContexts)
  BY <1>4 DEF Invariant, Inv, WordsNested
<1>8. Same(contexts[a].symbols[x], heapContexts[twin[a]].slots[x], heapContexts, twin)
  BY <1>2, <1>3 DEF Invariant, Inv, SymbolsMatch, Located
<1> QED BY <1>3, <1>4, <1>5, <1>6, <1>7, <1>8

(* An expression is evaluated: its value and its word are the same, and the *)
(* heap may have a context more, made for a frame that is in use.           *)
LEMMA Evaluated ==
  ASSUME Invariant, NEW e \in Expressions, HasValue(e),
         NEW hs, Inv(contexts, stack, targets, hs, frames, twin), Keeps(heapContexts, hs),
         NEW hs2, hs2 = HeapAfter(hs, e)
  PROVE  /\ Inv(contexts, stack, targets, hs2, frames, twin) /\ Keeps(hs, hs2)
         /\ Value(e) \in AllInterpreterValues /\ ValueNested(Value(e), contexts)
         /\ CompiledValue(hs, e) \in HeapWords /\ WordNested(CompiledValue(hs, e), hs2)
         /\ Same(Value(e), CompiledValue(hs, e), hs2, twin)
         /\ \A k : Unused(k) /\ NoneInside(k, hs) => NoneInside(k, hs2)
<1>1. /\ e \in ({"number"} \X Numbers) \cup ({"variable"} \X Variables)
                \cup ({"function"} \X InnerFunctions)
      /\ e # NONE
  BY ProgramAssumption, NamesAssumption DEF Expressions
<1>2. CASE e \in {"number"} \X Numbers
  <2>1. e[1] = "number"
    BY <1>2
  <2>2. hs2 = hs /\ Value(e) = e /\ CompiledValue(hs, e) = e
    BY <1>1, <2>1 DEF HeapAfter, Value, CompiledValue
  <2>3. e \in AllInterpreterValues /\ e \in HeapWords
    BY <1>2 DEF AllInterpreterValues, HeapWords, AllHeapValues
  <2>4. ValueNested(e, contexts) /\ WordNested(e, hs2) /\ Same(e, e, hs2, twin)
    BY <1>2, <2>1, WordKinds DEF ValueNested, Same
  <2>5. Keeps(hs, hs)
    BY DEF Keeps
  <2> QED BY <2>2, <2>3, <2>4, <2>5
<1>3. CASE e \in {"variable"} \X Variables
  <2>1. e[1] = "variable" /\ e[2] \in Variables /\ IsBound(e[2])
    BY <1>1, <1>3 DEF HasValue
  <2>2. /\ hs2 = hs /\ Value(e) = contexts[Found(1, e[2])].symbols[e[2]]
        /\ CompiledValue(hs, e) = heapContexts[ContextOf(1, e[2])].slots[e[2]]
    BY <1>1, <2>1 DEF HeapAfter, Value, CompiledValue
  <2>3. /\ Value(e) \in AllInterpreterValues /\ ValueNested(Value(e), contexts)
        /\ CompiledValue(hs, e) \in HeapWords /\ WordNested(CompiledValue(hs, e), heapContexts)
        /\ Same(Value(e), CompiledValue(hs, e), heapContexts, twin)
    BY <2>1, <2>2, VariableFound
  <2>4. WordNested(CompiledValue(hs, e), hs) /\ Same(Value(e), CompiledValue(hs, e), hs, twin)
    <3>1. PICK value, word : value = Value(e) /\ word = CompiledValue(hs, e)
      OBVIOUS
    <3>2. /\ value \in AllInterpreterValues /\ word \in HeapWords
          /\ WordNested(word, heapContexts) /\ Same(value, word, heapContexts, twin)
      BY <2>3, <3>1
    <3>3. WordNested(word, hs) /\ Same(value, word, hs, twin)
      BY <3>2, WordKept, SameKept
    <3> QED BY <3>1, <3>3
  <2>5. Keeps(hs, hs)
    BY DEF Keeps
  <2> QED BY <2>2, <2>3, <2>4, <2>5
<1>4. CASE e \in {"function"} \X InnerFunctions
  <2> DEFINE g == e[2]
  <2>1. e[1] = "function" /\ g \in InnerFunctions /\ IsBound(g)
    BY <1>1, <1>4 DEF HasValue
  <2>2. /\ hs2 = Append(hs, CreateFunctionContext(g)) /\ Value(e) = contexts[Found(1, g)].symbols[g]
        /\ CompiledValue(hs, e) = <<"function", [code |-> g, context |-> Len(hs) + 1]>>
    BY <1>1, <2>1 DEF HeapAfter, Value, CompiledValue
  <2> HIDE DEF g
  <2>3. PICK a \in DOMAIN contexts :
           /\ Current(a, twin) /\ contexts[a].function.statement = Outer[g]
           /\ contexts[Found(1, g)].symbols[g] = <<"function", [statement |-> g, outer |-> a]>>
           /\ ContextOf(1, g) = twin[a] /\ twin[a] \in DOMAIN heapContexts
           /\ heapContexts[twin[a]].function = Outer[g]
           /\ \/ twin[a] = frames[1].context
              \/ \E k \in DOMAIN heapContexts : heapContexts[k].outer = twin[a]
    BY <2>1, FunctionFound
  <2>4. twin[a] \in DOMAIN hs /\ hs[twin[a]].function = Outer[g]
    BY <2>3 DEF Keeps
  <2>5. PICK o \in DOMAIN hs : o = twin[a]
    BY <2>4
  <2>6. hs2 = Append(hs, EmptyContext(g, o)) /\ hs[o].function = Outer[g]
    BY <2>2, <2>3, <2>4, <2>5 DEF CreateFunctionContext, EmptyContext
  <2>7. /\ Inv(contexts, stack, targets, hs2, frames, twin)
        /\ Keeps(hs, hs2)
        /\ Len(hs2) = Len(hs) + 1 /\ Len(hs2) \in DOMAIN hs2 /\ Len(hs2) \notin DOMAIN hs
        /\ hs2[Len(hs2)].function = g /\ hs2[Len(hs2)].outer = o
    <3>1. g \in InnerFunctions /\ o \in DOMAIN hs
      BY <2>1, <2>5
    <3>2. Inv(contexts, stack, targets, hs2, frames, twin) /\ Keeps(hs, hs2)
      <4>1. Inv(contexts, stack, targets, hs, frames, twin)
        OBVIOUS
      <4> QED BY ONLY <4>1, <2>6, <3>1, HeapGrows
    <3>3. Len(hs2) = Len(hs) + 1 /\ Len(hs2) \in DOMAIN hs2 /\ Len(hs2) \notin DOMAIN hs
      BY ONLY Inv(contexts, stack, targets, hs, frames, twin), <2>6, <3>1, HeapGrows
    <3>4. hs2[Len(hs2)].function = g /\ hs2[Len(hs2)].outer = o
      BY ONLY Inv(contexts, stack, targets, hs, frames, twin), <2>6, <3>1, HeapGrows
    <3> QED BY <3>2, <3>3, <3>4
  <2>8. a \in Nat /\ Len(hs2) \in Nat
    BY <2>7, TypeFacts DEF Inv
  <2>9. /\ Value(e) = <<"function", [statement |-> g, outer |-> a]>>
        /\ CompiledValue(hs, e) = <<"function", [code |-> g, context |-> Len(hs2)]>>
    BY <2>2, <2>3, <2>7
  <2>10. /\ Value(e)[1] = "function" /\ Value(e)[2].statement = g /\ Value(e)[2].outer = a
        /\ Value(e) \in AllInterpreterValues
    BY <2>1, <2>8, <2>9 DEF AllInterpreterValues
  <2>11. /\ CompiledValue(hs, e) \in {"function"} \X [code : InnerFunctions, context : Nat]
         /\ CompiledValue(hs, e)[1] = "function"
         /\ CompiledValue(hs, e)[2].code = g /\ CompiledValue(hs, e)[2].context = Len(hs2)
    BY <2>1, <2>8, <2>9
  <2>12. CompiledValue(hs, e) \in HeapWords /\ CompiledValue(hs, e) # UNSET
    BY <2>11, WordKinds DEF HeapWords, AllHeapValues
  <2>13. ValueNested(Value(e), contexts) /\ WordNested(CompiledValue(hs, e), hs2)
    BY <2>3, <2>7, <2>10, <2>11 DEF ValueNested, WordNested
  <2>14. Same(Value(e), CompiledValue(hs, e), hs2, twin)
    BY <2>3, <2>5, <2>7, <2>10, <2>11, <2>12 DEF Same
  <2>15. ASSUME NEW k, Unused(k), NoneInside(k, hs) PROVE NoneInside(k, hs2)
    <3>1. 1 \in DOMAIN frames
      BY RunningCalls
    <3>2. twin[a] # k
      BY <2>3, <2>15, <3>1 DEF Unused
    <3>3. hs \in Seq(HeapContext)
      BY DEF Inv, Types
    <3>4. NoneInside(k, Append(hs, EmptyContext(g, o)))
      BY <2>1, <2>5, <2>15, <3>2, <3>3, InsideGrows
    <3> QED BY <2>6, <3>4
  <2> QED BY <2>7, <2>10, <2>12, <2>13, <2>14, <2>15
<1> QED BY <1>1, <1>2, <1>3, <1>4

(* An assignment is made: the interpreter and the compiled code store in    *)
(* contexts of the same call.  The interpreter does not, if it assigns the  *)
(* result of a call to a variable that the call has not bound.              *)
LEMMA AssignmentMade ==
  ASSUME Invariant, NEW i \in DOMAIN stack, NEW v \in Variables, v \in Visible(RunningFunction(i)),
         NEW hs, Inv(contexts, stack, targets, hs, frames, twin),
         NEW value \in AllInterpreterValues, ValueNested(value, contexts),
         NEW word \in HeapWords, WordNested(word, hs), Same(value, word, hs, twin)
  PROVE  Inv(WithVariable(contexts, i, v, value), stack, targets, StoreVariable(hs, i, v, word),
             frames, twin)
<1> DEFINE cs2 == WithVariable(contexts, i, v, value)
           hs2 == StoreVariable(hs, i, v, word)
<1>1. PICK a \in DOMAIN contexts : Located(i, v, a)
  BY Locations
<1>2. /\ Current(a, twin) /\ contexts[a].function.statement = Scope[v] /\ ContextOf(i, v) = twin[a]
      /\ Found(i, v) = IF v \in DOMAIN contexts[a].symbols THEN a ELSE 0
  BY <1>1, ScopesOfNames DEF Located
<1>3. v \in VariablesOf(contexts[a].function.statement)
  BY <1>2 DEF VariablesOf
<1>4. hs2 = AddParameter(hs, twin[a], v, word)
  BY <1>2 DEF StoreVariable, AddParameter
<1>5. CASE Scope[v] = RunningFunction(i)
  <2>1. /\ stack[i] \in DOMAIN contexts /\ Current(stack[i], twin)
        /\ frames[i].code = RunningFunction(i) /\ frames[i].context = twin[stack[i]]
        /\ frames[i].code \in Functions
    BY RunningCalls
  <2>2. AllocationScope(v) = frames[i].code
    BY <1>5, <2>1, ScopesOfNames
  <2>3. VariableDepth(frames[i].code, AllocationScope(v)) = 0
    BY <2>1, <2>2, VariableDepths
  <2>4. ContextOf(i, v) = twin[stack[i]]
    BY <2>1, <2>3, OuterFunctionContexts DEF ContextOf
  <2>5. a = stack[i]
    <3>1. Inv(contexts, stack, targets, heapContexts, frames, twin)
      BY DEF Invariant
    <3> QED BY <1>2, <2>1, <2>4, <3>1, TwinsDiffer
  <2>6. cs2 = Bind(contexts, a, v, value)
    BY <1>5, <2>5 DEF WithVariable, Bind
  <2> HIDE DEF cs2, hs2
  <2>7. Inv(cs2, stack, targets, hs2, frames, twin)
    BY <1>2, <1>3, <1>4, <2>6, ValueStored
  <2> QED BY <2>7 DEF cs2, hs2
<1>6. CASE Scope[v] # RunningFunction(i) /\ v \in DOMAIN contexts[a].symbols
  <2>1. cs2 = Bind(contexts, a, v, value)
    BY <1>2, <1>6 DEF WithVariable, Bind
  <2> HIDE DEF cs2, hs2
  <2>2. Inv(cs2, stack, targets, hs2, frames, twin)
    BY <1>2, <1>3, <1>4, <2>1, ValueStored
  <2> QED BY <2>2 DEF cs2, hs2
<1>7. CASE Scope[v] # RunningFunction(i) /\ v \notin DOMAIN contexts[a].symbols
  <2>1. contexts \in Seq(InterpreterContext)
    BY DEF Inv, Types
  <2>2. 0 \notin DOMAIN contexts /\ contexts = [c \in DOMAIN contexts |-> contexts[c]]
    BY <2>1
  <2>3. cs2 = contexts
    BY <1>2, <1>7, <2>2 DEF WithVariable
  <2> HIDE DEF cs2, hs2
  <2>4. Inv(contexts, stack, targets, hs2, frames, twin)
    BY <1>2, <1>3, <1>4, <1>7, UnboundWritten
  <2> QED BY <2>3, <2>4 DEF cs2, hs2
<1> QED BY <1>5, <1>6, <1>7

-----------------------------------------------------------------------------
(* Statements.                                                              *)

(* Assignments and let statements.                                          *)
LEMMA InvariantAssign ==
  ASSUME Invariant, NEW v \in Variables, NEW e \in Assigned, Assign(v, e)
  PROVE  Invariant'
<1> DEFINE hs == HeapAfter(heapContexts, e)
           word == CompiledValue(heapContexts, e)
<1>1. Inv(contexts, stack, targets, heapContexts, frames, twin) /\ Keeps(heapContexts, heapContexts)
  BY DEF Invariant, Keeps
<1>2. e \in Expressions /\ HasValue(e)
  BY DEF Expressions, Assign
<1>3. /\ Inv(contexts, stack, targets, hs, frames, twin)
      /\ Value(e) \in AllInterpreterValues /\ ValueNested(Value(e), contexts)
      /\ word \in HeapWords /\ WordNested(word, hs)
      /\ Same(Value(e), word, hs, twin)
  BY <1>1, <1>2, Evaluated
<1>4. 1 \in DOMAIN stack /\ v \in Visible(RunningFunction(1))
  BY RunningCalls DEF Assign, CanAssign
<1>5. Inv(WithVariable(contexts, 1, v, Value(e)), stack, targets, StoreVariable(hs, 1, v, word),
          frames, twin)
  <2>1. PICK val \in AllInterpreterValues : val = Value(e)
    BY <1>3
  <2>2. PICK w \in HeapWords : w = word
    BY <1>3
  <2> HIDE DEF hs, word
  <2> QED BY <1>3, <1>4, <2>1, <2>2, AssignmentMade
<1> QED BY <1>5 DEF Assign, Invariant

(* The context of a call with an argument.                                  *)
CalledContext(g, a, n, value) ==
  NewFunctionContext([statement |-> g, outer |-> a], n, [v \in ParametersOf(g) |-> value])

(* Without a parameter it is the context that CallEntered adds.             *)
LEMMA CalledWithoutArgument ==
  ASSUME NEW g, ParametersOf(g) = {}, NEW a, NEW value, NEW n
  PROVE  CalledContext(g, a, n, value) = NewContext(g, a, n)
<1> DEFINE F(x) == <<"function", [statement |-> x, outer |-> n]>>
<1>1. CalledContext(g, a, n, value)
        = [function |-> [statement |-> g, outer |-> a],
           symbols |-> [x \in ParametersOf(g) \cup InnerOf(g) |->
                          IF x \in ParametersOf(g) THEN value ELSE F(x)]]
  BY DEF NewFunctionContext, CalledContext
<1>2. [x \in ParametersOf(g) \cup InnerOf(g) |-> IF x \in ParametersOf(g) THEN value ELSE F(x)]
        = [x \in InnerOf(g) |-> F(x)]
  <2> HIDE DEF F
  <2> QED OBVIOUS
<1> QED BY <1>1, <1>2 DEF NewContext

(* With one it also holds what ValueStored stores: a function has at most   *)
(* one parameter.                                                           *)
LEMMA CalledWithArgument ==
  ASSUME NEW g \in InnerFunctions, NEW p \in ParametersOf(g), NEW a, NEW value,
         NEW cs \in Seq(InterpreterContext), NEW n, n = Len(cs) + 1
  PROVE  /\ p \in VariablesOf(g)
         /\ Append(cs, CalledContext(g, a, n, value))
              = Bind(Append(cs, NewContext(g, a, n)), n, p, value)
<1> DEFINE function == [statement |-> g, outer |-> a]
           F(x) == <<"function", [statement |-> x, outer |-> n]>>
           symbols == [x \in InnerOf(g) |-> F(x)]
           bound == [x \in ParametersOf(g) \cup InnerOf(g) |->
                       IF x \in ParametersOf(g) THEN value ELSE F(x)]
           context == CalledContext(g, a, n, value)
           new == NewContext(g, a, n)
<1>1. context = [function |-> function, symbols |-> bound]
  BY DEF NewFunctionContext, CalledContext
<1>2. new = [function |-> function, symbols |-> symbols]
  BY DEF NewContext
<1> HIDE DEF F, function, context, new
<1>3. p \in VariablesOf(g) /\ Append(cs, context) = Bind(Append(cs, new), n, p, value)
  <2>1. p \in Variables /\ Scope[p] = g /\ ParametersOf(g) = {p} /\ p \in VariablesOf(g)
    BY ProgramAssumption DEF ParametersOf, VariablesOf
  <2>2. p \notin InnerOf(g)
    BY <2>1, ScopesOfNames DEF InnerOf
  <2>3. bound = [x \in DOMAIN symbols \cup {p} |-> IF x = p THEN value ELSE symbols[x]]
    BY <2>1, <2>2
  <2> HIDE DEF symbols, bound
  <2>4. [new EXCEPT !.symbols = bound] = context
    BY <1>1, <1>2
  <2> DEFINE T == InterpreterContext \cup {context, new}
             cs1 == Append(cs, new)
             cs2 == Append(cs, context)
  <2>5. cs \in Seq(T) /\ context \in T /\ new \in T
    OBVIOUS
  <2> HIDE DEF T
  <2>6. /\ cs1 \in Seq(T) /\ cs2 \in Seq(T) /\ Len(cs1) = n /\ Len(cs2) = n
        /\ DOMAIN cs1 = 1..n /\ DOMAIN cs2 = 1..n /\ n \in Nat \ {0}
        /\ cs1[n] = new /\ cs2[n] = context
        /\ \A c \in 1..n : c # n => cs1[c] = cs[c] /\ cs2[c] = cs[c]
    BY <2>5
  <2> HIDE DEF cs1, cs2
  <2>7. Bind(cs1, n, p, value) = [cs1 EXCEPT ![n] = context]
    <3>1. Bind(cs1, n, p, value) = [cs1 EXCEPT ![n].symbols = bound]
      BY <1>2, <2>3, <2>6 DEF Bind
    <3> QED BY <2>4, <2>6, <3>1
  <2>8. cs2 = [cs1 EXCEPT ![n] = context]
    <3>1. /\ [cs1 EXCEPT ![n] = context] \in Seq(T) /\ Len([cs1 EXCEPT ![n] = context]) = n
          /\ [cs1 EXCEPT ![n] = context][n] = context
          /\ \A c \in 1..n : c # n => [cs1 EXCEPT ![n] = context][c] = cs[c]
      BY <2>5, <2>6, ElementReplaced
    <3> QED BY <2>6, <3>1
  <2> QED BY <2>1, <2>7, <2>8 DEF cs1, cs2
<1> QED BY <1>3 DEF context, new

(* A call is entered in a FunctionContext that nothing is inside of.        *)
LEMMA CallMade ==
  ASSUME Invariant,
         NEW g \in InnerFunctions, NEW a \in DOMAIN contexts,
         Current(a, twin), contexts[a].function.statement = Outer[g],
         NEW hs, Inv(contexts, stack, targets, hs, frames, twin), Keeps(heapContexts, hs),
         NEW k \in DOMAIN hs, hs[k].function = g, hs[k].outer = twin[a],
         Unused(k), NoneInside(k, hs),
         NEW e \in Arguments \cup {NONE}, NEW target \in Targets \cup {NONE},
         CanCall(g, e, target),
         EnterFunction([statement |-> g, outer |-> a], e), EnterCode(hs, g, k, e)
  PROVE  Invariant'
<1>0. PICK n : n = Len(contexts) + 1
  OBVIOUS
<1> DEFINE new == NewContext(g, a, n)
           cs1 == Append(contexts, new)
           hs1 == HeapAfter(hs, e)
           st2 == <<n>> \o stack
           tg2 == <<target>> \o targets
           fr2 == <<[code |-> g, context |-> k]>> \o frames
           tw2 == Append(twin, k)
<1>1. /\ stack' = st2 /\ targets' = tg2 /\ frames' = fr2 /\ twin' = tw2
      /\ contexts' = Append(contexts, CalledContext(g, a, n, Value(e)))
  BY <1>0 DEF EnterFunction, EnterCode, CanCall, CalledContext
<1>2. target # NONE => target \in Visible(frames[1].code)
  BY RunningCalls DEF CanCall, CanAssign
<1>3. \A i \in DOMAIN frames : frames[i].context # k
  BY DEF Unused
<1>4. contexts \in Seq(InterpreterContext) /\ twin \in Seq(Nat \ {0}) /\ Len(twin) = Len(contexts)
      /\ k \in Nat \ {0} /\ DOMAIN contexts = 1..Len(contexts) /\ DOMAIN twin = 1..Len(contexts)
      /\ Len(contexts) \in Nat /\ n = Len(contexts) + 1
  <2>1. Types(contexts, stack, targets, hs, frames, twin)
    BY DEF Inv
  <2>2. contexts \in Seq(InterpreterContext) /\ twin \in Seq(Nat \ {0}) /\ Len(twin) = Len(contexts)
    BY <2>1 DEF Types
  <2>3. /\ Len(hs) \in Nat /\ DOMAIN hs = 1..Len(hs)
        /\ DOMAIN contexts = 1..Len(contexts) /\ DOMAIN twin = 1..Len(contexts)
    BY <2>1, TypeFacts
  <2>4. k \in Nat \ {0} /\ Len(contexts) \in Nat
    BY <2>2, <2>3
  <2> QED BY <1>0, <2>2, <2>3, <2>4
<1>5. ASSUME NEW hs2, Inv(contexts, stack, targets, hs2, frames, twin), Keeps(hs, hs2),
             NoneInside(k, hs2)
      PROVE  Inv(cs1, st2, tg2, hs2, fr2, tw2)
  <2>1. k \in DOMAIN hs2 /\ hs2[k].function = g /\ hs2[k].outer = twin[a]
    BY <1>5 DEF Keeps
  <2>2. \A j \in DOMAIN hs2 : hs2[j].outer # k
    BY <1>5 DEF NoneInside
  <2> QED BY <1>0, <1>2, <1>3, <1>5, <2>1, <2>2, CallEntered
<1>6. CASE e = NONE
  <2>1. ParametersOf(g) = {} /\ heapContexts' = hs
    BY <1>6 DEF CanCall, EnterCode
  <2>2. contexts' = cs1
    <3>1. CalledContext(g, a, n, Value(e)) = new
      BY <2>1, CalledWithoutArgument
    <3> QED BY <1>1, <3>1
  <2>3. Keeps(hs, hs)
    BY DEF Keeps
  <2>4. Inv(cs1, st2, tg2, hs, fr2, tw2)
    BY <1>5, <2>3
  <2> HIDE DEF cs1, st2, tg2, fr2, tw2
  <2> QED BY <1>1, <2>1, <2>2, <2>4 DEF Invariant
<1>7. CASE e # NONE
  <2>1. e \in Expressions /\ HasValue(e)
    BY <1>7 DEF Expressions, CanCall
  <2> DEFINE p == CHOOSE q \in ParametersOf(g) : TRUE
  <2>2. p \in ParametersOf(g)
    BY <1>7 DEF CanCall
  <2>3. heapContexts' = AddParameter(hs1, k, p, CompiledValue(hs, e))
    BY <1>7 DEF EnterCode
  <2> HIDE DEF p
  <2>4. PICK val, word : val = Value(e) /\ word = CompiledValue(hs, e)
    OBVIOUS
  <2>5. /\ Inv(contexts, stack, targets, hs1, frames, twin) /\ Keeps(hs, hs1)
        /\ val \in AllInterpreterValues /\ ValueNested(val, contexts)
        /\ word \in HeapWords /\ WordNested(word, hs1)
        /\ Same(val, word, hs1, twin)
        /\ NoneInside(k, hs1)
    <3>1. /\ Inv(contexts, stack, targets, hs1, frames, twin) /\ Keeps(hs, hs1)
          /\ Value(e) \in AllInterpreterValues /\ ValueNested(Value(e), contexts)
          /\ CompiledValue(hs, e) \in HeapWords /\ WordNested(CompiledValue(hs, e), hs1)
          /\ Same(Value(e), CompiledValue(hs, e), hs1, twin)
      BY <2>1, Evaluated
    <3>2. \A j : Unused(j) /\ NoneInside(j, hs) => NoneInside(j, hs1)
      BY <2>1, Evaluated
    <3> QED BY <2>4, <3>1, <3>2
  <2>6. Inv(cs1, st2, tg2, hs1, fr2, tw2)
    BY <1>5, <2>5
  <2>7. val[1] = "function" => val[2].outer \in DOMAIN twin
    BY <1>4, <2>5 DEF ValueNested
  <2>8. Same(val, word, hs1, tw2)
    <3>1. \A j \in DOMAIN hs1 : hs1[j].outer # k
      BY <2>5 DEF NoneInside
    <3> QED BY <1>4, <2>5, <2>7, <3>1, SameAfterCall
  <2>9. /\ n \in DOMAIN cs1 /\ cs1[n] = new /\ \A c \in DOMAIN contexts : cs1[c] = contexts[c]
        /\ \A c \in DOMAIN contexts : c \in DOMAIN cs1
    <3> HIDE DEF new
    <3> QED BY <1>4
  <2>10. ValueNested(val, cs1)
    BY <2>5, <2>9 DEF ValueNested
  <2>11. cs1[n].function.statement = g
    BY <2>9 DEF NewContext
  <2>12. p \in VariablesOf(g) /\ contexts' = Bind(cs1, n, p, val)
    <3>1. p \in VariablesOf(g) /\ Append(contexts, CalledContext(g, a, n, val)) = Bind(cs1, n, p, val)
      BY <1>4, <2>2, CalledWithArgument
    <3> QED BY <1>1, <2>4, <3>1
  <2>13. Current(n, tw2) /\ tw2[n] = k
    <3>1. Current(Len(twin) + 1, tw2)
      BY <1>4, CurrentAfterCall
    <3>2. tw2[Len(twin) + 1] = k /\ Len(twin) + 1 = n
      BY <1>4, ElementAppended
    <3> QED BY <3>1, <3>2
  <2> HIDE DEF cs1, st2, tg2, hs1, fr2, tw2
  <2>14. Inv(contexts', st2, tg2, heapContexts', fr2, tw2)
    <3>1. /\ p \in VariablesOf(cs1[n].function.statement)
          /\ heapContexts' = AddParameter(hs1, tw2[n], p, word)
      BY <2>3, <2>4, <2>11, <2>12, <2>13
    <3> QED BY <2>5, <2>6, <2>8, <2>9, <2>10, <2>12, <2>13, <3>1, ValueStored
  <2> QED BY <1>1, <2>14 DEF Invariant
<1> QED BY <1>6, <1>7

(* A direct call: the context of the function is created inside of the one  *)
(* of the function around it.                                               *)
LEMMA InvariantCallDirect ==
  ASSUME Invariant, NEW g \in InnerFunctions, NEW e \in Arguments \cup {NONE},
         NEW target \in Targets \cup {NONE}, CallDirect(g, e, target)
  PROVE  Invariant'
<1>1. /\ IsBound(g) /\ CanCall(g, e, target)
      /\ EnterFunction(Value(<<"function", g>>)[2], e)
      /\ EnterCode(Append(heapContexts, CreateFunctionContext(g)), g, Len(heapContexts) + 1, e)
  BY DEF CallDirect
<1>2. PICK a \in DOMAIN contexts :
         /\ Current(a, twin) /\ contexts[a].function.statement = Outer[g]
         /\ contexts[Found(1, g)].symbols[g] = <<"function", [statement |-> g, outer |-> a]>>
         /\ ContextOf(1, g) = twin[a] /\ twin[a] \in DOMAIN heapContexts
         /\ heapContexts[twin[a]].function = Outer[g]
  BY <1>1, FunctionFound
<1>3. Value(<<"function", g>>)[2] = [statement |-> g, outer |-> a]
  <2>1. <<"function", g>> # NONE
    BY NamesAssumption
  <2>2. Value(<<"function", g>>) = contexts[Found(1, g)].symbols[g]
    BY <2>1 DEF Value
  <2> QED BY <1>2, <2>2
<1>4. PICK o \in DOMAIN heapContexts : o = twin[a]
  BY <1>2
<1>5. PICK hs : hs = Append(heapContexts, EmptyContext(g, o))
  OBVIOUS
<1>6. hs = Append(heapContexts, CreateFunctionContext(g))
  BY <1>2, <1>4, <1>5 DEF CreateFunctionContext, EmptyContext
<1>7. Inv(contexts, stack, targets, heapContexts, frames, twin) /\ heapContexts[o].function = Outer[g]
  BY <1>2, <1>4 DEF Invariant
<1>8. Inv(contexts, stack, targets, hs, frames, twin) /\ Keeps(heapContexts, hs)
  BY <1>5, <1>7, HeapGrows
<1>9. Len(hs) = Len(heapContexts) + 1 /\ Len(hs) \in DOMAIN hs /\ Len(hs) \notin DOMAIN heapContexts
  BY <1>5, <1>7, HeapGrows
<1>10. hs[Len(hs)].function = g /\ hs[Len(hs)].outer = twin[a]
  <2>1. hs[Len(hs)].function = g /\ hs[Len(hs)].outer = o
    BY <1>5, <1>7, HeapGrows
  <2> QED BY <1>4, <2>1
<1>11. PICK k \in DOMAIN hs : k = Len(heapContexts) + 1
  BY <1>9
<1>12. \A j \in DOMAIN heapContexts : heapContexts[j].outer \in DOMAIN heapContexts \cup {0}
  <2>1. Len(heapContexts) \in Nat /\ DOMAIN heapContexts = 1..Len(heapContexts)
    BY TypeFacts DEF Invariant, Inv
  <2>2. ASSUME NEW j \in DOMAIN heapContexts PROVE heapContexts[j].outer \in DOMAIN heapContexts \cup {0}
    <3>1. CASE j = 1
      BY <3>1 DEF Invariant, Inv, HeapNested
    <3>2. CASE j # 1
      <4>1. heapContexts[j].outer \in 1..(j - 1)
        BY <3>2 DEF Invariant, Inv, HeapNested
      <4> QED BY <2>1, <4>1
    <3> QED BY <3>1, <3>2
  <2> QED BY <2>2
<1>13. NoneInside(k, heapContexts)
  <2>1. k \notin DOMAIN heapContexts /\ k # 0
    <3>1. Len(heapContexts) \in Nat
      BY TypeFacts DEF Invariant, Inv
    <3> QED BY <1>9, <1>11, <3>1
  <2> QED BY <1>12, <2>1 DEF NoneInside
<1>14. Unused(k)
  <2>1. \A i \in DOMAIN frames : frames[i].context \in DOMAIN heapContexts
    BY RunningCalls
  <2> QED BY <1>9, <1>11, <1>13, <2>1 DEF Unused, NoneInside
<1>15. NoneInside(k, hs)
  <2>1. heapContexts \in Seq(HeapContext)
    BY DEF Invariant, Inv, Types
  <2>2. k # o
    BY <1>9, <1>11
  <2> QED BY <1>5, <1>13, <2>1, <2>2, InsideGrows
<1>16. EnterFunction([statement |-> g, outer |-> a], e) /\ EnterCode(hs, g, k, e)
  BY <1>1, <1>3, <1>6, <1>11
<1>17. hs[k].function = g /\ hs[k].outer = twin[a]
  BY <1>9, <1>10, <1>11
<1> QED BY <1>1, <1>2, <1>8, <1>14, <1>15, <1>16, <1>17, CallMade

(* A call through a variable, in the context of the Function found there.   *)
LEMMA InvariantCallFromVariable ==
  ASSUME Invariant, ~OverlappingCalls, NEW v \in Variables, NEW e \in Arguments \cup {NONE},
         NEW target \in Targets \cup {NONE}, CallFromVariable(v, e, target)
  PROVE  Invariant'
<1> DEFINE value == contexts[Found(1, v)].symbols[v]
           word == heapContexts[ContextOf(1, v)].slots[v]
<1>1. <<"variable", v>> # NONE
  BY NamesAssumption
<1>2. Value(<<"variable", v>>) = value
  BY <1>1 DEF Value
<1>3. CompiledValue(heapContexts, <<"variable", v>>) = word
  BY DEF CompiledValue
<1>4. /\ IsBound(v) /\ value[1] = "function" /\ Unused(word[2].context)
      /\ CanCall(value[2].statement, e, target) /\ EnterFunction(value[2], e)
      /\ EnterCode(heapContexts, word[2].code, word[2].context, e)
  BY <1>2, <1>3 DEF CallFromVariable
<1>5. /\ value \in AllInterpreterValues /\ ValueNested(value, contexts)
      /\ word \in HeapWords /\ WordNested(word, heapContexts)
      /\ Same(value, word, heapContexts, twin)
  BY <1>4, VariableFound
<1> HIDE DEF value, word
<1>6. PICK g \in InnerFunctions, a \in Nat : value[2] = [statement |-> g, outer |-> a]
  <2>1. value \in {"function"} \X [statement : InnerFunctions, outer : Nat]
    BY <1>4, <1>5, ValueKinds
  <2>2. value[2] \in [statement : InnerFunctions, outer : Nat]
    BY <2>1
  <2>3. value[2] = [statement |-> value[2].statement, outer |-> value[2].outer]
    BY <2>2
  <2> QED BY <2>2, <2>3
<1>7. value[2].statement = g /\ value[2].outer = a
  BY <1>6
<1>8. a \in DOMAIN contexts /\ contexts[a].function.statement = Outer[g]
  BY <1>4, <1>5, <1>7 DEF ValueNested
<1>9. /\ word # UNSET /\ word[1] = "function" /\ word[2].code = g
      /\ heapContexts[word[2].context].outer = twin[a] /\ Current(a, twin)
  BY <1>4, <1>5, <1>7 DEF Same
<1>10. /\ word[2].context \in DOMAIN heapContexts
       /\ heapContexts[word[2].context].function = g
  BY <1>5, <1>9, WordKinds DEF WordNested
<1>11. PICK k \in DOMAIN heapContexts : k = word[2].context
  BY <1>10
<1>12. Unused(k) /\ NoneInside(k, heapContexts)
  BY <1>4, <1>11 DEF Unused, NoneInside
<1>13. CanCall(g, e, target) /\ EnterFunction([statement |-> g, outer |-> a], e)
       /\ EnterCode(heapContexts, g, k, e)
  BY <1>4, <1>6, <1>7, <1>9, <1>11
<1>14. Inv(contexts, stack, targets, heapContexts, frames, twin) /\ Keeps(heapContexts, heapContexts)
  BY DEF Invariant, Keeps
<1>15. heapContexts[k].function = g /\ heapContexts[k].outer = twin[a]
  BY <1>9, <1>10, <1>11
<1> QED BY <1>8, <1>9, <1>12, <1>13, <1>14, <1>15, CallMade

(* The result that a call leaves in its context, and the value that the     *)
(* interpreter returns.                                                     *)
LEMMA Returns ==
  ASSUME Invariant, NEW e \in Returned \cup {NONE}, HasValue(e),
         NEW k \in DOMAIN heapContexts,
         NEW hs, hs = IF e = NONE THEN HeapAfter(heapContexts, e)
                      ELSE [HeapAfter(heapContexts, e)
                              EXCEPT ![k].result = CompiledValue(heapContexts, e)]
  PROVE  /\ Inv(contexts, stack, targets, hs, frames, twin)
         /\ Value(e) \in AllInterpreterValues /\ ValueNested(Value(e), contexts)
         /\ hs[k].result \in HeapWords /\ WordNested(hs[k].result, hs)
         /\ Same(Value(e), hs[k].result, hs, twin)
<1>1. Inv(contexts, stack, targets, heapContexts, frames, twin) /\ Keeps(heapContexts, heapContexts)
  BY DEF Invariant, Keeps
<1>2. CASE e = NONE
  <2>1. hs = heapContexts /\ Value(e) = UNDEFINED
    BY <1>2 DEF HeapAfter, Value
  <2>2. UNDEFINED \in AllInterpreterValues /\ UNDEFINED[1] = "undefined"
    BY DEF UNDEFINED, AllInterpreterValues
  <2>3. hs[k].result \in HeapWords
    BY <1>1, <2>1, TypeFacts DEF Inv
  <2>4. WordNested(hs[k].result, hs)
    BY <1>1, <2>1 DEF Inv, WordsNested
  <2>5. ValueNested(UNDEFINED, contexts) /\ Same(UNDEFINED, hs[k].result, hs, twin)
    BY <2>2 DEF ValueNested, Same
  <2> QED BY <1>1, <2>1, <2>2, <2>3, <2>4, <2>5
<1>3. CASE e # NONE
  <2> DEFINE hs1 == HeapAfter(heapContexts, e)
  <2>1. PICK value, word : value = Value(e) /\ word = CompiledValue(heapContexts, e)
    OBVIOUS
  <2>2. e \in Expressions
    BY <1>3 DEF Expressions
  <2>3. /\ Inv(contexts, stack, targets, hs1, frames, twin) /\ Keeps(heapContexts, hs1)
        /\ value \in AllInterpreterValues /\ ValueNested(value, contexts)
        /\ word \in HeapWords /\ WordNested(word, hs1)
        /\ Same(value, word, hs1, twin)
    BY <1>1, <2>1, <2>2, Evaluated
  <2>4. k \in DOMAIN hs1
    BY <2>3 DEF Keeps
  <2>5. hs = [hs1 EXCEPT ![k].result = word]
    BY <1>3, <2>1
  <2> HIDE DEF hs1
  <2>6. /\ Inv(contexts, stack, targets, hs, frames, twin) /\ Keeps(hs1, hs)
        /\ hs[k].result = word
    <3>1. PICK j \in DOMAIN hs1, w \in HeapWords : j = k /\ w = word
      BY <2>3, <2>4
    <3>2. Inv(contexts, stack, targets, hs1, frames, twin) /\ WordNested(w, hs1)
          /\ hs = WithResult(hs1, j, w)
      BY <2>3, <2>5, <3>1 DEF WithResult
    <3>3. Inv(contexts, stack, targets, hs, frames, twin) /\ Keeps(hs1, hs) /\ hs[j].result = w
      BY ONLY <3>2, ResultWritten, j \in DOMAIN hs1, w \in HeapWords
    <3> QED BY <3>1, <3>3
  <2>7. WordNested(word, hs) /\ Same(value, word, hs, twin)
    BY <2>3, <2>6, WordKept, SameKept
  <2> QED BY <2>1, <2>3, <2>6, <2>7
<1> QED BY <1>2, <1>3

(* The end of a call: the result is stored in the caller, with the frame of *)
(* the call that ends still on the stack.                                   *)
LEMMA InvariantReturn ==
  ASSUME Invariant, NEW e \in Returned \cup {NONE}, Return(e)
  PROVE  Invariant'
<1>1. PICK k, v : k = frames[1].context /\ v = targets[1]
  OBVIOUS
<1>2. PICK hs : hs = IF e = NONE THEN HeapAfter(heapContexts, e)
                     ELSE [HeapAfter(heapContexts, e)
                             EXCEPT ![k].result = CompiledValue(heapContexts, e)]
  OBVIOUS
<1>3. Types(contexts, stack, targets, heapContexts, frames, twin)
  BY DEF Invariant, Inv
<1>4. /\ Len(stack) > 1 /\ Len(stack) \in Nat /\ HasValue(e)
      /\ 1 \in DOMAIN stack /\ 2 \in DOMAIN stack /\ 1 \in DOMAIN targets
      /\ Head(targets) = targets[1]
  <2>1. Len(stack) > 1 /\ HasValue(e)
    BY DEF Return
  <2>2. Len(stack) \in Nat /\ DOMAIN stack = 1..Len(stack) /\ DOMAIN targets = 1..(Len(stack) - 1)
    BY <1>3, TypeFacts
  <2>3. 1 \in DOMAIN stack /\ 2 \in DOMAIN stack /\ 1 \in DOMAIN targets
    BY ONLY <2>1, <2>2
  <2>4. Head(targets) = targets[1]
    BY <1>3, <2>3 DEF Types
  <2> QED BY <2>1, <2>2, <2>3, <2>4
<1>5. /\ contexts' = IF v = NONE THEN contexts ELSE WithVariable(contexts, 2, v, Value(e))
      /\ heapContexts' = IF v = NONE THEN hs ELSE StoreVariable(hs, 2, v, hs[k].result)
      /\ stack' = Tail(stack) /\ frames' = Tail(frames) /\ targets' = Tail(targets)
      /\ twin' = twin
  BY <1>1, <1>2, <1>4 DEF Return
<1>6. k \in DOMAIN heapContexts
  BY <1>1, <1>4, RunningCalls
<1>7. PICK value, word : value = Value(e) /\ word = hs[k].result
  OBVIOUS
<1>8. /\ Inv(contexts, stack, targets, hs, frames, twin)
      /\ value \in AllInterpreterValues /\ ValueNested(value, contexts)
      /\ word \in HeapWords /\ WordNested(word, hs)
      /\ Same(value, word, hs, twin)
  BY <1>2, <1>4, <1>6, <1>7, Returns
<1>9. Inv(contexts', stack, targets, heapContexts', frames, twin)
  <2>1. CASE v = NONE
    BY <1>5, <1>8, <2>1
  <2>2. CASE v # NONE
    <3>1. v \in Variables
      <4>1. targets[1] \in Targets \cup {NONE}
        BY <1>3, <1>4, ElementType DEF Types
      <4> QED BY <1>1, <2>2, <4>1, ProgramAssumption
    <3>2. v \in Visible(RunningFunction(2))
      <4>1. targets[1] # NONE => targets[1] \in Visible(frames[1 + 1].code)
        BY <1>4 DEF Invariant, Inv, TargetsVisible
      <4>2. frames[2].code = RunningFunction(2)
        BY <1>4, RunningCalls
      <4> QED BY <1>1, <2>2, <4>1, <4>2
    <3>3. Inv(WithVariable(contexts, 2, v, value), stack, targets,
              StoreVariable(hs, 2, v, word), frames, twin)
      BY <1>4, <1>8, <3>1, <3>2, AssignmentMade
    <3> QED BY <1>5, <1>7, <2>2, <3>3
  <2> QED BY <2>1, <2>2
<1>10. Inv(contexts', Tail(stack), Tail(targets), heapContexts', Tail(frames), twin)
  BY <1>4, <1>9, CallLeft
<1> QED BY <1>5, <1>10 DEF Invariant

-----------------------------------------------------------------------------
(* The specification.                                                       *)

(* At the start there is one context, of the top level, for both.           *)
LEMMA InvariantInit == Init => Invariant
<1> SUFFICES ASSUME Init PROVE Invariant
  OBVIOUS
<1> DEFINE symbols == [x \in InnerOf(Main) |-> <<"function", [statement |-> x, outer |-> 1]>>]
           slots == [v \in VariablesOf(Main) |-> UNSET]
           context == [function |-> [statement |-> Main, outer |-> 0], symbols |-> symbols]
           heap == [function |-> Main, outer |-> 0, slots |-> slots, result |-> UNSET]
           frame == [code |-> Main, context |-> 1]
<1>1. contexts = <<context>>
  <2>1. [x \in DOMAIN [v \in {} |-> NONE] \cup InnerOf(Main) |->
           IF x \in DOMAIN [v \in {} |-> NONE] THEN [v \in {} |-> NONE][x]
           ELSE <<"function", [statement |-> x, outer |-> 1]>>] = symbols
    OBVIOUS
  <2> QED BY <2>1 DEF Init, NewFunctionContext
<1>2. /\ stack = <<1>> /\ targets = <<>> /\ heapContexts = <<heap>> /\ frames = <<frame>>
      /\ twin = <<1>>
  BY DEF Init
<1>3. /\ context.function = [statement |-> Main, outer |-> 0] /\ context.symbols = symbols
      /\ heap.function = Main /\ heap.outer = 0 /\ heap.slots = slots /\ heap.result = UNSET
      /\ frame.code = Main /\ frame.context = 1
  OBVIOUS
<1>4. context \in InterpreterContext
  <2>1. symbols \in [InnerOf(Main) -> AllInterpreterValues]
    <3>1. ASSUME NEW x \in InnerOf(Main)
          PROVE  <<"function", [statement |-> x, outer |-> 1]>> \in AllInterpreterValues
      BY DEF AllInterpreterValues, InnerOf
    <3> QED BY <3>1
  <2>2. InnerOf(Main) \in SUBSET Names
    BY DEF InnerOf, Names
  <2>3. symbols \in Symbols
    BY <2>1, <2>2 DEF Symbols
  <2> HIDE DEF symbols
  <2> QED BY <2>3, ProgramAssumption DEF InterpreterContext, InterpreterFunction
<1>5. heap \in HeapContext
  <2>1. slots \in [VariablesOf(Main) -> HeapWords] /\ VariablesOf(Main) \in SUBSET Variables
    BY DEF VariablesOf, HeapWords
  <2>2. slots \in Slots
    BY <2>1 DEF Slots
  <2> HIDE DEF slots
  <2> QED BY <2>2, ProgramAssumption DEF HeapContext, HeapWords
<1>6. frame \in Frame
  BY ProgramAssumption DEF Frame
<1>7. /\ DOMAIN symbols = InnerOf(Main)
      /\ \A x \in InnerOf(Main) : symbols[x] = <<"function", [statement |-> x, outer |-> 1]>>
      /\ DOMAIN slots = VariablesOf(Main) /\ \A v \in VariablesOf(Main) : slots[v] = UNSET
  OBVIOUS
<1> HIDE DEF symbols, slots, context, heap, frame
<1>8. Types(contexts, stack, targets, heapContexts, frames, twin)
  BY <1>1, <1>2, <1>4, <1>5, <1>6 DEF Types
<1>9. /\ DOMAIN contexts = {1} /\ contexts[1] = context /\ DOMAIN heapContexts = {1}
      /\ heapContexts[1] = heap /\ DOMAIN stack = {1} /\ stack[1] = 1 /\ Len(stack) = 1
      /\ frames[1] = frame /\ DOMAIN twin = {1} /\ twin[1] = 1 /\ DOMAIN targets = {}
  BY <1>1, <1>2
<1>10. Current(1, twin)
  BY <1>9 DEF Current
<1>11. ContextsNested(contexts) /\ HeapNested(heapContexts)
  BY <1>3, <1>9 DEF ContextsNested, HeapNested
<1>12. SymbolsNested(contexts)
  <2>1. ASSUME NEW x \in InnerOf(Main) PROVE ValueNested(symbols[x], contexts)
    <3>1. symbols[x][2].outer = 1 /\ symbols[x][2].statement = x /\ Outer[x] = Main
      <4>1. symbols[x] = <<"function", [statement |-> x, outer |-> 1]>>
        BY <1>7
      <4>2. Outer[x] = Main
        BY DEF InnerOf
      <4> QED BY <4>1, <4>2
    <3>2. contexts[1].function.statement = Main /\ 1 \in DOMAIN contexts
      BY <1>3, <1>9
    <3> QED BY <3>1, <3>2 DEF ValueNested
  <2> QED BY <1>3, <1>7, <1>9, <2>1 DEF SymbolsNested
<1>13. WordsNested(heapContexts)
  BY <1>3, <1>7, <1>9, WordKinds DEF WordsNested
<1>14. TwinsMatch(contexts, heapContexts, twin) /\ FramesMatch(contexts, stack, frames, twin)
  BY <1>3, <1>9, <1>10 DEF TwinsMatch, FramesMatch
<1>15. TargetsVisible(targets, frames) /\ OutersCurrent(contexts, twin)
  BY <1>9 DEF TargetsVisible, OutersCurrent
<1>16. SymbolsMatch(contexts, heapContexts, twin)
  BY <1>3, <1>7, <1>9, ScopesOfNames DEF SymbolsMatch, InnerOf
<1> QED BY <1>8, <1>11, <1>12, <1>13, <1>14, <1>15, <1>16 DEF Invariant, Inv

(* The invariant of ContextsInvariant holds, if a function is never called  *)
(* through a variable while its context is in use: such a call overwrites   *)
(* the variables of the call in progress (MediumLevelIR creates the context *)
(* once, with the Function).                                                *)
THEOREM InvariantHolds ==
  ASSUME ~OverlappingCalls
  PROVE  Spec => []Invariant
<1>1. Init => Invariant
  BY InvariantInit
<1>2. Invariant /\ [Next]_vars => Invariant'
  <2> SUFFICES ASSUME Invariant, [Next]_vars PROVE Invariant'
    OBVIOUS
  <2>1. ASSUME NEW v \in Variables, NEW e \in Assigned, Assign(v, e) PROVE Invariant'
    BY <2>1, InvariantAssign
  <2>2. ASSUME NEW g \in InnerFunctions, NEW e \in Arguments \cup {NONE},
               NEW t \in Targets \cup {NONE}, CallDirect(g, e, t)
        PROVE  Invariant'
    BY <2>2, InvariantCallDirect
  <2>3. ASSUME NEW v \in Variables, NEW e \in Arguments \cup {NONE},
               NEW t \in Targets \cup {NONE}, CallFromVariable(v, e, t)
        PROVE  Invariant'
    BY <2>3, InvariantCallFromVariable
  <2>4. ASSUME NEW e \in Returned \cup {NONE}, Return(e) PROVE Invariant'
    BY <2>4, InvariantReturn
  <2>5. CASE UNCHANGED vars
    BY <2>5 DEF vars, Invariant
  <2> QED BY <2>1, <2>2, <2>3, <2>4, <2>5 DEF Next
<1> QED BY <1>1, <1>2, PTL DEF Spec

(* Every FunctionContext has the words of its function, and the values in   *)
(* it refer to contexts that exist (CreateFunctionContext is given the      *)
(* number of words by the function it is for).                              *)
THEOREM ContextsTypeOK ==
  ASSUME ~OverlappingCalls
  PROVE  Spec => []TypeOK
BY InvariantHolds, InvariantTypeOK, PTL

(* For every program, the compiled code finds in each variable that is      *)
(* visible in a call in progress the value that the interpreter finds       *)
(* (PseudoAssembler.__createForLoad and __createForStore against            *)
(* FunctionContext.variableValue and updateVariable).                       *)
THEOREM CompiledValuesAreTheSame ==
  ASSUME ~OverlappingCalls
  PROVE  Spec => []SameValues
BY InvariantHolds, InvariantSameValues, PTL

(* The static chain of each call in progress leads to the contexts of the   *)
(* calls its closure was created in.                                        *)
THEOREM StaticChainIsLexical ==
  ASSUME ~OverlappingCalls
  PROVE  Spec => []LexicalChain
BY InvariantHolds, InvariantLexicalChain, PTL
=============================================================================
