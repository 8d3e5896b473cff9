------------------------------ MODULE Induction ------------------------------
(***************************************************************************)
(* Induction on numbers and definition by recursion, stated with sets and  *)
(* functions in the place of operators, so that they can be cited: a       *)
(* property is the set of the things that have it, and the body of a       *)
(* recursive definition is a function.  Both rest on the well-foundedness  *)
(* of the order of the natural numbers.                                    *)
(***************************************************************************)
EXTENDS Integers, Sequences, TLAPS, WellFoundedInduction

Less == {pair \in Nat \X Nat : pair[1] < pair[2]}

(* The order of the natural numbers is well-founded.                        *)
LEMMA LessIsWellFounded == IsWellFoundedOn(Less, Nat)
BY NatLessThanWellFounded DEF OpToRel, Less

(* A set of natural numbers has a least element.                            *)
LEMMA LeastElement ==
  ASSUME NEW T \in SUBSET Nat, T # {}
  PROVE  \E n \in T : \A m \in T : n <= m
<1>1. \E n \in T : \A m \in T : ~ (<<m, n>> \in Less)
  BY LessIsWellFounded, WFMin
<1>2. PICK n \in T : \A m \in T : ~ (<<m, n>> \in Less)
  BY <1>1
<1>3. ASSUME NEW m \in T PROVE n <= m
  <2>1. <<m, n>> \in Nat \X Nat /\ <<m, n>>[1] = m /\ <<m, n>>[2] = n
    OBVIOUS
  <2>2. ~ (m < n)
    BY <1>2, <2>1 DEF Less
  <2> QED BY <2>2
<1> QED BY <1>3

(* What holds for a number when it holds for all smaller ones holds for all *)
(* numbers.                                                                 *)
LEMMA StrongInduction ==
  ASSUME NEW S,
         \A n \in Nat : (\A m \in Nat : m < n => m \in S) => n \in S
  PROVE  \A n \in Nat : n \in S
<1> DEFINE T == Nat \ S
<1>1. SUFFICES ASSUME T # {} PROVE FALSE
  OBVIOUS
<1>2. PICK n \in T : \A m \in T : n <= m
  BY <1>1, LeastElement
<1>3. \A m \in Nat : m < n => m \in S
  BY <1>2
<1> QED BY <1>2, <1>3

(* What holds for 0 and for the successor of a number it holds for holds    *)
(* for all numbers.                                                         *)
LEMMA Induction ==
  ASSUME NEW S,
         0 \in S,
         \A n \in Nat : n \in S => n + 1 \in S
  PROVE  \A n \in Nat : n \in S
<1>1. ASSUME NEW n \in Nat, \A m \in Nat : m < n => m \in S
      PROVE  n \in S
  <2>1. CASE n = 0
    BY <2>1
  <2>2. CASE n # 0
    <3>1. n - 1 \in Nat /\ n - 1 < n /\ (n - 1) + 1 = n
      BY <2>2
    <3> QED BY <1>1, <3>1
  <2> QED BY <2>1, <2>2
<1> QED BY <1>1, StrongInduction

(* What holds for x when it holds for everything of a smaller rank holds    *)
(* for everything.                                                          *)
LEMMA RankInduction ==
  ASSUME NEW D, NEW rank \in [D -> Nat], NEW S,
         \A x \in D : (\A y \in D : rank[y] < rank[x] => y \in S) => x \in S
  PROVE  \A x \in D : x \in S
<1> DEFINE T == {n \in Nat : \A x \in D : rank[x] = n => x \in S}
<1>1. ASSUME NEW n \in Nat, \A m \in Nat : m < n => m \in T
      PROVE  n \in T
  <2>1. \A y \in D : rank[y] \in Nat /\ (rank[y] < n => y \in S)
    BY <1>1
  <2> QED BY <2>1
<1>2. \A n \in Nat : n \in T
  <2> HIDE DEF T
  <2> QED BY <1>1, StrongInduction
<1>3. ASSUME NEW x \in D PROVE x \in S
  <2>1. rank[x] \in Nat
    OBVIOUS
  <2>2. rank[x] \in T
    BY <1>2, <2>1
  <2> QED BY <2>2
<1> QED BY <1>3

(* Recursion on D with results in V: on the set Base the results are given, *)
(* and every other x refers to next[x], which has a smaller rank.           *)
Recursion(D, V, rank, Base, base, next, step) ==
  /\ rank \in [D -> Nat]
  /\ Base \in SUBSET D
  /\ base \in [Base -> V]
  /\ next \in [D \ Base -> D]
  /\ step \in [D \ Base -> [V -> V]]
  /\ \A x \in D \ Base : rank[next[x]] < rank[x]

Satisfies(f, D, Base, base, next, step) ==
  \A x \in D : f[x] = IF x \in Base THEN base[x] ELSE step[x][f[next[x]]]

(* Such a recursion defines a function.                                     *)
LEMMA RecursiveFunctionExists ==
  ASSUME NEW D, NEW V, NEW rank, NEW Base, NEW base, NEW next, NEW step,
         Recursion(D, V, rank, Base, base, next, step)
  PROVE  \E f \in [D -> V] : Satisfies(f, D, Base, base, next, step)
<1> USE DEF Recursion
<1> DEFINE Body(f, x) == IF x \in Base THEN base[x] ELSE step[x][f[next[x]]]
           Below(n) == {x \in D : rank[x] < n}
           S == {n \in Nat : \E f \in [Below(n) -> V] : \A x \in Below(n) : f[x] = Body(f, x)}
<1>0. \A n \in Nat, x \in D \ Base : x \in Below(n + 1) => next[x] \in Below(n)
  <2> TAKE n \in Nat, x \in D \ Base
  <2>1. next[x] \in D /\ rank[next[x]] \in Nat /\ rank[x] \in Nat /\ rank[next[x]] < rank[x]
    OBVIOUS
  <2> QED BY <2>1
<1>1. 0 \in S
  <2>1. Below(0) = {}
    OBVIOUS
  <2>2. [x \in {} |-> x] \in [Below(0) -> V]
    BY <2>1
  <2> QED BY <2>1, <2>2
<1>2. ASSUME NEW n \in Nat, n \in S PROVE n + 1 \in S
  <2>1. PICK f \in [Below(n) -> V] : \A x \in Below(n) : f[x] = Body(f, x)
    BY <1>2
  <2> DEFINE g == [x \in Below(n + 1) |-> Body(f, x)]
  <2>2. \A x \in Below(n + 1) : x \in D /\ g[x] = Body(f, x)
    OBVIOUS
  <2>3. g \in [Below(n + 1) -> V]
    <3>1. ASSUME NEW x \in Below(n + 1) PROVE Body(f, x) \in V
      <4>1. CASE x \in Base
        BY <4>1
      <4>2. CASE x \notin Base
        <5>1. x \in D \ Base /\ next[x] \in Below(n)
          BY <1>0, <4>2
        <5>2. f[next[x]] \in V /\ step[x] \in [V -> V]
          BY <5>1
        <5> QED BY <4>2, <5>2
      <4> QED BY <4>1, <4>2
    <3> QED BY <3>1
  <2>4. \A x \in Below(n) : x \in Below(n + 1) /\ g[x] = f[x]
    <3> TAKE x \in Below(n)
    <3>1. x \in D /\ rank[x] \in Nat
      OBVIOUS
    <3>2. x \in Below(n + 1)
      BY <3>1
    <3> QED BY <2>1, <2>2, <3>2
  <2>5. \A x \in Below(n + 1) : g[x] = Body(g, x)
    <3> TAKE x \in Below(n + 1)
    <3>1. x \notin Base => f[next[x]] = g[next[x]]
      BY <1>0, <2>2, <2>4
    <3> HIDE DEF g
    <3> QED BY <2>2, <3>1
  <2> HIDE DEF g, Below
  <2> QED BY <2>3, <2>5
<1>3. \A n \in Nat : n \in S
  <2> HIDE DEF S
  <2> QED BY <1>1, <1>2, Induction
(* Two of the partial functions agree where both are defined.               *)
<1> DEFINE Part(n) == CHOOSE f \in [Below(n) -> V] : \A x \in Below(n) : f[x] = Body(f, x)
<1>4. \A n \in Nat : /\ Part(n) \in [Below(n) -> V]
                     /\ \A x \in Below(n) : Part(n)[x] = Body(Part(n), x)
  BY <1>3
<1> HIDE DEF Part
<1>5. ASSUME NEW n \in Nat, NEW m \in Nat PROVE \A x \in Below(n) \cap Below(m) : Part(n)[x] = Part(m)[x]
  <2> DEFINE R == {x \in D : x \in Below(n) \cap Below(m) => Part(n)[x] = Part(m)[x]}
  <2>1. ASSUME NEW x \in D, \A y \in D : rank[y] < rank[x] => y \in R PROVE x \in R
    <3>1. SUFFICES ASSUME x \in Below(n) \cap Below(m) PROVE Part(n)[x] = Part(m)[x]
      OBVIOUS
    <3>2. CASE x \in Base
      BY <1>4, <3>1, <3>2
    <3>3. CASE x \notin Base
      <4>1. next[x] \in D /\ rank[next[x]] \in Nat /\ rank[x] \in Nat /\ rank[next[x]] < rank[x]
        BY <3>3
      <4>2. next[x] \in Below(n) \cap Below(m)
        BY <3>1, <4>1
      <4>3. Part(n)[next[x]] = Part(m)[next[x]]
        BY <2>1, <4>1, <4>2
      <4>4. Part(n)[x] = Body(Part(n), x) /\ Part(m)[x] = Body(Part(m), x)
        BY <1>4, <3>1
      <4> QED BY <3>3, <4>3, <4>4
    <3> QED BY <3>2, <3>3
  <2>2. \A x \in D : x \in R
    <3> HIDE DEF R
    <3> QED BY <2>1, RankInduction
  <2> QED BY <2>2
<1> DEFINE h == [x \in D |-> Part(rank[x] + 1)[x]]
<1>6. \A x \in D : rank[x] \in Nat /\ rank[x] + 1 \in Nat /\ x \in Below(rank[x] + 1)
  OBVIOUS
<1>7. h \in [D -> V]
  <2>1. ASSUME NEW x \in D PROVE Part(rank[x] + 1)[x] \in V
    <3>1. PICK n : n = rank[x] + 1
      OBVIOUS
    <3>2. n \in Nat /\ x \in Below(n)
      BY <3>1, <1>6
    <3>3. Part(n) \in [Below(n) -> V]
      BY <3>2, <1>4
    <3>4. Part(n)[x] \in V
      <4> HIDE DEF Below
      <4> QED BY <3>2, <3>3
    <3> QED BY <3>1, <3>4
  <2> QED BY ONLY <2>1
<1>8. ASSUME NEW x \in D PROVE h[x] = Body(h, x)
  <2>1. h[x] = Body(Part(rank[x] + 1), x)
    BY <1>4, <1>6
  <2> HIDE DEF h
  <2>2. CASE x \in Base
    BY <2>1, <2>2
  <2>3. CASE x \notin Base
    <3>1. next[x] \in D /\ next[x] \in Below(rank[x] + 1)
      <4>1. next[x] \in D /\ rank[next[x]] \in Nat /\ rank[x] \in Nat /\ rank[next[x]] < rank[x]
        BY <2>3
      <4> QED BY <4>1
    <3>2. Part(rank[x] + 1)[next[x]] = Part(rank[next[x]] + 1)[next[x]]
      BY <1>5, <1>6, <3>1
    <3>3. h[next[x]] = Part(rank[x] + 1)[next[x]]
      BY <3>1, <3>2 DEF h
    <3> QED BY <2>1, <2>3, <3>3
  <2> QED BY <2>2, <2>3
<1> HIDE DEF h
<1> QED BY <1>7, <1>8 DEF Satisfies

(* Recursion on D with results in V, where the result for x is given by     *)
(* those of everything of a smaller rank.                                   *)
RankedRecursion(D, V, rank, bound, step) ==
  /\ bound \in Nat /\ rank \in [D -> 0..bound] /\ V # {}
  /\ step \in [D -> [[D -> V] -> V]]
  /\ \A x \in D, f, g \in [D -> V] :
       (\A y \in D : rank[y] < rank[x] => f[y] = g[y]) => step[x][f] = step[x][g]

(* Such a recursion defines a function.                                     *)
LEMMA RankedFunctionExists ==
  ASSUME NEW D, NEW V, NEW rank, NEW bound, NEW step,
         RankedRecursion(D, V, rank, bound, step)
  PROVE  \E f \in [D -> V] : \A x \in D : f[x] = step[x][f]
<1> USE DEF RankedRecursion
<1> DEFINE S == {n \in Nat : \E f \in [D -> V] : \A x \in D : rank[x] < n => f[x] = step[x][f]}
<1>0. \A x \in D : rank[x] \in Nat /\ rank[x] < bound + 1
  OBVIOUS
<1>1. 0 \in S
  <2>1. PICK v \in V : TRUE
    OBVIOUS
  <2>2. [x \in D |-> v] \in [D -> V]
    OBVIOUS
  <2>3. \A x \in D : ~(rank[x] < 0)
    BY <1>0
  <2> QED BY <2>2, <2>3
<1>2. ASSUME NEW n \in Nat, n \in S PROVE n + 1 \in S
  <2>1. PICK f \in [D -> V] : \A x \in D : rank[x] < n => f[x] = step[x][f]
    BY <1>2
  <2> DEFINE g == [x \in D |-> step[x][f]]
  <2>2. g \in [D -> V] /\ \A x \in D : g[x] = step[x][f]
    <3>1. \A x \in D : step[x] \in [[D -> V] -> V]
      OBVIOUS
    <3>2. \A x \in D : step[x][f] \in V
      BY <2>1, <3>1
    <3> QED BY <3>2
  <2> HIDE DEF g
  <2>3. ASSUME NEW x \in D, rank[x] < n + 1 PROVE g[x] = step[x][g]
    <3>1. ASSUME NEW y \in D, rank[y] < rank[x] PROVE f[y] = g[y]
      <4>1. rank[y] < n
        BY <1>0, <2>3, <3>1
      <4> QED BY <2>1, <2>2, <4>1
    <3>2. step[x][f] = step[x][g]
      BY <2>1, <2>2, <3>1
    <3> QED BY <2>2, <3>2
  <2> QED BY <2>2, <2>3
<1>3. \A n \in Nat : n \in S
  <2> HIDE DEF S
  <2> QED BY <1>1, <1>2, Induction
<1>4. bound + 1 \in S
  <2>1. bound + 1 \in Nat
    OBVIOUS
  <2> HIDE DEF S
  <2> QED BY <1>3, <2>1
<1> QED BY <1>0, <1>4

-----------------------------------------------------------------------------
(* Elements of sequences.                                                   *)

(* The elements of a sequence.                                              *)
LEMMA ElementType ==
  ASSUME NEW T, NEW s \in Seq(T)
  PROVE  \A i \in DOMAIN s : s[i] \in T
OBVIOUS

(* One element of a sequence is replaced.                                   *)
LEMMA ElementReplaced ==
  ASSUME NEW T, NEW s \in Seq(T), NEW i \in DOMAIN s, NEW e \in T
  PROVE  LET s2 == [s EXCEPT ![i] = e]
         IN /\ s2 \in Seq(T) /\ Len(s2) = Len(s) /\ DOMAIN s2 = DOMAIN s
            /\ s2[i] = e /\ \A j \in DOMAIN s : j # i => s2[j] = s[j]
OBVIOUS

(* An element is put before, after, or taken from a sequence.               *)
LEMMA ElementPrepended ==
  ASSUME NEW T, NEW s \in Seq(T), NEW e \in T
  PROVE  /\ <<e>> \o s \in Seq(T) /\ Len(<<e>> \o s) = Len(s) + 1
         /\ DOMAIN (<<e>> \o s) = 1..(Len(s) + 1)
         /\ (<<e>> \o s)[1] = e
         /\ \A i \in 2..(Len(s) + 1) : i - 1 \in DOMAIN s /\ (<<e>> \o s)[i] = s[i - 1]
OBVIOUS

(* The same for the end of a sequence.                                      *)
LEMMA ElementAppended ==
  ASSUME NEW T, NEW s \in Seq(T), NEW e \in T
  PROVE  /\ Append(s, e) \in Seq(T) /\ Len(Append(s, e)) = Len(s) + 1
         /\ DOMAIN Append(s, e) = DOMAIN s \cup {Len(s) + 1} /\ Len(s) + 1 \notin DOMAIN s
         /\ Append(s, e)[Len(s) + 1] = e
         /\ \A i \in DOMAIN s : Append(s, e)[i] = s[i]
OBVIOUS

(* What is left without the first element.                                  *)
LEMMA ElementTaken ==
  ASSUME NEW T, NEW s \in Seq(T), Len(s) > 0
  PROVE  /\ Tail(s) \in Seq(T) /\ Len(Tail(s)) = Len(s) - 1
         /\ DOMAIN Tail(s) = 1..(Len(s) - 1)
         /\ \A i \in 1..(Len(s) - 1) : i + 1 \in DOMAIN s /\ Tail(s)[i] = s[i + 1]
OBVIOUS

(* What the elements of two sequences in a row are.                         *)
LEMMA ElementsInARow ==
  ASSUME NEW T, NEW s \in Seq(T), NEW d \in Seq(T)
  PROVE  /\ s \o d \in Seq(T) /\ Len(s \o d) = Len(s) + Len(d)
         /\ DOMAIN (s \o d) = 1..(Len(s) + Len(d))
         /\ \A i \in DOMAIN s : (s \o d)[i] = s[i]
         /\ \A i \in DOMAIN d : (s \o d)[Len(s) + i] = d[i]
         /\ \A i \in 1..(Len(s) + Len(d)) : i \in DOMAIN s \/ i - Len(s) \in DOMAIN d
OBVIOUS

-----------------------------------------------------------------------------
(* Folding: a value goes through n steps.  What the values are is V.        *)
Folds(f, n, V, base, step) ==
  /\ f \in [0..n -> V] /\ f[0] = base
  /\ \A k \in 1..n : f[k] = step[k][f[k - 1]]

(* A fold exists, for every base and all steps.                             *)
LEMMA FoldExists ==
  ASSUME NEW n \in Nat, NEW V, NEW base \in V, NEW step \in [1..n -> [V -> V]]
  PROVE  \E f : Folds(f, n, V, base, step)
<1> DEFINE D == 0..n
           Base == {0}
           first == [k \in Base |-> base]
           before == [k \in D \ Base |-> k - 1]
           rank == [k \in D |-> k]
           steps == [k \in D \ Base |-> step[k]]
<1>0. D \ Base = 1..n
  OBVIOUS
<1>1. Recursion(D, V, rank, Base, first, before, steps)
  <2>1. rank \in [D -> Nat] /\ Base \in SUBSET D /\ first \in [Base -> V]
    OBVIOUS
  <2>2. before \in [D \ Base -> D] /\ \A k \in D \ Base : rank[before[k]] < rank[k]
    OBVIOUS
  <2>3. steps \in [D \ Base -> [V -> V]]
    BY <1>0
  <2> HIDE DEF D, Base, first, before, steps, rank
  <2> QED BY <2>1, <2>2, <2>3 DEF Recursion
<1>2. PICK f \in [D -> V] : Satisfies(f, D, Base, first, before, steps)
  <2> HIDE DEF D, Base, first, before, steps, rank
  <2> QED BY <1>1, RecursiveFunctionExists
<1>3. f[0] = base
  BY <1>2 DEF Satisfies
<1>4. ASSUME NEW k \in 1..n PROVE f[k] = step[k][f[k - 1]]
  <2>1. k \in D \ Base /\ before[k] = k - 1 /\ steps[k] = step[k] /\ k \notin Base
    BY <1>0
  <2> HIDE DEF D, Base, first, before, steps
  <2> QED BY <1>2, <2>1 DEF Satisfies
<1> QED BY <1>2, <1>3, <1>4 DEF Folds

(* The last value of such a function is in V, whichever function it is.     *)
LEMMA FoldStaysIn ==
  ASSUME NEW n \in Nat, NEW V, NEW f, f[0] \in V,
         \A k \in 1..n : f[k - 1] \in V => f[k] \in V
  PROVE  f[n] \in V
<1> DEFINE S == {k \in Nat : k \in 0..n => f[k] \in V}
<1>1. 0 \in S
  OBVIOUS
<1>2. ASSUME NEW k \in Nat, k \in S PROVE k + 1 \in S
  <2>1. SUFFICES ASSUME k + 1 \in 0..n PROVE f[k + 1] \in V
    OBVIOUS
  <2>2. k \in 0..n /\ k + 1 \in 1..n /\ (k + 1) - 1 = k
    BY <2>1
  <2> QED BY <1>2, <2>2
<1>3. \A k \in Nat : k \in S
  <2> HIDE DEF S
  <2> QED BY <1>1, <1>2, Induction
<1> QED BY <1>3
=============================================================================
