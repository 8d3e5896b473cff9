----------------------------- MODULE ScopeLemmas ------------------------------
(***************************************************************************)
(* Lemmas about the bodies of a program and what is around its items, about *)
(* stacks and trees of scopes, about the Variables of a scope and the       *)
(* declarations they stand for, and about the recursive functions of        *)
(* ScopeAnalyser.                                                          *)
(***************************************************************************)
EXTENDS ScopeInvariant, Induction, FiniteSetTheorems

-----------------------------------------------------------------------------
(* Greatest and least elements.                                             *)

(* A bounded set of numbers has a greatest element.                         *)
LEMMA GreatestElement ==
  ASSUME NEW n \in Nat, NEW S \in SUBSET (0..n), S # {}
  PROVE  Max(S) \in S /\ Max(S) \in 0..n /\ \A y \in S : y <= Max(S)
<1> DEFINE T == {n - x : x \in S}
<1>1. T \in SUBSET Nat /\ T # {}
  <2>1. \A x \in S : n - x \in Nat
    OBVIOUS
  <2>2. PICK x \in S : TRUE
    OBVIOUS
  <2>3. n - x \in T
    OBVIOUS
  <2> QED BY <2>1, <2>3
<1>2. PICK t \in T : \A m \in T : t <= m
  <2> HIDE DEF T
  <2> QED BY <1>1, LeastElement
<1>3. PICK x \in S : t = n - x
  BY <1>2
<1>4. \A y \in S : x >= y
  <2> TAKE y \in S
  <2>1. n - y \in T
    OBVIOUS
  <2>2. t <= n - y
    BY <1>2, <2>1
  <2> QED BY <1>3, <2>2
<1>5. \E z \in S : \A y \in S : z >= y
  BY <1>4
<1>6. Max(S) \in S /\ \A y \in S : Max(S) >= y
  BY <1>5 DEF Max
<1> QED BY <1>6

(* The greatest and the least element, once known.                          *)
LEMMA GreatestIs ==
  ASSUME NEW S \in SUBSET Int, NEW m \in S, \A y \in S : y <= m
  PROVE  Max(S) = m
<1>1. \E z \in S : \A y \in S : z >= y
  OBVIOUS
<1>2. Max(S) \in S /\ \A y \in S : Max(S) >= y
  BY <1>1 DEF Max
<1>3. Max(S) >= m /\ m >= Max(S) /\ Max(S) \in Int
  BY <1>2
<1> QED BY ONLY <1>3, m \in Int
LEMMA LeastIs ==
  ASSUME NEW S \in SUBSET Int, NEW m \in S, \A y \in S : m <= y
  PROVE  Min(S) = m
<1>1. \E z \in S : \A y \in S : z =< y
  OBVIOUS
<1>2. Min(S) \in S /\ \A y \in S : Min(S) =< y
  BY <1>1 DEF Min
<1>3. Min(S) <= m /\ m <= Min(S) /\ Min(S) \in Int
  BY <1>2
<1> QED BY ONLY <1>3, m \in Int

(* What is said of a set holds of sets of numbers from 0 or 1 on.           *)
LEMMA NumbersAreFinite ==
  ASSUME NEW n \in Nat, NEW S \in SUBSET (0..n)
  PROVE  IsFiniteSet(S) /\ Cardinality(S) \in Nat
<1>1. IsFiniteSet(0..n)
  BY FS_Interval
<1>2. IsFiniteSet(S)
  BY <1>1, FS_Subset
<1> QED BY <1>2, FS_CardinalityType

-----------------------------------------------------------------------------
(* The bodies of a program.                                                 *)

(* The types of the operators.                                              *)
LEMMA OpenBodies ==
  ASSUME NEW p, NEW i \in Nat \ {0}
  PROVE  /\ BegunBefore(p, i) \in SUBSET (1..(i - 1)) /\ IsFiniteSet(BegunBefore(p, i))
         /\ EndedBefore(p, i) \in SUBSET (1..(i - 1)) /\ IsFiniteSet(EndedBefore(p, i))
         /\ Around(p, i) \in SUBSET (0..(i - 1)) /\ IsFiniteSet(Around(p, i))
         /\ TopScope \in Around(p, i)
         /\ Level(p, i) \in Int
<1>1. /\ BegunBefore(p, i) \in SUBSET (1..(i - 1)) /\ EndedBefore(p, i) \in SUBSET (1..(i - 1))
  BY DEF BegunBefore, EndedBefore
<1>2. i - 1 \in Nat
  OBVIOUS
<1>3. Around(p, i) \in SUBSET (0..(i - 1)) /\ TopScope \in Around(p, i)
  BY <1>1, <1>2 DEF Around, TopScope
<1>4. /\ BegunBefore(p, i) \in SUBSET (0..(i - 1)) /\ EndedBefore(p, i) \in SUBSET (0..(i - 1))
  BY <1>1, <1>2
<1>5. /\ IsFiniteSet(BegunBefore(p, i)) /\ Cardinality(BegunBefore(p, i)) \in Nat
      /\ IsFiniteSet(EndedBefore(p, i)) /\ Cardinality(EndedBefore(p, i)) \in Nat
      /\ IsFiniteSet(Around(p, i))
  BY <1>2, <1>3, <1>4, NumbersAreFinite
<1> QED BY <1>1, <1>3, <1>5 DEF Level

(* Before the first item.                                                   *)
LEMMA AtTheBeginning ==
  ASSUME NEW p
  PROVE  Level(p, 1) = 0 /\ Around(p, 1) = {TopScope}
<1>1. BegunBefore(p, 1) = {} /\ EndedBefore(p, 1) = {}
  BY OpenBodies
<1>2. Level(p, 1) = 0
  BY <1>1, FS_EmptySet DEF Level
<1> QED BY <1>1, <1>2 DEF Around

(* One item further.                                                        *)
LEMMA LevelStep ==
  ASSUME NEW p, NEW i \in Nat \ {0}
  PROVE  /\ BegunBefore(p, i + 1) = BegunBefore(p, i) \cup {b \in {i} : p[i].kind \in Begins}
         /\ EndedBefore(p, i + 1) = EndedBefore(p, i) \cup {b \in {i} : p[i].kind \in Ends}
         /\ Level(p, i + 1) = Level(p, i) + (IF p[i].kind \in Begins THEN 1 ELSE 0)
                                - (IF p[i].kind \in Ends THEN 1 ELSE 0)
<1>1. 1..((i + 1) - 1) = 1..(i - 1) \cup {i} /\ i \notin 1..(i - 1)
  OBVIOUS
<1>2. /\ BegunBefore(p, i + 1) = BegunBefore(p, i) \cup {b \in {i} : p[i].kind \in Begins}
      /\ EndedBefore(p, i + 1) = EndedBefore(p, i) \cup {b \in {i} : p[i].kind \in Ends}
  <2> HIDE DEF Begins, Ends
  <2> QED BY <1>1 DEF BegunBefore, EndedBefore
<1>3. /\ IsFiniteSet(BegunBefore(p, i)) /\ i \notin BegunBefore(p, i)
      /\ IsFiniteSet(EndedBefore(p, i)) /\ i \notin EndedBefore(p, i)
  BY <1>1, OpenBodies
<1>4. Cardinality(BegunBefore(p, i + 1)) = Cardinality(BegunBefore(p, i)) + (IF p[i].kind \in Begins THEN 1 ELSE 0)
  <2>1. CASE p[i].kind \in Begins
    <3>1. BegunBefore(p, i + 1) = BegunBefore(p, i) \cup {i}
      BY <1>2, <2>1
    <3> QED BY <1>3, <2>1, <3>1, FS_AddElement
  <2>2. CASE p[i].kind \notin Begins
    <3>1. BegunBefore(p, i + 1) = BegunBefore(p, i)
      BY <1>2, <2>2
    <3>2. Cardinality(BegunBefore(p, i)) \in Nat
      BY <1>3, FS_CardinalityType
    <3> QED BY <2>2, <3>1, <3>2
  <2> QED BY <2>1, <2>2
<1>5. Cardinality(EndedBefore(p, i + 1)) = Cardinality(EndedBefore(p, i)) + (IF p[i].kind \in Ends THEN 1 ELSE 0)
  <2>1. CASE p[i].kind \in Ends
    <3>1. EndedBefore(p, i + 1) = EndedBefore(p, i) \cup {i}
      BY <1>2, <2>1
    <3> QED BY <1>3, <2>1, <3>1, FS_AddElement
  <2>2. CASE p[i].kind \notin Ends
    <3>1. EndedBefore(p, i + 1) = EndedBefore(p, i)
      BY <1>2, <2>2
    <3>2. Cardinality(EndedBefore(p, i)) \in Nat
      BY <1>3, FS_CardinalityType
    <3> QED BY <2>2, <3>1, <3>2
  <2> QED BY <2>1, <2>2
<1>6. Cardinality(BegunBefore(p, i)) \in Nat /\ Cardinality(EndedBefore(p, i)) \in Nat
  BY <1>3, FS_CardinalityType
<1>7. Level(p, i + 1) = Level(p, i) + (IF p[i].kind \in Begins THEN 1 ELSE 0)
                          - (IF p[i].kind \in Ends THEN 1 ELSE 0)
  <2>1. PICK x : x = (IF p[i].kind \in Begins THEN 1 ELSE 0)
    OBVIOUS
  <2>2. PICK y : y = (IF p[i].kind \in Ends THEN 1 ELSE 0)
    OBVIOUS
  <2>3. x \in Int /\ y \in Int
    BY <2>1, <2>2
  <2> QED BY ONLY <1>4, <1>5, <1>6, <2>1, <2>2, <2>3 DEF Level
<1> QED BY <1>2, <1>7

(* An end closes the bodies of its level.                                   *)
LEMMA AroundStep ==
  ASSUME NEW p, NEW i \in Nat \ {0}
  PROVE  Around(p, i + 1) =
           {b \in Around(p, i) : \/ b = TopScope \/ p[i].kind \notin Ends
                                 \/ Level(p, i) # LevelInside(p, b)}
             \cup {b \in {i} : p[i].kind \in Begins}
<1>1. /\ BegunBefore(p, i + 1) = BegunBefore(p, i) \cup {b \in {i} : p[i].kind \in Begins}
      /\ EndedBefore(p, i + 1) = EndedBefore(p, i) \cup {b \in {i} : p[i].kind \in Ends}
      /\ BegunBefore(p, i) \in SUBSET (1..(i - 1)) /\ EndedBefore(p, i) \in SUBSET (1..(i - 1))
  BY LevelStep, OpenBodies
<1> DEFINE Open(b, T) == \A j \in T : b < j => Level(p, j) # LevelInside(p, b)
<1>2. \A k : Around(p, k) = {TopScope} \cup {b \in BegunBefore(p, k) : Open(b, EndedBefore(p, k))}
  BY DEF Around
<1>3. Around(p, i) = {TopScope} \cup {b \in BegunBefore(p, i) : Open(b, EndedBefore(p, i))}
  BY <1>2
<1>4. Around(p, i + 1) = {TopScope} \cup {b \in BegunBefore(p, i + 1) : Open(b, EndedBefore(p, i + 1))}
  BY <1>2
<1>5. \A b \in BegunBefore(p, i) :
        Open(b, EndedBefore(p, i + 1)) <=>
          Open(b, EndedBefore(p, i)) /\ (p[i].kind \in Ends => Level(p, i) # LevelInside(p, b))
  <2> TAKE b \in BegunBefore(p, i)
  <2>1. b < i
    BY <1>1
  <2> HIDE DEF Ends
  <2> QED BY <1>1, <2>1
<1>6. Open(i, EndedBefore(p, i + 1))
  <2>1. ASSUME NEW j \in EndedBefore(p, i + 1) PROVE ~ (i < j)
    BY <1>1
  <2> QED BY <2>1
<1>7. TopScope \notin BegunBefore(p, i) /\ TopScope # i
  BY <1>1 DEF TopScope
<1> HIDE DEF Open
<1> QED BY ONLY <1>1, <1>3, <1>4, <1>5, <1>6, <1>7

(* A body is around what comes after it until it ends, with all that is     *)
(* around the body.                                                         *)
WellNestedAt(p, i) ==
  /\ Level(p, i) = Cardinality(Around(p, i)) - 1
  /\ \A b \in Around(p, i) : Around(p, b + 1) = {c \in Around(p, i) : c <= b}

(* The bodies around the next item: an end takes away the innermost one.    *)
NextAround(p, i) ==
  (Around(p, i) \ {b \in {Body(p, i)} : p[i].kind \in Ends}) \cup {b \in {i} : p[i].kind \in Begins}

(* The innermost body.                                                      *)
LEMMA BodyFacts ==
  ASSUME NEW p, NEW i \in Nat \ {0}
  PROVE  /\ Body(p, i) \in Around(p, i) /\ Body(p, i) \in 0..(i - 1)
         /\ \A b \in Around(p, i) : b <= Body(p, i)
<1>1. Around(p, i) \in SUBSET (0..(i - 1)) /\ Around(p, i) # {} /\ i - 1 \in Nat
  BY OpenBodies
<1> HIDE DEF Around
<1> QED BY <1>1, GreatestElement DEF Body

(* Only the innermost body has the level of the item.                       *)
LEMMA InnermostEnds ==
  ASSUME NEW p, NEW i \in Nat \ {0}, \A k \in 1..i : WellNestedAt(p, k)
  PROVE  \A b \in Around(p, i) : Level(p, i) = LevelInside(p, b) <=> b = Body(p, i)
<1>1. TAKE b \in Around(p, i)
<1>2. PICK m : m = Body(p, i)
  OBVIOUS
<1>3. /\ Around(p, i) \in SUBSET (0..(i - 1)) /\ IsFiniteSet(Around(p, i))
      /\ m \in Around(p, i) /\ \A c \in Around(p, i) : c <= m
  BY <1>2, OpenBodies, BodyFacts
<1>4. b + 1 \in 1..i /\ i \in 1..i /\ b \in Int /\ m \in Int
  BY <1>1, <1>3
<1>5. /\ Level(p, i) = Cardinality(Around(p, i)) - 1
      /\ LevelInside(p, b) = Cardinality(Around(p, b + 1)) - 1
      /\ Around(p, b + 1) = {c \in Around(p, i) : c <= b}
  BY <1>1, <1>4 DEF WellNestedAt, LevelInside
<1>6. CASE b = m
  <2>1. Around(p, b + 1) = Around(p, i)
    BY <1>3, <1>5, <1>6
  <2> QED BY <1>2, <1>5, <1>6, <2>1
<1>7. CASE b # m
  <2>1. m \notin Around(p, b + 1) /\ Around(p, b + 1) \subseteq Around(p, i)
    BY <1>1, <1>3, <1>4, <1>5, <1>7
  <2>2. Cardinality(Around(p, b + 1)) # Cardinality(Around(p, i))
    <3>1. Around(p, b + 1) # Around(p, i)
      BY <1>3, <2>1
    <3> HIDE DEF Around
    <3> QED BY <1>3, <2>1, <3>1, FS_Subset
  <2>3. Cardinality(Around(p, b + 1)) \in Nat /\ Cardinality(Around(p, i)) \in Nat
    BY <1>3, <2>1, FS_Subset, FS_CardinalityType
  <2>4. Level(p, i) # LevelInside(p, b)
    BY ONLY <1>5, <2>2, <2>3
  <2> QED BY <1>2, <1>7, <2>4
<1> QED BY <1>6, <1>7

(* The next item is nested as well.                                         *)
LEMMA NestingStep ==
  ASSUME NEW p, Nested(p), NEW i \in DOMAIN p, \A k \in 1..i : WellNestedAt(p, k)
  PROVE  Around(p, i + 1) = NextAround(p, i) /\ WellNestedAt(p, i + 1)
<1>1. i \in Nat \ {0} /\ i \in 1..i /\ i + 1 \in Nat \ {0}
  BY DEF Nested
<1>2. PICK m : m = Body(p, i)
  OBVIOUS
<1>3. /\ Around(p, i) \in SUBSET (0..(i - 1)) /\ IsFiniteSet(Around(p, i)) /\ TopScope \in Around(p, i)
      /\ m \in Around(p, i) /\ \A c \in Around(p, i) : c <= m
  BY <1>1, <1>2, OpenBodies, BodyFacts
<1>4. p[i].kind \in Ends => m # TopScope
  BY <1>2 DEF Nested
<1>5. Around(p, i + 1) = NextAround(p, i)
  <2>1. \A b \in Around(p, i) :
          (b = TopScope \/ p[i].kind \notin Ends \/ Level(p, i) # LevelInside(p, b))
            <=> ~ (b = m /\ p[i].kind \in Ends)
    BY <1>1, <1>2, <1>4, InnermostEnds
  <2>2. Around(p, i + 1) =
           {b \in Around(p, i) : \/ b = TopScope \/ p[i].kind \notin Ends
                                 \/ Level(p, i) # LevelInside(p, b)}
             \cup {b \in {i} : p[i].kind \in Begins}
    BY <1>1, AroundStep
  <2> QED BY ONLY <1>2, <2>1, <2>2 DEF NextAround
<1>6. i \notin Around(p, i) /\ \A c \in Around(p, i) : c \in Nat /\ c < i
  BY <1>1, <1>3
<1> DEFINE Rest == Around(p, i) \ {b \in {m} : p[i].kind \in Ends}
<1>7. Around(p, i + 1) = Rest \cup {b \in {i} : p[i].kind \in Begins}
  BY <1>2, <1>5 DEF NextAround
<1>8. Level(p, i + 1) = Cardinality(Around(p, i + 1)) - 1
  <2>1. IsFiniteSet(Rest) /\ i \notin Rest
    BY <1>3, <1>6, FS_Subset
  <2>2. PICK n : n = Cardinality(Around(p, i))
    OBVIOUS
  <2>3. n \in Nat
    BY <1>3, <2>2, FS_CardinalityType
  <2>4. Cardinality(Rest) = n - (IF p[i].kind \in Ends THEN 1 ELSE 0)
    <3>1. CASE p[i].kind \in Ends
      <4>1. Rest = Around(p, i) \ {m}
        BY <3>1
      <4> QED BY <1>3, <2>2, <3>1, <4>1, FS_RemoveElement
    <3>2. CASE p[i].kind \notin Ends
      <4>1. Rest = Around(p, i)
        BY <3>2
      <4>2. Cardinality(Rest) = n
        BY <2>2, <4>1
      <4> HIDE DEF Rest
      <4> QED BY ONLY <2>3, <3>2, <4>2
    <3> QED BY <3>1, <3>2
  <2>5. Cardinality(Around(p, i + 1)) = Cardinality(Rest) + (IF p[i].kind \in Begins THEN 1 ELSE 0)
    <3> HIDE DEF Rest
    <3>1. CASE p[i].kind \in Begins
      <4>1. Around(p, i + 1) = Rest \cup {i}
        BY <1>7, <3>1
      <4> QED BY <2>1, <3>1, <4>1, FS_AddElement
    <3>2. CASE p[i].kind \notin Begins
      <4>1. Around(p, i + 1) = Rest
        BY <1>7, <3>2
      <4>2. Cardinality(Rest) \in Nat
        BY <2>1, FS_CardinalityType
      <4> QED BY <3>2, <4>1, <4>2
    <3> QED BY <3>1, <3>2
  <2>6. Level(p, i + 1) = Level(p, i) + (IF p[i].kind \in Begins THEN 1 ELSE 0)
                                - (IF p[i].kind \in Ends THEN 1 ELSE 0)
    BY <1>1, LevelStep
  <2>7. Level(p, i) = n - 1
    BY <1>1, <2>2 DEF WellNestedAt
  <2>8. PICK x : x = (IF p[i].kind \in Begins THEN 1 ELSE 0)
    OBVIOUS
  <2>9. PICK y : y = (IF p[i].kind \in Ends THEN 1 ELSE 0)
    OBVIOUS
  <2>10. x \in Int /\ y \in Int
    BY <2>8, <2>9
  <2> QED BY ONLY <2>3, <2>4, <2>5, <2>6, <2>7, <2>8, <2>9, <2>10
<1>9. ASSUME NEW b \in Around(p, i + 1)
      PROVE  Around(p, b + 1) = {c \in Around(p, i + 1) : c <= b}
  <2>1. CASE b = i
    <3>1. \A c \in Around(p, i + 1) : c <= b
      BY <1>1, <1>6, <1>7, <2>1
    <3>2. Around(p, b + 1) = Around(p, i + 1)
      BY <2>1
    <3> QED BY ONLY <3>1, <3>2
  <2>2. CASE b # i
    <3>1. b \in Rest
      BY <1>7, <2>2
    <3>2. b \in Around(p, i) /\ (p[i].kind \in Ends => b # m)
      BY <3>1
    <3>3. Around(p, b + 1) = {c \in Around(p, i) : c <= b}
      BY <1>1, <3>2 DEF WellNestedAt
    <3>4. b \in Nat /\ b < i /\ m \in Nat /\ b <= m
      BY <1>3, <1>6, <3>2
    <3>5. \A c : c \in Around(p, i) /\ c <= b <=> c \in Around(p, i + 1) /\ c <= b
      <4> TAKE c
      <4>1. c \in Around(p, i) /\ c <= b => c \in Around(p, i + 1)
        <5>1. SUFFICES ASSUME c \in Around(p, i), c <= b, p[i].kind \in Ends PROVE c # m
          BY <1>7
        <5> QED BY ONLY <3>2, <3>4, <5>1
      <4>2. c \in Around(p, i + 1) /\ c <= b => c \in Around(p, i)
        <5>1. c = i => ~ (c <= b)
          BY ONLY <1>1, <3>4
        <5> QED BY <1>7, <5>1
      <4> QED BY <4>1, <4>2
    <3> HIDE DEF Rest
    <3> QED BY <3>3, <3>5
  <2> QED BY <2>1, <2>2
<1> QED BY <1>5, <1>8, <1>9 DEF WellNestedAt

(* Every item of a nested program.                                          *)
LEMMA Nesting ==
  ASSUME NEW p, Nested(p)
  PROVE  /\ \A i \in 1..(Len(p) + 1) : WellNestedAt(p, i)
         /\ \A i \in DOMAIN p : Around(p, i + 1) = NextAround(p, i)
<1>1. Len(p) \in Nat /\ DOMAIN p = 1..Len(p)
  BY DEF Nested
<1> DEFINE S == {n \in Nat : n \in 1..(Len(p) + 1) => WellNestedAt(p, n)}
<1>2. ASSUME NEW n \in Nat, \A m \in Nat : m < n => m \in S PROVE n \in S
  <2>1. SUFFICES ASSUME n \in 1..(Len(p) + 1) PROVE WellNestedAt(p, n)
    OBVIOUS
  <2>2. CASE n = 1
    <3>1. Cardinality({TopScope}) = 1
      BY FS_Singleton
    <3>2. WellNestedAt(p, 1)
      <4>1. {c \in {0} : c <= 0} = {0} /\ 0 + 1 = 1
        OBVIOUS
      <4> QED BY <3>1, <4>1, AtTheBeginning DEF WellNestedAt, TopScope
    <3> QED BY <2>2, <3>2
  <2>3. CASE n # 1
    <3>1. PICK i : i = n - 1
      OBVIOUS
    <3>2. i \in DOMAIN p /\ n = i + 1
      BY <1>1, <2>1, <2>3, <3>1
    <3>3. \A k \in 1..i : k \in Nat /\ k < n /\ k \in 1..(Len(p) + 1)
      BY <1>1, <3>2
    <3>4. \A k \in 1..i : WellNestedAt(p, k)
      BY <1>2, <3>3
    <3> QED BY <3>2, <3>4, NestingStep
  <2> QED BY <2>2, <2>3
<1>3. \A n \in Nat : n \in S
  <2> HIDE DEF S
  <2> QED BY <1>2, StrongInduction
<1>4. \A i \in 1..(Len(p) + 1) : WellNestedAt(p, i)
  BY <1>3
<1>5. ASSUME NEW i \in DOMAIN p PROVE Around(p, i + 1) = NextAround(p, i)
  <2>1. \A k \in 1..i : k \in 1..(Len(p) + 1)
    BY <1>1
  <2> QED BY <1>4, <2>1, NestingStep
<1> QED BY <1>4, <1>5

(* What is around an item is a scope; the innermost one is the body of the  *)
(* item.                                                                    *)
LEMMA ScopesAroundAnItem ==
  ASSUME NEW p, Nested(p), NEW i \in 1..(Len(p) + 1)
  PROVE  /\ i \in Nat \ {0}
         /\ Around(p, i) \subseteq ScopesOf(p)
         /\ Body(p, i) \in Around(p, i) /\ Body(p, i) \in ScopesOf(p) /\ Body(p, i) < i
         /\ Around(p, Body(p, i) + 1) = Around(p, i)
<1>1. Len(p) \in Nat /\ DOMAIN p = 1..Len(p) /\ i \in Nat \ {0}
  BY DEF Nested
<1>2. Around(p, i) \subseteq ScopesOf(p)
  <2>1. BegunBefore(p, i) \subseteq {b \in DOMAIN p : p[b].kind \in Begins}
    BY <1>1 DEF BegunBefore
  <2> QED BY <2>1 DEF Around, ScopesOf
<1>3. PICK m : m = Body(p, i)
  OBVIOUS
<1>4. m \in Around(p, i) /\ m \in 0..(i - 1) /\ \A b \in Around(p, i) : b <= m
  BY <1>1, <1>3, BodyFacts
<1>5. Around(p, m + 1) = {c \in Around(p, i) : c <= m}
  BY <1>4, Nesting DEF WellNestedAt
<1>6. Around(p, m + 1) = Around(p, i)
  BY ONLY <1>4, <1>5
<1>7. m < i
  BY <1>1, <1>4
<1> QED BY <1>1, <1>2, <1>3, <1>4, <1>6, <1>7

(* A scope is inside one other scope, and inside all that is around that.   *)
LEMMA ScopeIsNested ==
  ASSUME NEW p, Nested(p), NEW s \in ScopesOf(p)
  PROVE  /\ s \in Nat /\ s + 1 \in 1..(Len(p) + 1)
         /\ s \in Around(p, s + 1) /\ \A c \in Around(p, s + 1) : c <= s
         /\ s # TopScope =>
              /\ ScopeAround(p, s) \in ScopesOf(p) /\ ScopeAround(p, s) < s
              /\ s \notin Around(p, ScopeAround(p, s) + 1)
              /\ Around(p, s + 1) = Around(p, ScopeAround(p, s) + 1) \cup {s}
<1>1. Len(p) \in Nat /\ DOMAIN p = 1..Len(p)
  BY DEF Nested
<1>2. s \in Nat /\ s + 1 \in 1..(Len(p) + 1)
  BY <1>1 DEF ScopesOf, TopScope
<1>3. s \in Around(p, s + 1)
  <2>1. CASE s = TopScope
    BY <2>1, AtTheBeginning DEF TopScope
  <2>2. CASE s # TopScope
    <3>1. s \in DOMAIN p /\ p[s].kind \in Begins
      BY <2>2 DEF ScopesOf
    <3>2. Around(p, s + 1) = NextAround(p, s)
      BY <3>1, Nesting
    <3> QED BY <3>1, <3>2 DEF NextAround
  <2> QED BY <2>1, <2>2
<1>4. Around(p, s + 1) \in SUBSET (0..s) /\ TopScope \in Around(p, s + 1)
  <2>1. s + 1 \in Nat \ {0} /\ (s + 1) - 1 = s
    BY <1>2
  <2>2. Around(p, s + 1) \in SUBSET (0..((s + 1) - 1)) /\ TopScope \in Around(p, s + 1)
    BY <2>1, OpenBodies
  <2> QED BY ONLY <2>1, <2>2
<1>5. ASSUME s # TopScope
      PROVE  /\ ScopeAround(p, s) \in ScopesOf(p) /\ ScopeAround(p, s) < s
             /\ s \notin Around(p, ScopeAround(p, s) + 1)
             /\ Around(p, s + 1) = Around(p, ScopeAround(p, s) + 1) \cup {s}
  <2> DEFINE Rest == Around(p, s + 1) \ {s}
  <2>1. Rest \in SUBSET (0..s) /\ Rest # {}
    BY <1>4, <1>5
  <2>2. PICK q : q = ScopeAround(p, s)
    OBVIOUS
  <2>3. q \in Rest /\ \A c \in Rest : c <= q
    BY <1>2, <2>1, <2>2, GreatestElement DEF ScopeAround
  <2>4. q \in ScopesOf(p)
    BY <1>2, <2>3, ScopesAroundAnItem
  <2>5. q \in Nat /\ q < s
    BY <1>2, <2>1, <2>3
  <2>6. Around(p, q + 1) = {c \in Around(p, s + 1) : c <= q}
    BY <1>2, <2>3, Nesting DEF WellNestedAt
  <2>7. \A c \in Around(p, s + 1) : c <= q <=> c # s
    <3> TAKE c \in Around(p, s + 1)
    <3>1. s <= q => FALSE
      BY ONLY <1>2, <2>5
    <3> QED BY <2>3, <3>1
  <2>8. Around(p, q + 1) = Rest
    BY <2>6, <2>7
  <2>9. Around(p, s + 1) = Around(p, q + 1) \cup {s} /\ s \notin Around(p, q + 1)
    BY <1>3, <2>8
  <2> QED BY ONLY <2>2, <2>4, <2>5, <2>9
<1> QED BY <1>2, <1>3, <1>4, <1>5

(* The functions around an item, and the innermost of them.                 *)
LEMMA FunctionsAroundAnItem ==
  ASSUME NEW p, Nested(p), NEW i \in 1..(Len(p) + 1)
  PROVE  /\ FunctionsAround(p, i) \subseteq Around(p, i) /\ TopScope \in FunctionsAround(p, i)
         /\ FunctionAround(p, i) \in FunctionsAround(p, i)
         /\ FunctionAround(p, i) \in ScopesOf(p) /\ FunctionAround(p, i) < i
         /\ \A f \in FunctionsAround(p, i) : f <= FunctionAround(p, i)
         /\ FunctionsAround(p, FunctionAround(p, i) + 1) = FunctionsAround(p, i)
<1>1. i \in Nat \ {0} /\ i - 1 \in Nat
  OBVIOUS
<1>2. Around(p, i) \in SUBSET (0..(i - 1)) /\ TopScope \in Around(p, i)
  BY <1>1, OpenBodies
<1>3. FunctionsAround(p, i) \subseteq Around(p, i) /\ TopScope \in FunctionsAround(p, i)
  BY <1>2 DEF FunctionsAround, IsFunction
<1>4. PICK m : m = FunctionAround(p, i)
  OBVIOUS
<1>5. m \in FunctionsAround(p, i) /\ \A f \in FunctionsAround(p, i) : f <= m
  <2>1. FunctionsAround(p, i) \in SUBSET (0..(i - 1)) /\ FunctionsAround(p, i) # {}
    BY <1>2, <1>3
  <2>2. m = Max(FunctionsAround(p, i))
    BY <1>4 DEF FunctionAround, FunctionsAround
  <2> QED BY <1>1, <2>1, <2>2, GreatestElement
<1>6. m \in ScopesOf(p) /\ m < i
  BY <1>1, <1>2, <1>3, <1>5, ScopesAroundAnItem
<1>7. Around(p, m + 1) = {c \in Around(p, i) : c <= m}
  BY <1>3, <1>5, Nesting DEF WellNestedAt
<1>8. FunctionsAround(p, m + 1) = FunctionsAround(p, i)
  BY <1>5, <1>7 DEF FunctionsAround
<1> QED BY <1>3, <1>4, <1>5, <1>6, <1>8

(* Items of a body have the functions of the body around them.              *)
LEMMA FunctionsAroundTheBody ==
  ASSUME NEW p, Nested(p), NEW i \in 1..(Len(p) + 1)
  PROVE  FunctionAround(p, i) = FunctionAround(p, Body(p, i) + 1)
BY ScopesAroundAnItem DEF FunctionAround

(* More items change nothing for the earlier ones.                          *)
LEMMA LongerProgram ==
  ASSUME NEW p \in Seq(Items), NEW x \in Items, NEW i \in 1..(Len(p) + 1)
  PROVE  LET q == Append(p, x)
         IN /\ Around(q, i) = Around(p, i) /\ Body(q, i) = Body(p, i)
            /\ Level(q, i) = Level(p, i)
            /\ FunctionAround(q, i) = FunctionAround(p, i)
            /\ FunctionsAround(q, i) = FunctionsAround(p, i)
<1> DEFINE q == Append(p, x)
<1>1. Len(p) \in Nat /\ \A j \in 1..Len(p) : q[j] = p[j]
  OBVIOUS
<1> HIDE DEF q
<1>2. ASSUME NEW k \in 1..(Len(p) + 1)
      PROVE  /\ BegunBefore(q, k) = BegunBefore(p, k) /\ EndedBefore(q, k) = EndedBefore(p, k)
             /\ Level(q, k) = Level(p, k)
  <2>1. \A j \in 1..(k - 1) : q[j] = p[j]
    BY <1>1
  <2>2. BegunBefore(q, k) = BegunBefore(p, k) /\ EndedBefore(q, k) = EndedBefore(p, k)
    BY <2>1 DEF BegunBefore, EndedBefore
  <2> QED BY <2>2 DEF Level
<1>3. BegunBefore(p, i) \in SUBSET (1..(i - 1)) /\ EndedBefore(p, i) \in SUBSET (1..(i - 1))
  BY OpenBodies
<1>4. \A b \in BegunBefore(p, i), j \in EndedBefore(p, i) :
        Level(q, j) # LevelInside(q, b) <=> Level(p, j) # LevelInside(p, b)
  <2> TAKE b \in BegunBefore(p, i), j \in EndedBefore(p, i)
  <2>1. b + 1 \in 1..(Len(p) + 1) /\ j \in 1..(Len(p) + 1)
    BY <1>1, <1>3
  <2> QED BY <1>2, <2>1 DEF LevelInside
<1>5. Around(q, i) = Around(p, i)
  <2>1. BegunBefore(q, i) = BegunBefore(p, i) /\ EndedBefore(q, i) = EndedBefore(p, i)
    BY <1>2
  <2> DEFINE Open(r, b) == \A j \in EndedBefore(p, i) : b < j => Level(r, j) # LevelInside(r, b)
  <2>2. \A b \in BegunBefore(p, i) : Open(q, b) <=> Open(p, b)
    BY <1>4
  <2>3. /\ Around(q, i) = {TopScope} \cup {b \in BegunBefore(p, i) : Open(q, b)}
        /\ Around(p, i) = {TopScope} \cup {b \in BegunBefore(p, i) : Open(p, b)}
    BY <2>1 DEF Around
  <2> HIDE DEF Open
  <2> QED BY ONLY <2>2, <2>3
<1>6. Around(p, i) \in SUBSET (0..(i - 1))
  BY OpenBodies
<1>7. \A b \in Around(p, i) : IsFunction(q, b) <=> IsFunction(p, b)
  BY <1>1, <1>6 DEF IsFunction, TopScope
<1>8. FunctionsAround(q, i) = FunctionsAround(p, i)
  BY <1>5, <1>7 DEF FunctionsAround
<1>9. FunctionAround(q, i) = FunctionAround(p, i)
  <2>1. FunctionAround(q, i) = Max(FunctionsAround(q, i)) /\ FunctionAround(p, i) = Max(FunctionsAround(p, i))
    BY DEF FunctionAround, FunctionsAround
  <2> QED BY <1>8, <2>1
<1> QED BY <1>2, <1>5, <1>8, <1>9 DEF Body, q

-----------------------------------------------------------------------------
(* The stacks of the analyser.                                              *)

(* The innermost scope is first.                                            *)
LEMMA FirstIsGreatest ==
  ASSUME NEW S, NEW sequence, Descending(sequence, S), S # {}
  PROVE  /\ Len(sequence) \in Nat \ {0} /\ DOMAIN sequence = 1..Len(sequence)
         /\ S \subseteq Nat
         /\ Head(sequence) = sequence[1] /\ Head(sequence) \in S
         /\ \A x \in S : x <= Head(sequence)
         /\ Max(S) = Head(sequence)
<1>1. sequence \in Seq(Nat) /\ ToSet(sequence) = S
  BY DEF Descending
<1>2. Len(sequence) \in Nat /\ DOMAIN sequence = 1..Len(sequence) /\ \A k \in DOMAIN sequence : sequence[k] \in Nat
  BY <1>1
<1>3. S = {sequence[k] : k \in DOMAIN sequence}
  BY <1>1 DEF ToSet
<1>4. Len(sequence) # 0
  <2>1. PICK k \in DOMAIN sequence : TRUE
    BY <1>3
  <2> QED BY <1>2, <2>1
<1>5. 1 \in DOMAIN sequence /\ Head(sequence) = sequence[1]
  <2>1. 1 \in DOMAIN sequence
    BY <1>2, <1>4
  <2>2. Head(sequence) = sequence[1]
    BY <1>1, <1>4
  <2> QED BY <2>1, <2>2
<1>6. \A k \in DOMAIN sequence : sequence[k] <= sequence[1]
  <2> TAKE k \in DOMAIN sequence
  <2>1. k = 1 \/ 1 < k
    BY <1>2
  <2>2. 1 < k => sequence[k] < sequence[1]
    BY <1>5 DEF Descending
  <2>3. sequence[k] \in Nat /\ sequence[1] \in Nat
    BY <1>2, <1>5
  <2> QED BY ONLY <2>1, <2>2, <2>3
<1>7. S \subseteq Nat
  BY ONLY <1>2, <1>3
<1>8. Head(sequence) \in S /\ \A x \in S : x <= Head(sequence)
  BY <1>3, <1>5, <1>6
<1>9. S \in SUBSET Int
  BY <1>7
<1>10. Max(S) = Head(sequence)
  BY <1>8, <1>9, GreatestIs
<1> QED BY <1>2, <1>4, <1>5, <1>7, <1>8, <1>10

(* A scope is pushed.                                                       *)
LEMMA PushDescending ==
  ASSUME NEW S, NEW sequence, Descending(sequence, S), NEW i \in Nat, \A x \in S : x < i
  PROVE  Descending(<<i>> \o sequence, S \cup {i})
<1> DEFINE pushed == <<i>> \o sequence
<1>1. sequence \in Seq(Nat) /\ S = {sequence[k] : k \in DOMAIN sequence}
  BY DEF Descending, ToSet
<1>2. Len(sequence) \in Nat /\ DOMAIN sequence = 1..Len(sequence)
  BY <1>1
<1>3. /\ pushed \in Seq(Nat) /\ DOMAIN pushed = 1..(Len(sequence) + 1) /\ pushed[1] = i
      /\ \A k \in 2..(Len(sequence) + 1) : k - 1 \in DOMAIN sequence /\ pushed[k] = sequence[k - 1]
  BY <1>1, ElementPrepended
<1> HIDE DEF pushed
<1>4. {pushed[k] : k \in DOMAIN pushed} = S \cup {i}
  <2>1. \A k \in DOMAIN pushed : pushed[k] \in S \cup {i}
    <3> TAKE k \in DOMAIN pushed
    <3>1. k = 1 \/ k \in 2..(Len(sequence) + 1)
      BY <1>2, <1>3
    <3> QED BY <1>1, <1>3, <3>1
  <2>2. \A x \in S \cup {i} : \E k \in DOMAIN pushed : pushed[k] = x
    <3> TAKE x \in S \cup {i}
    <3>1. CASE x = i
      <4>1. 1 \in DOMAIN pushed
        BY <1>2, <1>3
      <4> QED BY <1>3, <3>1, <4>1
    <3>2. CASE x \in S
      <4>1. PICK j \in DOMAIN sequence : sequence[j] = x
        BY <1>1, <3>2
      <4>2. j + 1 \in 2..(Len(sequence) + 1) /\ (j + 1) - 1 = j
        BY <1>2, <4>1
      <4>3. j + 1 \in DOMAIN pushed /\ pushed[j + 1] = x
        BY <1>2, <1>3, <4>1, <4>2
      <4> QED BY <4>3
    <3> QED BY <3>1, <3>2
  <2> QED BY <2>1, <2>2
<1>5. ASSUME NEW j \in DOMAIN pushed, NEW k \in DOMAIN pushed, j < k PROVE pushed[k] < pushed[j]
  <2>1. k \in 2..(Len(sequence) + 1) /\ (j = 1 \/ j \in 2..(Len(sequence) + 1))
    BY <1>2, <1>3, <1>5
  <2>2. k - 1 \in DOMAIN sequence /\ pushed[k] = sequence[k - 1]
    BY <1>3, <2>1
  <2>3. CASE j = 1
    BY <1>1, <1>3, <2>2, <2>3
  <2>4. CASE j \in 2..(Len(sequence) + 1)
    <3>1. j - 1 \in DOMAIN sequence /\ pushed[j] = sequence[j - 1]
      BY <1>3, <2>4
    <3>2. j - 1 < k - 1
      BY <1>5, <2>1, <2>4
    <3> QED BY <2>2, <3>1, <3>2 DEF Descending
  <2> QED BY <2>1, <2>3, <2>4
<1>6. Descending(pushed, S \cup {i})
  BY <1>3, <1>4, <1>5 DEF Descending, ToSet
<1> QED BY <1>6 DEF pushed

(* A scope is popped; the next one is the greatest of the others.           *)
LEMMA PopDescending ==
  ASSUME NEW S, NEW sequence, Descending(sequence, S), S # {}
  PROVE  /\ Descending(Tail(sequence), S \ {Head(sequence)})
         /\ S \ {Head(sequence)} # {} =>
              /\ Len(sequence) >= 2
              /\ sequence[2] = Head(Tail(sequence)) /\ sequence[2] = Max(S \ {Head(sequence)})
<1> DEFINE popped == Tail(sequence)
<1>1. sequence \in Seq(Nat) /\ S = {sequence[k] : k \in DOMAIN sequence}
  BY DEF Descending, ToSet
<1>2. /\ Len(sequence) \in Nat \ {0} /\ DOMAIN sequence = 1..Len(sequence)
      /\ Head(sequence) = sequence[1]
  BY FirstIsGreatest
<1>3. /\ popped \in Seq(Nat) /\ DOMAIN popped = 1..(Len(sequence) - 1)
      /\ \A k \in 1..(Len(sequence) - 1) : k + 1 \in DOMAIN sequence /\ popped[k] = sequence[k + 1]
  <2>1. Len(sequence) > 0
    BY <1>2
  <2> QED BY <1>1, <2>1, ElementTaken
<1> HIDE DEF popped
<1>4. \A k \in DOMAIN sequence : k # 1 => sequence[k] # sequence[1]
  <2> TAKE k \in DOMAIN sequence
  <2>1. SUFFICES ASSUME k # 1 PROVE sequence[k] # sequence[1]
    OBVIOUS
  <2>2. 1 \in DOMAIN sequence /\ 1 < k
    BY <1>2, <2>1
  <2>3. sequence[k] < sequence[1]
    BY <2>2 DEF Descending
  <2>4. sequence[k] \in Nat
    BY <1>1
  <2> QED BY ONLY <2>3, <2>4
<1>5. {popped[k] : k \in DOMAIN popped} = S \ {sequence[1]}
  <2>1. \A k \in DOMAIN popped : popped[k] \in S \ {sequence[1]}
    <3> TAKE k \in DOMAIN popped
    <3>1. k + 1 \in DOMAIN sequence /\ k + 1 # 1 /\ popped[k] = sequence[k + 1]
      BY <1>2, <1>3
    <3> QED BY <1>1, <1>4, <3>1
  <2>2. \A x \in S \ {sequence[1]} : \E k \in DOMAIN popped : popped[k] = x
    <3> TAKE x \in S \ {sequence[1]}
    <3>1. PICK j \in DOMAIN sequence : sequence[j] = x
      BY <1>1
    <3>2. j # 1
      BY <3>1
    <3>3. j - 1 \in 1..(Len(sequence) - 1) /\ (j - 1) + 1 = j
      BY <1>2, <3>2
    <3> QED BY <1>3, <3>1, <3>3
  <2> QED BY <2>1, <2>2
<1>6. ASSUME NEW j \in DOMAIN popped, NEW k \in DOMAIN popped, j < k PROVE popped[k] < popped[j]
  <2>1. /\ j + 1 \in DOMAIN sequence /\ k + 1 \in DOMAIN sequence /\ j + 1 < k + 1
        /\ popped[j] = sequence[j + 1] /\ popped[k] = sequence[k + 1]
    BY <1>2, <1>3, <1>6
  <2> QED BY <2>1 DEF Descending
<1>7. Descending(popped, S \ {Head(sequence)})
  BY <1>2, <1>3, <1>5, <1>6 DEF Descending, ToSet
<1>8. ASSUME S \ {Head(sequence)} # {}
      PROVE  Len(sequence) >= 2 /\ sequence[2] = Head(popped) /\ sequence[2] = Max(S \ {Head(sequence)})
  <2>1. /\ Len(popped) \in Nat \ {0} /\ DOMAIN popped = 1..Len(popped)
        /\ Head(popped) = popped[1] /\ Max(S \ {Head(sequence)}) = Head(popped)
    BY <1>7, <1>8, FirstIsGreatest
  <2>2. 1 \in DOMAIN popped
    BY <2>1
  <2>3. 1 \in 1..(Len(sequence) - 1)
    BY <1>3, <2>2
  <2>4. popped[1] = sequence[1 + 1]
    BY <1>3, <2>3
  <2>5. Len(sequence) >= 2
    BY <1>2, <2>3
  <2> QED BY <2>1, <2>4, <2>5
<1> QED BY <1>7, <1>8 DEF popped

(* The first scope of some kind is the greatest of the kind.                *)
LEMMA FirstOfKindIsGreatest ==
  ASSUME NEW S, NEW sequence, Descending(sequence, S), NEW F \in SUBSET S, F # {}
  PROVE  sequence[Min({k \in DOMAIN sequence : sequence[k] \in F})] = Max(F)
<1>1. sequence \in Seq(Nat) /\ S = {sequence[k] : k \in DOMAIN sequence}
  BY DEF Descending, ToSet
<1>2. DOMAIN sequence \subseteq Nat /\ \A k \in DOMAIN sequence : sequence[k] \in Nat
  BY <1>1
<1> DEFINE K == {k \in DOMAIN sequence : sequence[k] \in F}
<1>3. K \in SUBSET Nat /\ K # {}
  <2>1. PICK x \in F : TRUE
    OBVIOUS
  <2>2. PICK k \in DOMAIN sequence : sequence[k] = x
    BY <1>1, <2>1
  <2>3. k \in K
    BY <2>2
  <2> QED BY <1>2, <2>3
<1>4. PICK k \in K : \A j \in K : k <= j
  <2> HIDE DEF K
  <2> QED BY <1>3, LeastElement
<1>5. Min(K) = k
  <2>1. K \in SUBSET Int
    BY <1>3
  <2> HIDE DEF K
  <2> QED BY <1>4, <2>1, LeastIs
<1>6. k \in DOMAIN sequence /\ sequence[k] \in F
  OBVIOUS
<1>7. \A x \in F : x <= sequence[k]
  <2> TAKE x \in F
  <2>1. PICK j \in DOMAIN sequence : sequence[j] = x
    BY <1>1
  <2>2. j \in K
    BY <2>1
  <2>3. k <= j /\ k \in Nat /\ j \in Nat
    BY <1>2, <1>4, <1>6, <2>1, <2>2
  <2>4. k = j \/ k < j
    BY ONLY <2>3
  <2>5. k < j => sequence[j] < sequence[k]
    BY <1>6 DEF Descending
  <2>6. sequence[j] \in Nat /\ sequence[k] \in Nat
    BY <1>2, <1>6
  <2> QED BY ONLY <2>1, <2>4, <2>5, <2>6
<1>8. Max(F) = sequence[k]
  <2>1. F \in SUBSET Int
    BY <1>1, <1>2
  <2> QED BY <1>6, <1>7, <2>1, GreatestIs
<1> QED BY <1>5, <1>8

(* The innermost function is last on its stack.                             *)
LEMMA LastIsGreatest ==
  ASSUME NEW S, NEW sequence, Ascending(sequence, S), S # {}
  PROVE  /\ Len(sequence) \in Nat \ {0} /\ DOMAIN sequence = 1..Len(sequence)
         /\ S \subseteq Nat /\ Last(sequence) \in S
         /\ Last(sequence) = Max(S) /\ \A x \in S : x <= Last(sequence)
<1>1. sequence \in Seq(Nat) /\ S = {sequence[k] : k \in DOMAIN sequence}
  BY DEF Ascending, ToSet
<1>2. Len(sequence) \in Nat /\ DOMAIN sequence = 1..Len(sequence) /\ \A k \in DOMAIN sequence : sequence[k] \in Nat
  BY <1>1
<1>3. PICK n : n = Len(sequence)
  OBVIOUS
<1>4. n # 0 /\ n \in DOMAIN sequence
  <2>1. PICK k \in DOMAIN sequence : TRUE
    BY <1>1
  <2> QED BY <1>2, <1>3, <2>1
<1>5. \A k \in DOMAIN sequence : sequence[k] <= sequence[n]
  <2> TAKE k \in DOMAIN sequence
  <2>1. k = n \/ k < n
    BY <1>2, <1>3
  <2>2. k < n => sequence[k] < sequence[n]
    BY <1>4 DEF Ascending
  <2>3. sequence[k] \in Nat /\ sequence[n] \in Nat
    BY <1>2, <1>4
  <2> QED BY ONLY <2>1, <2>2, <2>3
<1>6. S \in SUBSET Int /\ S \subseteq Nat
  BY <1>1, <1>2
<1>7. Last(sequence) = sequence[n]
  BY <1>3 DEF Last
<1>8. sequence[n] \in S /\ \A x \in S : x <= sequence[n]
  BY <1>1, <1>4, <1>5
<1>9. Max(S) = sequence[n]
  BY <1>6, <1>8, GreatestIs
<1> QED BY <1>2, <1>3, <1>4, <1>6, <1>7, <1>8, <1>9

(* A function is entered.                                                   *)
LEMMA PushAscending ==
  ASSUME NEW S, NEW sequence, Ascending(sequence, S), NEW i \in Nat, \A x \in S : x < i
  PROVE  Ascending(Append(sequence, i), S \cup {i})
<1> DEFINE pushed == Append(sequence, i)
<1>1. sequence \in Seq(Nat) /\ S = {sequence[k] : k \in DOMAIN sequence}
  BY DEF Ascending, ToSet
<1>2. Len(sequence) \in Nat /\ DOMAIN sequence = 1..Len(sequence)
  BY <1>1
<1>3. /\ pushed \in Seq(Nat) /\ DOMAIN pushed = DOMAIN sequence \cup {Len(sequence) + 1}
      /\ pushed[Len(sequence) + 1] = i
      /\ \A k \in DOMAIN sequence : pushed[k] = sequence[k]
  BY <1>1, ElementAppended
<1> HIDE DEF pushed
<1>4. {pushed[k] : k \in DOMAIN pushed} = S \cup {i}
  BY <1>1, <1>3
<1>5. ASSUME NEW j \in DOMAIN pushed, NEW k \in DOMAIN pushed, j < k PROVE pushed[j] < pushed[k]
  <2>1. j \in DOMAIN sequence
    BY <1>2, <1>3, <1>5
  <2>2. CASE k \in DOMAIN sequence
    BY <1>3, <1>5, <2>1, <2>2 DEF Ascending
  <2>3. CASE k = Len(sequence) + 1
    BY <1>1, <1>3, <2>1, <2>3
  <2> QED BY <1>3, <2>2, <2>3
<1>6. Ascending(pushed, S \cup {i})
  BY <1>3, <1>4, <1>5 DEF Ascending, ToSet
<1> QED BY <1>6 DEF pushed

(* A function is left.                                                      *)
LEMMA PopAscending ==
  ASSUME NEW S, NEW sequence, Ascending(sequence, S), S # {}
  PROVE  Ascending(Front(sequence), S \ {Last(sequence)})
<1> DEFINE popped == Front(sequence)
<1>1. sequence \in Seq(Nat) /\ S = {sequence[k] : k \in DOMAIN sequence}
  BY DEF Ascending, ToSet
<1>2. PICK n : n = Len(sequence)
  OBVIOUS
<1>3. n \in Nat \ {0} /\ DOMAIN sequence = 1..n
  BY <1>2, LastIsGreatest
<1>4. /\ popped \in Seq(Nat) /\ DOMAIN popped = 1..(n - 1)
      /\ \A k \in 1..(n - 1) : popped[k] = sequence[k]
  <2>1. popped = SubSeq(sequence, 1, n - 1)
    BY <1>2 DEF Front
  <2> HIDE DEF popped
  <2> QED BY ONLY <1>1, <1>2, <1>3, <2>1
<1> HIDE DEF popped
<1>5. Last(sequence) = sequence[n]
  BY <1>2 DEF Last
<1>6. \A k \in 1..(n - 1) : k \in DOMAIN sequence /\ sequence[k] # sequence[n]
  <2> TAKE k \in 1..(n - 1)
  <2>1. k \in DOMAIN sequence /\ n \in DOMAIN sequence /\ k < n
    BY <1>3
  <2>2. sequence[k] < sequence[n]
    BY <2>1 DEF Ascending
  <2>3. sequence[k] \in Nat
    BY <1>1, <2>1
  <2> QED BY <2>1, <2>2, <2>3
<1>7. {popped[k] : k \in DOMAIN popped} = S \ {sequence[n]}
  <2>1. \A k \in DOMAIN popped : popped[k] \in S \ {sequence[n]}
    BY <1>1, <1>4, <1>6
  <2>2. \A x \in S \ {sequence[n]} : \E k \in DOMAIN popped : popped[k] = x
    <3> TAKE x \in S \ {sequence[n]}
    <3>1. PICK j \in DOMAIN sequence : sequence[j] = x
      BY <1>1
    <3>2. j # n
      BY <3>1
    <3>3. j \in 1..(n - 1)
      BY <1>3, <3>2
    <3> QED BY <1>4, <3>1, <3>3
  <2> QED BY <2>1, <2>2
<1>8. ASSUME NEW j \in DOMAIN popped, NEW k \in DOMAIN popped, j < k PROVE popped[j] < popped[k]
  BY <1>4, <1>6, <1>8 DEF Ascending
<1>9. Ascending(popped, S \ {Last(sequence)})
  BY <1>4, <1>5, <1>7, <1>8 DEF Ascending, ToSet
<1> QED BY <1>9 DEF popped

-----------------------------------------------------------------------------
(* The Variables of a scope and the declarations in its body.               *)

(* The items of a program.                                                  *)
LEMMA ItemFacts ==
  ASSUME NEW p \in Seq(Items), NEW i \in DOMAIN p
  PROVE  /\ i \in Nat \ {0} /\ Len(p) \in Nat /\ DOMAIN p = 1..Len(p) /\ i + 1 \in 1..(Len(p) + 1)
         /\ i \in 1..(Len(p) + 1)
         /\ p[i].kind \in {"use", "let", "function", "if", "while", "else", "end"}
         /\ p[i].kind \in {"use", "let", "function"} => p[i].name \in Names
         /\ p[i].kind = "function" => p[i].parameters \in Seq(Names)
         /\ p[i].kind # "function" => p[i].parameters = <<>>
<1>1. p[i] \in Items
  OBVIOUS
<1>2. p[i].kind = "function" => p[i].parameters \in ParameterLists
  BY <1>1 DEF Items
<1> QED BY <1>1, <1>2, ScopeAssumption DEF Items

(* The parameters of a scope: none, but for functions.                      *)
LEMMA ParameterFacts ==
  ASSUME NEW p, Nested(p), NEW s \in ScopesOf(p)
  PROVE  /\ ParametersOf(p, s) \in Seq(Names)
         /\ ParametersOf(p, s) # <<>> =>
              /\ s \in DOMAIN p /\ s # TopScope /\ p[s].kind = "function" /\ ParametersOf(p, s) = p[s].parameters
              /\ FunctionAround(p, s + 1) = s
<1>1. CASE s = TopScope
  BY <1>1 DEF ParametersOf
<1>2. CASE s # TopScope
  <2>1. s \in DOMAIN p
    BY <1>2 DEF ScopesOf
  <2>2. p \in Seq(Items)
    BY DEF Nested
  <2>3. /\ p[s].kind = "function" => p[s].parameters \in Seq(Names)
        /\ p[s].kind # "function" => p[s].parameters = <<>>
    BY <2>1, <2>2, ItemFacts
  <2>4. ParametersOf(p, s) = p[s].parameters
    BY <1>2 DEF ParametersOf
  <2>5. ASSUME p[s].kind = "function" PROVE FunctionAround(p, s + 1) = s
    <3>1. /\ s + 1 \in 1..(Len(p) + 1) /\ s \in Around(p, s + 1) /\ s \in Nat
          /\ \A c \in Around(p, s + 1) : c <= s
      BY ScopeIsNested
    <3>2. s \in FunctionsAround(p, s + 1)
      BY <2>5, <3>1 DEF FunctionsAround, IsFunction
    <3>3. /\ FunctionAround(p, s + 1) \in Around(p, s + 1) /\ s <= FunctionAround(p, s + 1)
          /\ FunctionAround(p, s + 1) \in ScopesOf(p)
      BY <3>1, <3>2, FunctionsAroundAnItem
    <3>4. FunctionAround(p, s + 1) \in Nat /\ FunctionAround(p, s + 1) <= s
      BY <3>1, <3>3, ScopeIsNested
    <3> QED BY ONLY <3>1, <3>3, <3>4
  <2>6. <<>> \in Seq(Names)
    OBVIOUS
  <2> QED BY <1>2, <2>1, <2>3, <2>4, <2>5, <2>6
<1> QED BY <1>1, <1>2

(* The parameters of the functions before item n differ.                    *)
ParametersDifferBefore(p, n) ==
  \A i \in DOMAIN p : i < n /\ p[i].kind = "function" => IsInjective(p[i].parameters)

(* The negatives of finitely many numbers.                                  *)
LEMMA NegativesAreFinite ==
  ASSUME NEW K, IsFiniteSet(K)
  PROVE  IsFiniteSet({-k : k \in K})
<1> DEFINE T == {-k : k \in K}
           f == [k \in K |-> -k]
<1>1. f \in [K -> T] /\ \A t \in T : \E k \in K : f[k] = t
  OBVIOUS
<1>2. f \in Surjection(K, T)
  <2> HIDE DEF f, T
  <2> QED BY <1>1 DEF Surjection
<1> HIDE DEF f
<1> QED BY <1>2, FS_Surjection

(* The kinds of Variables of a scope.                                       *)
IsBuiltinOf(v, s) ==
  s = TopScope /\ v.name \in Builtins /\ v.item = 0 /\ v.allocation = TopScope /\ ~v.isParameter
IsDeclaredAt(p, v, s) ==
  /\ v.item \in DOMAIN p /\ Body(p, v.item) = s /\ v.name = p[v.item].name
  /\ v.allocation = FunctionAround(p, v.item) /\ ~v.isParameter
IsParameterOf(p, v, s, k) ==
  /\ k \in DOMAIN ParametersOf(p, s) /\ v.name = ParametersOf(p, s)[k]
  /\ v.item = s /\ v.allocation = s /\ v.isParameter

(* A Variable is one of them.                                               *)
LEMMA VariableKinds ==
  ASSUME NEW p, NEW n, NEW s, NEW v \in DeclaredVariables(p, n, s)
  PROVE  \/ v.type = "builtin_function" /\ IsBuiltinOf(v, s)
         \/ v.type = "user_function" /\ IsDeclaredAt(p, v, s) /\ p[v.item].kind = "function"
         \/ v.type = "variable" /\ IsDeclaredAt(p, v, s) /\ p[v.item].kind = "let" /\ v.item < n
         \/ v.type = "variable" /\ s < n /\ \E k : IsParameterOf(p, v, s, k)
<1>1. CASE v \in BuiltinsOf(s)
  <2>1. PICK name \in Builtins : s = TopScope /\ v = NewVariable(0, name, "builtin_function", TopScope, FALSE)
    BY <1>1 DEF BuiltinsOf
  <2> QED BY <2>1 DEF NewVariable, IsBuiltinOf
<1>2. CASE v \in FunctionsOf(p, s)
  <2>1. PICK j \in DOMAIN p :
          /\ p[j].kind = "function" /\ Body(p, j) = s
          /\ v = NewVariable(j, p[j].name, "user_function", FunctionAround(p, j), FALSE)
    BY <1>2 DEF FunctionsOf
  <2> QED BY <2>1 DEF NewVariable, IsDeclaredAt
<1>3. CASE v \in LetsOf(p, n, s)
  <2>1. PICK j \in DOMAIN p :
          /\ j < n /\ p[j].kind = "let" /\ Body(p, j) = s
          /\ v = NewVariable(j, p[j].name, "variable", FunctionAround(p, j), FALSE)
    BY <1>3 DEF LetsOf
  <2> QED BY <2>1 DEF NewVariable, IsDeclaredAt
<1>4. CASE v \in ParameterVariables(p, n, s)
  <2>1. PICK k \in DOMAIN ParametersOf(p, s) :
          s < n /\ v = NewVariable(s, ParametersOf(p, s)[k], "variable", s, TRUE)
    BY <1>4 DEF ParameterVariables
  <2>2. IsParameterOf(p, v, s, k)
    BY <2>1 DEF NewVariable, IsParameterOf
  <2> QED BY <2>1, <2>2 DEF NewVariable
<1> QED BY <1>1, <1>2, <1>3, <1>4 DEF DeclaredVariables

(* What it declares.                                                        *)
LEMMA VariableIsDeclared ==
  ASSUME NEW p, Nested(p), NEW n, ParametersDifferBefore(p, n),
         NEW s \in ScopesOf(p), NEW v \in DeclaredVariables(p, n, s)
  PROVE  /\ v.allocation = FunctionAround(p, s + 1)
         /\ DeclaredIn(p, v) = s
         /\ DeclarationOf(p, v) \in DeclarationsIn(p, s, v.name)
         /\ \/ DeclarationOf(p, v) \in DOMAIN p /\ p[DeclarationOf(p, v)].kind = "function"
            \/ DeclarationOf(p, v) \in DOMAIN p /\ p[DeclarationOf(p, v)].kind = "let" /\ DeclarationOf(p, v) < n
            \/ DeclarationOf(p, v) = 0
            \/ s < n /\ \E k \in Nat \ {0} : DeclarationOf(p, v) = -k
<1>0. p \in Seq(Items)
  BY DEF Nested
<1>1. CASE IsBuiltinOf(v, s)
  <2>1. DeclaredIn(p, v) = s /\ DeclarationOf(p, v) = 0
    BY <1>1 DEF IsBuiltinOf, DeclaredIn, DeclarationOf
  <2>2. FunctionAround(p, s + 1) = TopScope
    <3>1. s + 1 = 1 /\ 1 \in 1..(Len(p) + 1)
      BY <1>0, <1>1 DEF IsBuiltinOf, TopScope
    <3>2. FunctionAround(p, s + 1) \in Around(p, 1)
      BY <3>1, FunctionsAroundAnItem
    <3> QED BY <3>2, AtTheBeginning
  <2>3. 0 \in DeclarationsIn(p, s, v.name)
    BY <1>1 DEF IsBuiltinOf, DeclarationsIn
  <2> QED BY <1>1, <2>1, <2>2, <2>3 DEF IsBuiltinOf
<1>2. ASSUME IsDeclaredAt(p, v, s), p[v.item].kind \in {"let", "function"}
      PROVE  /\ v.allocation = FunctionAround(p, s + 1)
             /\ DeclaredIn(p, v) = s /\ DeclarationOf(p, v) = v.item /\ v.item \in DOMAIN p
             /\ v.item \in DeclarationsIn(p, s, v.name)
  <2>1. v.item \in DOMAIN p /\ v.item # 0 /\ v.item \in 1..(Len(p) + 1)
    BY <1>0, <1>2, ItemFacts DEF IsDeclaredAt
  <2>2. DeclaredIn(p, v) = s /\ DeclarationOf(p, v) = v.item
    BY <1>2, <2>1 DEF IsDeclaredAt, DeclaredIn, DeclarationOf
  <2>3. FunctionAround(p, v.item) = FunctionAround(p, s + 1)
    BY <1>2, <2>1, FunctionsAroundTheBody DEF IsDeclaredAt
  <2>4. v.item \in DeclarationsIn(p, s, v.name)
    BY <1>2, <2>1 DEF IsDeclaredAt, DeclarationsIn
  <2> QED BY <1>2, <2>1, <2>2, <2>3, <2>4 DEF IsDeclaredAt
<1>3. ASSUME s < n, NEW k, IsParameterOf(p, v, s, k)
      PROVE  /\ v.allocation = FunctionAround(p, s + 1)
             /\ DeclaredIn(p, v) = s /\ k \in Nat \ {0} /\ DeclarationOf(p, v) = -k
             /\ -k \in DeclarationsIn(p, s, v.name)
  <2>1. k \in DOMAIN ParametersOf(p, s) /\ ParametersOf(p, s) \in Seq(Names)
    BY <1>3, ParameterFacts DEF IsParameterOf
  <2>2. k \in Nat \ {0} /\ ParametersOf(p, s) # <<>>
    BY <2>1
  <2>3. /\ s \in DOMAIN p /\ s # TopScope /\ p[s].kind = "function" /\ ParametersOf(p, s) = p[s].parameters
        /\ FunctionAround(p, s + 1) = s
    BY <2>2, ParameterFacts
  <2>4. IsInjective(p[s].parameters)
    BY <1>3, <2>3 DEF ParametersDifferBefore
  <2>5. IndexIn(p[s].parameters, v.name) = k
    BY <1>3, <2>1, <2>3, <2>4 DEF IsParameterOf, IndexIn, IsInjective
  <2>6. DeclarationOf(p, v) = -k /\ DeclaredIn(p, v) = s
    BY <1>3, <2>5 DEF IsParameterOf, DeclarationOf, DeclaredIn
  <2>7. -k \in DeclarationsIn(p, s, v.name)
    BY <1>3, <2>1 DEF IsParameterOf, DeclarationsIn
  <2> QED BY <1>3, <2>2, <2>3, <2>6, <2>7 DEF IsParameterOf
<1> QED BY <1>1, <1>2, <1>3, VariableKinds

(* A declaration that has been reached has a Variable.                      *)
LEMMA DeclarationHasVariable ==
  ASSUME NEW p, Nested(p), NEW n, ParametersDifferBefore(p, n),
         NEW s \in ScopesOf(p), NEW name, NEW j \in DeclarationsIn(p, s, name),
         \/ j \in DOMAIN p /\ (p[j].kind = "function" \/ j < n)
         \/ j = 0
         \/ j \notin DOMAIN p /\ s < n
  PROVE  \E v \in DeclaredVariables(p, n, s) : v.name = name /\ DeclarationOf(p, v) = j
<1>0. p \in Seq(Items) /\ \A k \in DOMAIN ParametersOf(p, s) : k \in Nat \ {0}
  BY ParameterFacts DEF Nested
<1>1. CASE j \in DOMAIN p
  <2>0. j \in Nat \ {0}
    BY <1>0, <1>1, ItemFacts
  <2>1. p[j].kind \in {"let", "function"} /\ p[j].name = name /\ Body(p, j) = s
    <3>1. \A k \in DOMAIN ParametersOf(p, s) : j # -k
      BY <1>0, <2>0
    <3> QED BY <2>0, <3>1 DEF DeclarationsIn
  <2>2. p[j].kind = "function" \/ j < n
    BY <1>1, <2>0
  <2>3. CASE p[j].kind = "function"
    <3>1. PICK v : v = NewVariable(j, p[j].name, "user_function", FunctionAround(p, j), FALSE)
      OBVIOUS
    <3>2. v \in DeclaredVariables(p, n, s)
      BY <1>1, <2>1, <2>3, <3>1 DEF DeclaredVariables, FunctionsOf
    <3> QED BY <2>1, <3>1, <3>2 DEF NewVariable, DeclarationOf
  <2>4. CASE p[j].kind = "let" /\ j < n
    <3>1. PICK v : v = NewVariable(j, p[j].name, "variable", FunctionAround(p, j), FALSE)
      OBVIOUS
    <3>2. v \in DeclaredVariables(p, n, s)
      BY <1>1, <2>1, <2>4, <3>1 DEF DeclaredVariables, LetsOf
    <3> QED BY <2>1, <3>1, <3>2 DEF NewVariable, DeclarationOf
  <2> QED BY <2>1, <2>2, <2>3, <2>4
<1>2. CASE j = 0
  <2>1. s = TopScope /\ name \in Builtins
    <3>1. j \notin DOMAIN p
      BY <1>0, <1>2
    <3>2. \A k \in DOMAIN ParametersOf(p, s) : j # -k
      BY <1>0, <1>2
    <3> QED BY <3>1, <3>2 DEF DeclarationsIn
  <2>2. PICK v : v = NewVariable(0, name, "builtin_function", TopScope, FALSE)
    OBVIOUS
  <2>3. v \in DeclaredVariables(p, n, s)
    BY <2>1, <2>2 DEF DeclaredVariables, BuiltinsOf
  <2> QED BY <1>2, <2>2, <2>3 DEF NewVariable, DeclarationOf
<1>3. CASE j \notin DOMAIN p /\ j # 0
  <2>1. s < n
    BY <1>3
  <2>2. PICK k \in DOMAIN ParametersOf(p, s) : ParametersOf(p, s)[k] = name /\ j = -k
    BY <1>3 DEF DeclarationsIn
  <2>3. PICK v : v = NewVariable(s, ParametersOf(p, s)[k], "variable", s, TRUE)
    OBVIOUS
  <2>4. v \in DeclaredVariables(p, n, s)
    BY <2>1, <2>2, <2>3 DEF DeclaredVariables, ParameterVariables
  <2>5. s \in DOMAIN p /\ p[s].kind = "function" /\ ParametersOf(p, s) = p[s].parameters
    <3>1. ParametersOf(p, s) # <<>>
      BY <2>2
    <3> QED BY <3>1, ParameterFacts
  <2>6. IsInjective(p[s].parameters)
    BY <2>1, <2>5 DEF ParametersDifferBefore
  <2>7. v.item = s /\ v.name = name /\ v.isParameter
    BY <2>2, <2>3 DEF NewVariable
  <2>8. IndexIn(p[s].parameters, name) = k
    BY <2>2, <2>5, <2>6 DEF IndexIn, IsInjective
  <2>9. DeclarationOf(p, v) = j
    BY <2>2, <2>7, <2>8 DEF DeclarationOf
  <2> QED BY <2>4, <2>7, <2>9
<1> QED BY <1>1, <1>2, <1>3

(* The Variables an item adds to a scope.                                   *)
AddedBy(p, n, s) ==
  {NewVariable(j, p[j].name, "variable", FunctionAround(p, j), FALSE) :
    j \in {j \in {n} : p[j].kind = "let" /\ Body(p, j) = s}}
  \cup {NewVariable(s, ParametersOf(p, s)[k], "variable", s, TRUE) :
    k \in {k \in DOMAIN ParametersOf(p, s) : s = n}}
LEMMA ItemIsVisited ==
  ASSUME NEW p, Nested(p), NEW n \in DOMAIN p, NEW s \in ScopesOf(p)
  PROVE  DeclaredVariables(p, n + 1, s) = DeclaredVariables(p, n, s) \cup AddedBy(p, n, s)
<1>1. p \in Seq(Items) /\ s \in Nat /\ n \in Nat
  BY ScopeIsNested DEF Nested
<1>2. \A j \in DOMAIN p : j < n + 1 <=> j < n \/ j = n
  BY <1>1
<1>3. s < n + 1 <=> s < n \/ s = n
  BY <1>1
<1>4. LetsOf(p, n + 1, s) = LetsOf(p, n, s) \cup
        {NewVariable(j, p[j].name, "variable", FunctionAround(p, j), FALSE) :
          j \in {j \in {n} : p[j].kind = "let" /\ Body(p, j) = s}}
  <2>1. {j \in DOMAIN p : j < n + 1 /\ p[j].kind = "let" /\ Body(p, j) = s} =
          {j \in DOMAIN p : j < n /\ p[j].kind = "let" /\ Body(p, j) = s}
            \cup {j \in {n} : p[j].kind = "let" /\ Body(p, j) = s}
    BY ONLY <1>2, n \in DOMAIN p
  <2> QED BY <2>1 DEF LetsOf
<1>5. ParameterVariables(p, n + 1, s) = ParameterVariables(p, n, s) \cup
        {NewVariable(s, ParametersOf(p, s)[k], "variable", s, TRUE) :
          k \in {k \in DOMAIN ParametersOf(p, s) : s = n}}
  <2>1. {k \in DOMAIN ParametersOf(p, s) : s < n + 1} =
          {k \in DOMAIN ParametersOf(p, s) : s < n} \cup {k \in DOMAIN ParametersOf(p, s) : s = n}
    BY ONLY <1>3
  <2> QED BY <2>1 DEF ParameterVariables
<1> QED BY <1>4, <1>5 DEF DeclaredVariables, AddedBy

(* Two declarations of a name in a body are a redeclaration.                *)
LEMMA TwoDeclarations ==
  ASSUME NEW p \in Seq(Items), NEW s \in {TopScope} \cup DOMAIN p, NEW name \in Names,
         NEW j \in DeclarationsIn(p, s, name), NEW k \in DeclarationsIn(p, s, name), j # k
  PROVE  IsRedeclared(p)
<1>1. IsFiniteSet(DeclarationsIn(p, s, name))
  <2>1. IsFiniteSet(DOMAIN p) /\ IsFiniteSet({0})
    <3>1. DOMAIN p \in SUBSET (0..Len(p)) /\ Len(p) \in Nat
      OBVIOUS
    <3> QED BY <3>1, NumbersAreFinite, FS_Singleton
  <2>2. ParametersOf(p, s) \in Seq(Names)
    <3>1. CASE s = TopScope
      BY <3>1 DEF ParametersOf
    <3>2. CASE s # TopScope
      <4>1. s \in DOMAIN p /\ <<>> \in Seq(Names)
        BY <3>2
      <4>2. p[s].parameters \in Seq(Names)
        BY <4>1, ItemFacts
      <4> QED BY <3>2, <4>2 DEF ParametersOf
    <3> QED BY <3>1, <3>2
  <2>3. IsFiniteSet(DOMAIN ParametersOf(p, s))
    <3>1. DOMAIN ParametersOf(p, s) \in SUBSET (0..Len(ParametersOf(p, s))) /\ Len(ParametersOf(p, s)) \in Nat
      BY <2>2
    <3> QED BY <3>1, NumbersAreFinite
  <2> DEFINE A == {j2 \in DOMAIN p : p[j2].kind \in {"let", "function"} /\ p[j2].name = name /\ Body(p, j2) = s}
             K == {k2 \in DOMAIN ParametersOf(p, s) : ParametersOf(p, s)[k2] = name}
             B == {-k2 : k2 \in K}
             C == {j2 \in {0} : s = TopScope /\ name \in Builtins}
  <2>4. IsFiniteSet(A)
    BY <2>1, FS_Subset
  <2>5. IsFiniteSet(K)
    BY <2>3, FS_Subset
  <2>6. IsFiniteSet(B)
    <3> HIDE DEF K
    <3> QED BY <2>5, NegativesAreFinite
  <2>7. IsFiniteSet(C)
    BY <2>1, FS_Subset
  <2>8. DeclarationsIn(p, s, name) = (A \cup B) \cup C
    BY DEF DeclarationsIn
  <2>9. IsFiniteSet(A \cup B)
    <3> HIDE DEF A, B
    <3> QED BY <2>4, <2>6, FS_Union
  <2>10. IsFiniteSet((A \cup B) \cup C)
    <3> HIDE DEF A, B, C
    <3> QED BY <2>7, <2>9, FS_Union
  <2> QED BY <2>8, <2>10
<1>2. Cardinality(DeclarationsIn(p, s, name)) > 1
  <2>1. PICK D : D = DeclarationsIn(p, s, name)
    OBVIOUS
  <2>2. Cardinality({j, k}) = 2 /\ {j, k} \subseteq D
    <3>1. PICK T, c : T = {j} /\ c = Cardinality({j, k})
      OBVIOUS
    <3>2. IsFiniteSet(T) /\ Cardinality(T) = 1 /\ k \notin T
      BY <3>1, FS_Singleton
    <3>3. Cardinality(T \cup {k}) = Cardinality(T) + 1
      BY <3>2, FS_AddElement
    <3>4. T \cup {k} = {j, k}
      BY <3>1
    <3>5. c = Cardinality(T) + 1
      BY <3>1, <3>3, <3>4
    <3>6. c = 1 + 1
      BY <3>2, <3>5
    <3>7. c = 2
      BY ONLY <3>6
    <3>8. {j, k} \subseteq D
      BY <2>1
    <3> QED BY <3>1, <3>7, <3>8
  <2>3. IsFiniteSet(D) /\ Cardinality(D) \in Nat
    BY <1>1, <2>1, FS_CardinalityType
  <2>4. Cardinality({j, k}) <= Cardinality(D)
    BY <2>2, <2>3, FS_Subset
  <2> QED BY ONLY <2>1, <2>2, <2>3, <2>4
<1> QED BY <1>2 DEF IsRedeclared

-----------------------------------------------------------------------------
(* Resolving a name.                                                        *)

(* The parent of a scope is the one around it.                              *)
LEMMA ParentIsAround ==
  ASSUME Nested(program), IsTree(program, children), NEW s \in ScopesOf(program), s # TopScope
  PROVE  /\ Parent(s) = ScopeAround(program, s)
         /\ Parent(s) \in ScopesOf(program) /\ Parent(s) < s
         /\ s \notin Around(program, Parent(s) + 1)
         /\ Around(program, s + 1) = Around(program, Parent(s) + 1) \cup {s}
<1>1. DOMAIN children = ScopesOf(program)
  BY DEF IsTree
<1>2. \E q \in DOMAIN children : s \in ToSet(children[q])
  BY <1>1 DEF IsTree
<1>3. Parent(s) \in DOMAIN children /\ s \in ToSet(children[Parent(s)])
  BY <1>2 DEF Parent
<1>4. Parent(s) = ScopeAround(program, s)
  BY <1>1, <1>3 DEF IsTree
<1>5. /\ ScopeAround(program, s) \in ScopesOf(program) /\ ScopeAround(program, s) < s
      /\ s \notin Around(program, ScopeAround(program, s) + 1)
      /\ Around(program, s + 1) = Around(program, ScopeAround(program, s) + 1) \cup {s}
  BY ScopeIsNested
<1> QED BY <1>4, <1>5

(* Resolve goes from a scope to the scope around it.                        *)
LEMMA ResolveStep ==
  ASSUME Nested(program), IsTree(program, children), AreDeclared(program, next, variables), NEW name
  PROVE  \A s \in ScopesOf(program) :
           Resolve(s, name) = IF HasVariable(s, name) THEN GetVariable(s, name)
                              ELSE IF s = TopScope THEN NONE ELSE Resolve(Parent(s), name)
<1> DEFINE D == DOMAIN variables
           V == {GetVariable(s, name) : s \in D} \cup {NONE}
           Base == {s \in D : HasVariable(s, name) \/ s = TopScope}
           base == [s \in Base |-> IF HasVariable(s, name) THEN GetVariable(s, name) ELSE NONE]
           parent == [s \in D \ Base |-> Parent(s)]
           step == [s \in D \ Base |-> [v \in V |-> v]]
           rank == [s \in D |-> s]
           IsResolve(f) ==
             f = [s \in D |->
                   CASE HasVariable(s, name) -> GetVariable(s, name)
                     [] ~HasVariable(s, name) /\ s = TopScope -> NONE
                     [] OTHER -> f[Parent(s)]]
<1>1. D = ScopesOf(program) /\ D \subseteq Nat
  BY ScopeIsNested DEF AreDeclared
<1>2. \A s \in D \ Base : Parent(s) \in D /\ Parent(s) < s
  BY <1>1, ParentIsAround
<1>3. Recursion(D, V, rank, Base, base, parent, step)
  <2>1. rank \in [D -> Nat] /\ Base \in SUBSET D
    BY <1>1
  <2>2. base \in [Base -> V]
    OBVIOUS
  <2>3. parent \in [D \ Base -> D]
    BY <1>2
  <2>4. step \in [D \ Base -> [V -> V]]
    OBVIOUS
  <2>5. \A s \in D \ Base : rank[parent[s]] < rank[s]
    BY <1>2
  <2> HIDE DEF D, V, Base, base, parent, step, rank
  <2> QED BY <2>1, <2>2, <2>3, <2>4, <2>5 DEF Recursion
<1>4. PICK f \in [D -> V] : Satisfies(f, D, Base, base, parent, step)
  <2> HIDE DEF D, V, Base, base, parent, step, rank
  <2> QED BY <1>3, RecursiveFunctionExists
<1>5. \A s \in D : f[s] = IF HasVariable(s, name) THEN GetVariable(s, name)
                          ELSE IF s = TopScope THEN NONE ELSE f[Parent(s)]
  <2> TAKE s \in D
  <2>1. f[s] = IF s \in Base THEN base[s] ELSE step[s][f[parent[s]]]
    BY <1>4 DEF Satisfies
  <2>2. CASE s \in Base
    BY <2>1, <2>2
  <2>3. CASE s \notin Base
    <3>1. parent[s] = Parent(s) /\ Parent(s) \in D /\ f[Parent(s)] \in V
      <4>1. parent[s] = Parent(s) /\ Parent(s) \in D
        BY <1>2, <2>3
      <4> HIDE DEF D, V
      <4> QED BY <4>1
    <3>2. step[s][f[Parent(s)]] = f[Parent(s)]
      BY <2>3, <3>1
    <3>3. f[s] = f[Parent(s)]
      BY <2>1, <2>3, <3>1, <3>2
    <3> QED BY <2>3, <3>3
  <2> QED BY <2>2, <2>3
<1>6. \E h : IsResolve(h)
  <2>1. f = [s \in D |->
                   CASE HasVariable(s, name) -> GetVariable(s, name)
                     [] ~HasVariable(s, name) /\ s = TopScope -> NONE
                     [] OTHER -> f[Parent(s)]]
    <3> HIDE DEF D, V
    <3> QED BY <1>5
  <2> QED BY <2>1
<1> DEFINE r == CHOOSE h : IsResolve(h)
<1>7. IsResolve(r)
  BY <1>6
<1>8. \A s : Resolve(s, name) = r[s]
  BY DEF Resolve
<1> HIDE DEF r
<1>9. ASSUME NEW s \in D
      PROVE  Resolve(s, name) = IF HasVariable(s, name) THEN GetVariable(s, name)
                              ELSE IF s = TopScope THEN NONE ELSE Resolve(Parent(s), name)
  BY <1>7, <1>8
<1> QED BY <1>1, <1>9

(* Of the scopes around it that have a Variable of the name, the innermost. *)
ScopesWith(s, name) == {b \in Around(program, s + 1) : HasVariable(b, name)}
LEMMA ResolveFindsInnermost ==
  ASSUME Nested(program), IsTree(program, children), AreDeclared(program, next, variables), NEW name
  PROVE  \A s \in ScopesOf(program) :
           Resolve(s, name) = IF ScopesWith(s, name) = {} THEN NONE
                              ELSE GetVariable(Max(ScopesWith(s, name)), name)
<1> DEFINE S == {s \in Nat : s \in ScopesOf(program) =>
           Resolve(s, name) = IF ScopesWith(s, name) = {} THEN NONE
                              ELSE GetVariable(Max(ScopesWith(s, name)), name)}
<1>1. ASSUME NEW s \in Nat, \A q \in Nat : q < s => q \in S PROVE s \in S
  <2>1. SUFFICES ASSUME s \in ScopesOf(program)
                 PROVE  Resolve(s, name) = IF ScopesWith(s, name) = {} THEN NONE
                              ELSE GetVariable(Max(ScopesWith(s, name)), name)
    OBVIOUS
  <2>2. s \in Around(program, s + 1) /\ \A c \in Around(program, s + 1) : c <= s
    BY <2>1, ScopeIsNested
  <2>3. Resolve(s, name) = IF HasVariable(s, name) THEN GetVariable(s, name)
                              ELSE IF s = TopScope THEN NONE ELSE Resolve(Parent(s), name)
    BY <2>1, ResolveStep
  <2>4. CASE HasVariable(s, name)
    <3>1. s \in ScopesWith(s, name) /\ \A c \in ScopesWith(s, name) : c <= s
      BY <2>2, <2>4 DEF ScopesWith
    <3>2. ScopesWith(s, name) \in SUBSET Int
      <4>1. \A b \in ScopesWith(s, name) : b \in Int
        <5>1. s + 1 \in 1..(Len(program) + 1)
          BY <2>1, ScopeIsNested
        <5>2. Around(program, s + 1) \subseteq ScopesOf(program)
          BY <5>1, ScopesAroundAnItem
        <5>3. ScopesOf(program) \subseteq Nat
          BY ScopeIsNested
        <5> QED BY <5>2, <5>3 DEF ScopesWith
      <4> QED BY <4>1
    <3>3. Max(ScopesWith(s, name)) = s
      BY <3>1, <3>2, GreatestIs
    <3> QED BY <2>3, <2>4, <3>1, <3>3
  <2>5. CASE ~HasVariable(s, name) /\ s = TopScope
    <3>1. ScopesWith(s, name) = {}
      BY <2>5, AtTheBeginning DEF ScopesWith, TopScope
    <3> QED BY <2>3, <2>5, <3>1
  <2>6. CASE ~HasVariable(s, name) /\ s # TopScope
    <3>1. PICK q : q = Parent(s)
      OBVIOUS
    <3>2. q \in ScopesOf(program) /\ q < s /\ Around(program, s + 1) = Around(program, q + 1) \cup {s}
      BY <2>1, <2>6, <3>1, ParentIsAround
    <3>3. q \in Nat
      BY <3>2, ScopeIsNested
    <3>4. ScopesWith(s, name) = ScopesWith(q, name)
      BY <2>6, <3>2 DEF ScopesWith
    <3>5. q \in S
      BY <1>1, <3>2, <3>3
    <3>6. Resolve(q, name) = IF ScopesWith(q, name) = {} THEN NONE
                             ELSE GetVariable(Max(ScopesWith(q, name)), name)
      BY <3>2, <3>5
    <3>7. Resolve(s, name) = Resolve(q, name)
      BY <2>3, <2>6, <3>1
    <3> QED BY ONLY <3>4, <3>6, <3>7
  <2> QED BY <2>4, <2>5, <2>6
<1>2. \A s \in Nat : s \in S
  <2> HIDE DEF S
  <2> QED BY <1>1, StrongInduction
<1>3. ScopesOf(program) \subseteq Nat
  BY ScopeIsNested
<1> QED BY <1>2, <1>3

-----------------------------------------------------------------------------
(* The functions around a function.                                         *)

(* OuterFunctions follows the outer functions.                              *)
LEMMA OuterFunctionsStep ==
  ASSUME NEW p, Nested(p), NEW outerOf, IsOuter(p, outerOf)
  PROVE  \A f \in {TopScope} \cup DOMAIN outerOf :
           OuterFunctions(outerOf, f) = IF f = TopScope THEN {f} ELSE {f} \cup OuterFunctions(outerOf, outerOf[f])
<1> DEFINE D == {TopScope} \cup DOMAIN outerOf
           V == SUBSET D
           Base == {TopScope}
           base == [f \in Base |-> {f}]
           outer == [f \in D \ Base |-> outerOf[f]]
           step == [f \in D \ Base |-> [v \in V |-> {f} \cup v]]
           rank == [f \in D |-> f]
           IsChain(chain) ==
             chain = [f \in {TopScope} \cup DOMAIN outerOf |->
                       IF f = TopScope THEN {f} ELSE {f} \cup chain[outerOf[f]]]
<1>1. \A f \in D \ Base : outerOf[f] \in D /\ outerOf[f] < f /\ f \in Nat
  <2> TAKE f \in D \ Base
  <2>1. f \in DOMAIN p /\ p[f].kind = "function" /\ outerOf[f] = FunctionAround(p, f)
    BY DEF IsOuter
  <2>2. p \in Seq(Items)
    BY DEF Nested
  <2>3. f \in 1..(Len(p) + 1) /\ f \in Nat
    BY <2>1, <2>2, ItemFacts
  <2>4. /\ FunctionAround(p, f) \in FunctionsAround(p, f) /\ FunctionAround(p, f) < f
        /\ FunctionAround(p, f) \in ScopesOf(p)
    BY <2>3, FunctionsAroundAnItem
  <2>5. FunctionAround(p, f) \in D
    BY <2>4 DEF FunctionsAround, IsFunction, ScopesOf, IsOuter
  <2> QED BY <2>1, <2>3, <2>4, <2>5
<1>2. D \subseteq Nat
  <2>1. ASSUME NEW f \in D PROVE f \in Nat
    <3>1. f \in {TopScope} \/ f \in D \ Base
      OBVIOUS
    <3>2. TopScope \in Nat
      BY DEF TopScope
    <3> HIDE DEF D, Base
    <3> QED BY ONLY <1>1, <3>1, <3>2
  <2> QED BY <2>1
<1>3. Recursion(D, V, rank, Base, base, outer, step)
  <2>1. rank \in [D -> Nat] /\ Base \in SUBSET D
    BY <1>2
  <2>2. base \in [Base -> V]
    OBVIOUS
  <2>3. outer \in [D \ Base -> D]
    BY <1>1
  <2>4. step \in [D \ Base -> [V -> V]]
    OBVIOUS
  <2>5. \A f \in D \ Base : rank[outer[f]] < rank[f]
    BY <1>1
  <2> HIDE DEF D, V, Base, base, outer, step, rank
  <2> QED BY <2>1, <2>2, <2>3, <2>4, <2>5 DEF Recursion
<1>4. PICK chain \in [D -> V] : Satisfies(chain, D, Base, base, outer, step)
  <2> HIDE DEF D, V, Base, base, outer, step, rank
  <2> QED BY <1>3, RecursiveFunctionExists
<1>5. \A f \in D : chain[f] = IF f = TopScope THEN {f} ELSE {f} \cup chain[outerOf[f]]
  <2> TAKE f \in D
  <2>1. chain[f] = IF f \in Base THEN base[f] ELSE step[f][chain[outer[f]]]
    BY <1>4 DEF Satisfies
  <2>2. CASE f \in Base
    BY <2>1, <2>2
  <2>3. CASE f \notin Base
    <3>1. outer[f] = outerOf[f] /\ outerOf[f] \in D
      BY <1>1, <2>3
    <3>2. chain[outerOf[f]] \in V
      <4> HIDE DEF D, V
      <4> QED BY <3>1
    <3>3. step[f][chain[outerOf[f]]] = {f} \cup chain[outerOf[f]]
      BY <2>3, <3>2
    <3> QED BY <2>1, <2>3, <3>1, <3>3
  <2> QED BY <2>2, <2>3
<1>6. \E h : IsChain(h)
  <2>1. IsChain(chain)
    <3> HIDE DEF V
    <3> QED BY <1>5
  <2> QED BY <2>1
<1> DEFINE c == CHOOSE h : IsChain(h)
<1>7. IsChain(c)
  BY <1>6
<1>8. \A f : OuterFunctions(outerOf, f) = c[f]
  BY DEF OuterFunctions
<1> HIDE DEF c
<1>9. ASSUME NEW f \in D
      PROVE  OuterFunctions(outerOf, f) = IF f = TopScope THEN {f} ELSE {f} \cup OuterFunctions(outerOf, outerOf[f])
  <2>1. c[f] = IF f = TopScope THEN {f} ELSE {f} \cup c[outerOf[f]]
    BY <1>7
  <2> HIDE DEF IsChain, D
  <2> QED BY <1>8, <2>1
<1> QED BY <1>9

(* They are the functions around it.                                        *)
LEMMA OuterFunctionsAreAround ==
  ASSUME NEW p, Nested(p), NEW outerOf, IsOuter(p, outerOf)
  PROVE  \A f \in {TopScope} \cup DOMAIN outerOf :
           OuterFunctions(outerOf, f) = FunctionsAround(p, f + 1)
<1> DEFINE D == {TopScope} \cup DOMAIN outerOf
           S == {f \in Nat : f \in D => OuterFunctions(outerOf, f) = FunctionsAround(p, f + 1)}
<1>0. \A f \in DOMAIN outerOf : f \in DOMAIN p /\ p[f].kind = "function" /\ f \in ScopesOf(p)
  BY DEF IsOuter, ScopesOf, Begins
<1>1. ASSUME NEW f \in Nat, \A g \in Nat : g < f => g \in S PROVE f \in S
  <2>1. SUFFICES ASSUME f \in D PROVE OuterFunctions(outerOf, f) = FunctionsAround(p, f + 1)
    OBVIOUS
  <2>2. CASE f = TopScope
    <3>1. OuterFunctions(outerOf, f) = {f}
      BY <2>1, <2>2, OuterFunctionsStep
    <3>2. FunctionsAround(p, f + 1) = {TopScope}
      BY <2>2, AtTheBeginning DEF FunctionsAround, IsFunction, TopScope
    <3> QED BY <2>2, <3>1, <3>2
  <2>3. CASE f # TopScope
    <3>1. f \in DOMAIN p /\ p[f].kind = "function" /\ f \in ScopesOf(p)
      BY <1>0, <2>1, <2>3
    <3>2. p \in Seq(Items)
      BY DEF Nested
    <3>3. f \in 1..(Len(p) + 1)
      BY <3>1, <3>2, ItemFacts
    <3>4. PICK g : g = outerOf[f]
      OBVIOUS
    <3>5. /\ g = FunctionAround(p, f) /\ g \in FunctionsAround(p, f) /\ g < f
          /\ g \in ScopesOf(p)
          /\ FunctionsAround(p, g + 1) = FunctionsAround(p, f)
      BY <2>1, <2>3, <3>3, <3>4, FunctionsAroundAnItem DEF IsOuter
    <3>6. g \in D /\ g \in Nat
      BY <3>5, ScopeIsNested DEF FunctionsAround, IsFunction, ScopesOf, IsOuter
    <3>7. OuterFunctions(outerOf, g) = FunctionsAround(p, g + 1)
      BY <1>1, <3>5, <3>6
    <3>8. OuterFunctions(outerOf, f) = {f} \cup OuterFunctions(outerOf, g)
      BY <2>1, <2>3, <3>4, OuterFunctionsStep
    <3>9. Around(p, f + 1) = Around(p, f) \cup {f}
      <4>1. Around(p, f + 1) = NextAround(p, f)
        BY <3>1, Nesting
      <4> QED BY <3>1, <4>1 DEF NextAround, Begins, Ends
    <3>10. FunctionsAround(p, f + 1) = FunctionsAround(p, f) \cup {f}
      BY <3>1, <3>9 DEF FunctionsAround, IsFunction
    <3> QED BY <3>5, <3>7, <3>8, <3>10
  <2> QED BY <2>2, <2>3
<1>2. \A f \in Nat : f \in S
  <2> HIDE DEF S
  <2> QED BY <1>1, StrongInduction
<1>3. D \subseteq Nat
  BY <1>0, ScopeIsNested DEF TopScope
<1> QED BY <1>2, <1>3
-----------------------------------------------------------------------------
(* An item is appended.                                                     *)

IsAppended(p, x, q, n) ==
  /\ Nested(p) /\ x \in Items /\ q = Append(p, x) /\ n = Len(p) + 1
  /\ x.kind \in Ends => Body(p, n) # TopScope

(* The scopes of the longer program are the old ones and what the item      *)
(* begins.                                                                  *)
LEMMA AppendedItem ==
  ASSUME NEW p, NEW x, NEW q, NEW n, IsAppended(p, x, q, n)
  PROVE  /\ q \in Seq(Items) /\ Len(q) = n /\ n \in Nat \ {0} /\ n \in DOMAIN q
         /\ DOMAIN q = DOMAIN p \cup {n} /\ n \notin DOMAIN p /\ n \notin ScopesOf(p)
         /\ q[n] = x /\ \A i \in DOMAIN p : q[i] = p[i]
         /\ Nested(q)
         /\ ScopesOf(q) = ScopesOf(p) \cup {s \in {n} : x.kind \in Begins}
<1> USE DEF IsAppended
<1>1. p \in Seq(Items)
  BY DEF Nested
<1>2. /\ q \in Seq(Items) /\ Len(q) = n /\ DOMAIN q = DOMAIN p \cup {n} /\ n \notin DOMAIN p
      /\ q[n] = x /\ \A i \in DOMAIN p : q[i] = p[i]
  BY <1>1, ElementAppended
<1>3. n \in Nat \ {0} /\ n \in DOMAIN q
  BY <1>1, <1>2
<1>4. ASSUME NEW i \in DOMAIN q, q[i].kind \in Ends PROVE Body(q, i) # TopScope
  <2>1. i \in 1..(Len(p) + 1) /\ Body(q, i) = Body(p, i)
    <3>1. i \in 1..(Len(p) + 1)
      BY <1>1, <1>2
    <3> QED BY <1>1, <3>1, LongerProgram
  <2>2. CASE i = n
    BY <1>2, <1>4, <2>1, <2>2
  <2>3. CASE i # n
    <3>1. i \in DOMAIN p /\ p[i].kind \in Ends
      BY <1>2, <1>4, <2>3
    <3> QED BY <2>1, <3>1 DEF Nested
  <2> QED BY <2>2, <2>3
<1>5. Nested(q)
  BY <1>2, <1>4 DEF Nested
<1>6. ScopesOf(q) = ScopesOf(p) \cup {s \in {n} : x.kind \in Begins}
  BY <1>2 DEF ScopesOf
<1>7. n \notin ScopesOf(p)
  BY <1>2, <1>3 DEF ScopesOf, TopScope
<1> QED BY <1>2, <1>3, <1>5, <1>6, <1>7

(* The scopes, by the kind of the item.                                     *)
LEMMA AppendedScopes ==
  ASSUME NEW p, NEW x, NEW q, NEW n, IsAppended(p, x, q, n)
  PROVE  /\ n \notin ScopesOf(p)
         /\ x.kind \in Begins => ScopesOf(q) = ScopesOf(p) \cup {n}
         /\ x.kind \notin Begins => ScopesOf(q) = ScopesOf(p)
<1>1. ScopesOf(q) = ScopesOf(p) \cup {s \in {n} : x.kind \in Begins} /\ n \notin ScopesOf(p)
  BY AppendedItem
<1> QED BY <1>1

(* What is around the items and the scopes stays.                           *)
LEMMA AppendedItemIsInside ==
  ASSUME NEW p, NEW x, NEW q, NEW n, IsAppended(p, x, q, n)
  PROVE  /\ \A i \in 1..n : /\ Around(q, i) = Around(p, i) /\ Body(q, i) = Body(p, i)
                            /\ FunctionAround(q, i) = FunctionAround(p, i)
                            /\ FunctionsAround(q, i) = FunctionsAround(p, i)
         /\ \A s \in ScopesOf(p) : ScopeAround(q, s) = ScopeAround(p, s)
         /\ Around(q, n + 1) = (Around(p, n) \ {b \in {Body(p, n)} : x.kind \in Ends})
                                  \cup {b \in {n} : x.kind \in Begins}
<1>1. p \in Seq(Items) /\ x \in Items /\ q = Append(p, x) /\ n = Len(p) + 1 /\ Nested(p)
  BY DEF Nested, IsAppended
<1>2. \A i \in 1..n : /\ Around(q, i) = Around(p, i) /\ Body(q, i) = Body(p, i)
                      /\ FunctionAround(q, i) = FunctionAround(p, i)
                      /\ FunctionsAround(q, i) = FunctionsAround(p, i)
  BY <1>1, LongerProgram
<1>3. ASSUME NEW s \in ScopesOf(p) PROVE ScopeAround(q, s) = ScopeAround(p, s)
  <2>1. s + 1 \in 1..n
    BY <1>1, ScopeIsNested
  <2>2. Around(q, s + 1) = Around(p, s + 1)
    BY <1>2, <2>1
  <2> QED BY <2>2 DEF ScopeAround
<1>4. Nested(q) /\ n \in DOMAIN q /\ q[n] = x /\ n \in Nat \ {0}
  <2>1. Nested(q) /\ n \in DOMAIN q /\ n \in Nat \ {0}
    BY AppendedItem
  <2>2. q[n] = x
    BY <1>1, ElementAppended
  <2> QED BY <2>1, <2>2
<1>5. Around(q, n + 1) = NextAround(q, n)
  BY <1>4, Nesting
<1>6. n \in 1..n
  BY <1>4
<1>7. Around(q, n) = Around(p, n) /\ Body(q, n) = Body(p, n)
  BY <1>2, <1>6
<1> QED BY <1>2, <1>3, <1>4, <1>5, <1>7 DEF NextAround

(* A scope is added to the children of the scope around it.                 *)
LEMMA TreeGrows ==
  ASSUME NEW p, NEW q, NEW c, NEW h, NEW ch, NEW ch2,
         Nested(q), IsTree(p, ch), h \in ScopesOf(p), c \notin {TopScope, h},
         ScopesOf(q) = ScopesOf(p) \cup {c},
         \A s \in ScopesOf(p) : ScopeAround(q, s) = ScopeAround(p, s),
         ScopeAround(q, c) = h,
         DOMAIN ch2 = ScopesOf(q), ch2[h] = Append(ch[h], c),
         \A s \in ScopesOf(p) \ {h} : ch2[s] = ch[s],
         c \notin ScopesOf(p) => ch2[c] = <<>>
  PROVE  IsTree(q, ch2)
<1> DEFINE T == ScopesOf(q) \ {TopScope}
<1>0. c \in T /\ \A s \in ScopesOf(p) : s \in ScopesOf(q)
  OBVIOUS
<1>1. \A s \in ScopesOf(p) : /\ ch[s] \in Seq(T)
                             /\ \A d \in ToSet(ch[s]) : d \in ScopesOf(p) /\ ScopeAround(q, d) = s
  <2> TAKE s \in ScopesOf(p)
  <2>1. ch[s] \in Seq(ScopesOf(p) \ {TopScope}) /\ \A d \in ToSet(ch[s]) : ScopeAround(p, d) = s
    BY DEF IsTree
  <2>2. ch[s] \in Seq(T)
    <3>1. ScopesOf(p) \ {TopScope} \subseteq T
      OBVIOUS
    <3> HIDE DEF T
    <3> QED BY <2>1, <3>1
  <2>3. \A d \in ToSet(ch[s]) : d \in ScopesOf(p)
    BY <2>1, ElementType DEF ToSet
  <2> QED BY <2>1, <2>2, <2>3
<1>2. /\ ch2[h] \in Seq(T) /\ ToSet(ch2[h]) = ToSet(ch[h]) \cup {c}
  <2>1. PICK s : s = ch[h]
    OBVIOUS
  <2>2. s \in Seq(T) /\ ch2[h] = Append(s, c)
    BY <1>1, <2>1
  <2>3. /\ Append(s, c) \in Seq(T) /\ DOMAIN Append(s, c) = DOMAIN s \cup {Len(s) + 1}
        /\ Append(s, c)[Len(s) + 1] = c /\ \A i \in DOMAIN s : Append(s, c)[i] = s[i]
    <3> HIDE DEF T
    <3> QED BY <1>0, <2>2, ElementAppended
  <2>4. ToSet(Append(s, c)) = ToSet(s) \cup {c}
    BY <2>3 DEF ToSet
  <2> QED BY <2>1, <2>2, <2>3, <2>4
<1>3. ASSUME NEW s \in ScopesOf(q)
      PROVE  ch2[s] \in Seq(T) /\ \A d \in ToSet(ch2[s]) : ScopeAround(q, d) = s
  <2>1. CASE s = h
    BY <1>1, <1>2, <2>1
  <2>2. CASE s # h /\ s \in ScopesOf(p)
    BY <1>1, <2>2
  <2>3. CASE s \notin ScopesOf(p)
    <3>1. ch2[s] = <<>>
      BY <2>3
    <3>2. <<>> \in Seq(T) /\ ToSet(<<>>) = {}
      BY DEF ToSet
    <3> QED BY <3>1, <3>2
  <2> QED BY <2>1, <2>2, <2>3
<1>4. ASSUME NEW d \in ScopesOf(q) \ {TopScope} PROVE \E s \in ScopesOf(q) : d \in ToSet(ch2[s])
  <2>1. CASE d = c
    BY <1>2, <2>1
  <2>2. CASE d # c
    <3>1. PICK s \in ScopesOf(p) : d \in ToSet(ch[s])
      BY <2>2 DEF IsTree
    <3>2. d \in ToSet(ch2[s])
      BY <1>2, <3>1
    <3> QED BY <3>1, <3>2
  <2> QED BY <2>1, <2>2
<1> QED BY <1>3, <1>4 DEF IsTree

(* Items that begin nothing leave the tree as it is.                        *)
LEMMA TreeStays ==
  ASSUME NEW p, NEW q, NEW ch, IsTree(p, ch), ScopesOf(q) = ScopesOf(p),
         \A s \in ScopesOf(p) : ScopeAround(q, s) = ScopeAround(p, s)
  PROVE  IsTree(q, ch)
<1>1. ASSUME NEW s \in ScopesOf(p), NEW d \in ToSet(ch[s])
      PROVE  d \in ScopesOf(p) /\ ScopeAround(p, d) = s
  <2>1. ch[s] \in Seq(ScopesOf(p) \ {TopScope}) /\ ScopeAround(p, d) = s
    BY DEF IsTree
  <2> QED BY <2>1, ElementType DEF ToSet
<1> QED BY <1>1 DEF IsTree
(* The outer functions of the functions.                                    *)
LEMMA OuterStays ==
  ASSUME NEW p, NEW x, NEW q, NEW n, IsAppended(p, x, q, n), x.kind # "function",
         NEW outerOf, IsOuter(p, outerOf)
  PROVE  IsOuter(q, outerOf)
<1>1. /\ DOMAIN q = DOMAIN p \cup {n} /\ \A i \in DOMAIN p : q[i] = p[i]
      /\ DOMAIN p = 1..Len(p) /\ n = Len(p) + 1 /\ n \in Nat /\ q[n] = x
  BY ElementAppended DEF IsAppended, Nested
<1>2. \A i \in 1..n : FunctionAround(q, i) = FunctionAround(p, i)
  BY AppendedItemIsInside
<1>3. {f \in DOMAIN q : q[f].kind = "function"} = {f \in DOMAIN p : p[f].kind = "function"}
  BY <1>1
<1> QED BY <1>1, <1>2, <1>3 DEF IsOuter

(* The same when the item is a function.                                    *)
LEMMA OuterGrows ==
  ASSUME NEW p, NEW x, NEW q, NEW n, IsAppended(p, x, q, n), x.kind = "function",
         NEW outerOf, IsOuter(p, outerOf)
  PROVE  IsOuter(q, Including(outerOf, n, FunctionAround(p, n)))
<1>1. /\ DOMAIN q = DOMAIN p \cup {n} /\ \A i \in DOMAIN p : q[i] = p[i]
      /\ DOMAIN p = 1..Len(p) /\ n = Len(p) + 1 /\ n \in Nat /\ q[n] = x /\ n \notin DOMAIN p
  BY ElementAppended DEF IsAppended, Nested
<1>2. \A i \in 1..n : FunctionAround(q, i) = FunctionAround(p, i)
  BY AppendedItemIsInside
<1>3. {f \in DOMAIN q : q[f].kind = "function"} = {f \in DOMAIN p : p[f].kind = "function"} \cup {n}
  BY <1>1
<1>4. DOMAIN outerOf = {f \in DOMAIN p : p[f].kind = "function"}
  BY DEF IsOuter
<1> DEFINE o == Including(outerOf, n, FunctionAround(p, n))
<1>5. /\ DOMAIN o = DOMAIN outerOf \cup {n} /\ o[n] = FunctionAround(p, n)
      /\ \A f \in DOMAIN outerOf : o[f] = outerOf[f]
  BY <1>1, <1>4 DEF Including
<1> HIDE DEF o
<1>6. ASSUME NEW f \in DOMAIN o PROVE o[f] = FunctionAround(q, f)
  <2>1. CASE f = n
    BY <1>1, <1>2, <1>5, <2>1
  <2>2. CASE f # n
    BY <1>1, <1>2, <1>4, <1>5, <2>2 DEF IsOuter
  <2> QED BY <2>1, <2>2
<1>7. IsOuter(q, o)
  BY <1>3, <1>4, <1>5, <1>6 DEF IsOuter
<1> QED BY <1>7 DEF o

(* The first pass puts only functions into the scopes.                      *)
LEMMA OnlyFunctionsYet ==
  ASSUME NEW p \in Seq(Items), NEW s \in Nat
  PROVE  DeclaredVariables(p, 1, s) = BuiltinsOf(s) \cup FunctionsOf(p, s)
<1>1. LetsOf(p, 1, s) = {}
  <2>1. \A j \in DOMAIN p : ~ (j < 1)
    OBVIOUS
  <2> QED BY <2>1 DEF LetsOf
<1>2. ParameterVariables(p, 1, s) = {}
  <2>1. s < 1 => s = TopScope
    BY DEF TopScope
  <2>2. s = TopScope => DOMAIN ParametersOf(p, s) = {}
    BY DEF ParametersOf
  <2> QED BY <2>1, <2>2 DEF ParameterVariables
<1> QED BY <1>1, <1>2 DEF DeclaredVariables

(* A function is a new Variable of its body.                                *)
FunctionVariables(x, n, f) ==
  {NewVariable(j, x.name, "user_function", f, FALSE) : j \in {j \in {n} : x.kind = "function"}}
LEMMA AppendedVariables ==
  ASSUME NEW p, NEW x, NEW q, NEW n, IsAppended(p, x, q, n)
  PROVE  /\ \A s \in ScopesOf(p) :
              DeclaredVariables(q, 1, s) = DeclaredVariables(p, 1, s) \cup
                (IF s = Body(p, n) THEN FunctionVariables(x, n, FunctionAround(p, n)) ELSE {})
         /\ DeclaredVariables(q, 1, n) = {}
<1>1. /\ DOMAIN q = DOMAIN p \cup {n} /\ \A i \in DOMAIN p : q[i] = p[i]
      /\ DOMAIN p = 1..Len(p) /\ n = Len(p) + 1 /\ n \in Nat /\ q[n] = x /\ n \notin DOMAIN p
      /\ Nested(p) /\ p \in Seq(Items) /\ n # 0
  BY ElementAppended DEF IsAppended, Nested
<1>2. \A i \in 1..n : FunctionAround(q, i) = FunctionAround(p, i) /\ Body(q, i) = Body(p, i)
  BY AppendedItemIsInside
<1>3. Nested(q) /\ q \in Seq(Items)
  BY AppendedItem
<1>4. ASSUME NEW s \in ScopesOf(p)
      PROVE  FunctionsOf(q, s) = FunctionsOf(p, s) \cup
                (IF s = Body(p, n) THEN FunctionVariables(x, n, FunctionAround(p, n)) ELSE {})
  <2>1. \A j \in DOMAIN p : q[j] = p[j] /\ FunctionAround(q, j) = FunctionAround(p, j) /\ Body(q, j) = Body(p, j)
    BY <1>1, <1>2
  <2>2. q[n] = x /\ FunctionAround(q, n) = FunctionAround(p, n) /\ Body(q, n) = Body(p, n)
    BY <1>1, <1>2
  <2>3. CASE s = Body(p, n)
    <3>1. {j \in DOMAIN q : q[j].kind = "function" /\ Body(q, j) = s} =
            {j \in DOMAIN p : p[j].kind = "function" /\ Body(p, j) = s}
              \cup {j \in {n} : x.kind = "function"}
      BY <1>1, <2>1, <2>2, <2>3
    <3>2. FunctionVariables(x, n, FunctionAround(p, n)) =
            {NewVariable(j, q[j].name, "user_function", FunctionAround(q, j), FALSE) :
               j \in {j \in {n} : x.kind = "function"}}
      BY <2>2 DEF FunctionVariables
    <3>3. FunctionsOf(p, s) =
            {NewVariable(j, q[j].name, "user_function", FunctionAround(q, j), FALSE) :
               j \in {j \in DOMAIN p : p[j].kind = "function" /\ Body(p, j) = s}}
      BY <2>1 DEF FunctionsOf
    <3> QED BY <2>3, <3>1, <3>2, <3>3 DEF FunctionsOf
  <2>4. CASE s # Body(p, n)
    BY <1>1, <2>1, <2>2, <2>4 DEF FunctionsOf
  <2> QED BY <2>3, <2>4
<1>5. FunctionsOf(q, n) = {}
  <2>1. ASSUME NEW j \in DOMAIN q PROVE Body(q, j) # n
    <3>1. j \in 1..(Len(q) + 1) /\ j <= n
      BY <1>1, <1>3
    <3>2. Body(q, j) \in 0..(j - 1)
      BY <3>1, <1>3, BodyFacts
    <3> QED BY <1>1, <3>1, <3>2
  <2> QED BY <2>1 DEF FunctionsOf
<1>6. BuiltinsOf(n) = {}
  BY <1>1 DEF BuiltinsOf, TopScope
<1>7. \A s \in ScopesOf(p) : s \in Nat
  BY <1>1, ScopeIsNested
<1>8. ASSUME NEW s \in ScopesOf(p)
      PROVE  DeclaredVariables(q, 1, s) = DeclaredVariables(p, 1, s) \cup
                (IF s = Body(p, n) THEN FunctionVariables(x, n, FunctionAround(p, n)) ELSE {})
  <2>1. s \in Nat
    BY <1>7
  <2>2. DeclaredVariables(q, 1, s) = BuiltinsOf(s) \cup FunctionsOf(q, s)
    BY <2>1, <1>3, OnlyFunctionsYet
  <2>3. DeclaredVariables(p, 1, s) = BuiltinsOf(s) \cup FunctionsOf(p, s)
    BY <2>1, <1>1, OnlyFunctionsYet
  <2> QED BY <1>4, <2>2, <2>3
<1>9. DeclaredVariables(q, 1, n) = {}
  BY <1>1, <1>3, <1>5, <1>6, OnlyFunctionsYet
<1> QED BY <1>8, <1>9
-----------------------------------------------------------------------------
(* The Variables of the scopes, while the program grows.                    *)

(* No Variables.                                                            *)
LEMMA NoVariables == <<>> \in Seq(Variable) /\ NamesDiffer(<<>>) /\ ToSet(<<>>) = {}
BY DEF NamesDiffer, ToSet

(* A Variable with another name than the others.                            *)
LEMMA VariableIsAdded ==
  ASSUME NEW vs \in Seq(Variable), NamesDiffer(vs), NEW v \in Variable,
         \A u \in ToSet(vs) : u.name # v.name
  PROVE  /\ Append(vs, v) \in Seq(Variable) /\ NamesDiffer(Append(vs, v))
         /\ ToSet(Append(vs, v)) = ToSet(vs) \cup {v}
<1>1. PICK ws : ws = Append(vs, v)
  OBVIOUS
<1>2. /\ ws \in Seq(Variable) /\ DOMAIN ws = DOMAIN vs \cup {Len(vs) + 1}
      /\ ws[Len(vs) + 1] = v /\ \A i \in DOMAIN vs : ws[i] = vs[i] /\ vs[i] \in ToSet(vs)
  BY <1>1, ElementAppended DEF ToSet
<1>3. ToSet(ws) = ToSet(vs) \cup {v}
  BY <1>2 DEF ToSet
<1>4. NamesDiffer(ws)
  BY <1>2 DEF NamesDiffer
<1> QED BY <1>1, <1>2, <1>3, <1>4

(* Variables with other names, which differ as well.                        *)
LEMMA VariablesAreAdded ==
  ASSUME NEW vs \in Seq(Variable), NamesDiffer(vs), NEW us \in Seq(Variable), NamesDiffer(us),
         \A v \in ToSet(vs), u \in ToSet(us) : u.name # v.name
  PROVE  /\ vs \o us \in Seq(Variable) /\ NamesDiffer(vs \o us)
         /\ ToSet(vs \o us) = ToSet(vs) \cup ToSet(us)
<1>1. PICK ws : ws = vs \o us
  OBVIOUS
<1>2. PICK a \in Nat, b \in Nat : a = Len(vs) /\ b = Len(us)
  OBVIOUS
<1>3. /\ ws \in Seq(Variable) /\ DOMAIN ws = 1..(a + b) /\ DOMAIN vs = 1..a /\ DOMAIN us = 1..b
      /\ \A i \in 1..(a + b) : ws[i] = IF i <= a THEN vs[i] ELSE us[i - a]
  BY <1>1, <1>2
<1>4. \A i \in 1..(a + b) : \/ i \in DOMAIN vs /\ ws[i] = vs[i]
                            \/ i \notin DOMAIN vs /\ i - a \in DOMAIN us /\ ws[i] = us[i - a]
  BY <1>2, <1>3
<1>5. ToSet(ws) = ToSet(vs) \cup ToSet(us)
  <2>1. ASSUME NEW v \in ToSet(ws) PROVE v \in ToSet(vs) \cup ToSet(us)
    BY <1>3, <1>4 DEF ToSet
  <2>2. ASSUME NEW v \in ToSet(vs) PROVE v \in ToSet(ws)
    <3>1. PICK i \in DOMAIN vs : v = vs[i]
      BY DEF ToSet
    <3>2. i \in 1..(a + b) /\ ws[i] = v
      BY <1>2, <1>3, <3>1
    <3> QED BY <1>3, <3>2 DEF ToSet
  <2>3. ASSUME NEW v \in ToSet(us) PROVE v \in ToSet(ws)
    <3>1. PICK i \in DOMAIN us : v = us[i]
      BY DEF ToSet
    <3>2. PICK j : j = i + a
      OBVIOUS
    <3>3. j \in 1..(a + b) /\ ~(j <= a) /\ j - a = i
      BY <1>2, <1>3, <3>2
    <3>4. ws[j] = v
      BY <1>3, <3>1, <3>3
    <3> QED BY <1>3, <3>3, <3>4 DEF ToSet
  <2> QED BY <2>1, <2>2, <2>3
<1>6. ASSUME NEW i \in DOMAIN ws, NEW j \in DOMAIN ws, ws[i].name = ws[j].name PROVE i = j
  <2>1. \A k \in DOMAIN vs : vs[k] \in ToSet(vs)
    BY DEF ToSet
  <2>2. \A k \in DOMAIN us : us[k] \in ToSet(us)
    BY DEF ToSet
  <2>3. CASE i \in DOMAIN vs
    <3>1. ws[i] = vs[i]
      BY <1>3, <1>4, <2>3
    <3>2. CASE j \in DOMAIN vs
      <4>1. ws[j] = vs[j]
        BY <1>3, <1>4, <3>2
      <4> QED BY <1>6, <2>3, <3>1, <3>2, <4>1 DEF NamesDiffer
    <3>3. CASE j \notin DOMAIN vs
      <4>1. j - a \in DOMAIN us /\ ws[j] = us[j - a]
        BY <1>3, <1>4, <3>3
      <4> QED BY <1>6, <2>1, <2>2, <2>3, <3>1, <4>1
    <3> QED BY <3>2, <3>3
  <2>4. CASE i \notin DOMAIN vs
    <3>1. i - a \in DOMAIN us /\ ws[i] = us[i - a]
      BY <1>3, <1>4, <2>4
    <3>2. j \notin DOMAIN vs
      BY <1>3, <1>4, <1>6, <2>1, <2>2, <3>1
    <3>3. j - a \in DOMAIN us /\ ws[j] = us[j - a]
      BY <1>3, <1>4, <3>2
    <3>4. i - a = j - a
      BY <1>6, <3>1, <3>3 DEF NamesDiffer
    <3> QED BY <1>2, <1>3, <3>4
  <2> QED BY <2>3, <2>4
<1> QED BY <1>1, <1>3, <1>5, <1>6 DEF NamesDiffer

(* An item that begins nothing, or the body of an if or while statement.    *)
LEMMA VariablesStay ==
  ASSUME NEW p, NEW x, NEW q, NEW n, IsAppended(p, x, q, n), x.kind \notin Begins,
         NEW vs, AreDeclared(p, 1, vs)
  PROVE  AreDeclared(q, 1, vs)
<1>1. ScopesOf(q) = ScopesOf(p)
  BY AppendedScopes
<1>2. FunctionVariables(x, n, FunctionAround(p, n)) = {}
  BY DEF FunctionVariables, Begins
<1>3. \A s \in ScopesOf(p) : DeclaredVariables(q, 1, s) = DeclaredVariables(p, 1, s)
  <2>1. \A s \in ScopesOf(p) :
          DeclaredVariables(q, 1, s) = DeclaredVariables(p, 1, s) \cup
            (IF s = Body(p, n) THEN FunctionVariables(x, n, FunctionAround(p, n)) ELSE {})
    BY AppendedVariables
  <2> QED BY <1>2, <2>1
<1> QED BY <1>1, <1>3 DEF AreDeclared

(* The scope of a body has no Variables at first.                           *)
LEMMA VariablesOfABody ==
  ASSUME NEW p, NEW x, NEW q, NEW n, IsAppended(p, x, q, n), x.kind \in Begins \ {"function"},
         NEW vs, AreDeclared(p, 1, vs)
  PROVE  AreDeclared(q, 1, Including(vs, n, <<>>))
<1>1. ScopesOf(q) = ScopesOf(p) \cup {n} /\ n \notin ScopesOf(p)
  BY AppendedScopes
<1>2. FunctionVariables(x, n, FunctionAround(p, n)) = {}
  BY DEF FunctionVariables
<1>3. \A s \in ScopesOf(p) : DeclaredVariables(q, 1, s) = DeclaredVariables(p, 1, s)
  <2>1. \A s \in ScopesOf(p) :
          DeclaredVariables(q, 1, s) = DeclaredVariables(p, 1, s) \cup
            (IF s = Body(p, n) THEN FunctionVariables(x, n, FunctionAround(p, n)) ELSE {})
    BY AppendedVariables
  <2> QED BY <1>2, <2>1
<1>4. DeclaredVariables(q, 1, n) = {}
  BY AppendedVariables
<1>5. PICK ws : ws = Including(vs, n, <<>>)
  OBVIOUS
<1>6. DOMAIN ws = ScopesOf(q) /\ ws[n] = <<>> /\ \A s \in ScopesOf(p) : ws[s] = vs[s]
  BY <1>1, <1>5 DEF Including, AreDeclared
<1>7. AreDeclared(q, 1, ws)
  BY <1>1, <1>3, <1>4, <1>6, NoVariables DEF AreDeclared
<1> QED BY <1>5, <1>7

(* A function is put into the scope around it.                              *)
IsFunctionVariable(v, p, x, n) ==
  v = NewVariable(n, x.name, "user_function", FunctionAround(p, n), FALSE)
IsPutInto(v, vs, ws, h, n) ==
  /\ DOMAIN ws = DOMAIN vs \cup {n} /\ ws[h] = Append(vs[h], v) /\ ws[n] = <<>>
  /\ \A s \in DOMAIN vs \ {h} : ws[s] = vs[s]
LEMMA VariablesOfAFunction ==
  ASSUME NEW p, NEW x, NEW q, NEW n, IsAppended(p, x, q, n), x.kind = "function",
         NEW vs, AreDeclared(p, 1, vs), NEW v \in Variable, IsFunctionVariable(v, p, x, n),
         NEW h, h = Body(p, n), \A u \in ToSet(vs[h]) : u.name # x.name,
         NEW ws, IsPutInto(v, vs, ws, h, n)
  PROVE  AreDeclared(q, 1, ws)
<1> USE DEF IsFunctionVariable, IsPutInto
<1>1. ScopesOf(q) = ScopesOf(p) \cup {n} /\ n \notin ScopesOf(p)
  BY AppendedScopes DEF Begins
<1>2. FunctionVariables(x, n, FunctionAround(p, n)) = {v}
  BY DEF FunctionVariables
<1>3. DOMAIN vs = ScopesOf(p)
  BY DEF AreDeclared
<1>4. \A s \in ScopesOf(p) : DeclaredVariables(q, 1, s) = DeclaredVariables(p, 1, s) \cup (IF s = h THEN {v} ELSE {})
  <2>1. \A s \in ScopesOf(p) :
          DeclaredVariables(q, 1, s) = DeclaredVariables(p, 1, s) \cup
            (IF s = Body(p, n) THEN FunctionVariables(x, n, FunctionAround(p, n)) ELSE {})
    BY AppendedVariables
  <2> QED BY <1>2, <2>1
<1>5. DeclaredVariables(q, 1, n) = {}
  BY AppendedVariables
<1>6. h \in ScopesOf(p)
  <2>1. Nested(p) /\ n \in 1..(Len(p) + 1)
    BY AppendedItem DEF IsAppended
  <2> QED BY <2>1, ScopesAroundAnItem
<1>7. v.name = x.name
  BY DEF NewVariable
<1>8. /\ ws[h] \in Seq(Variable) /\ NamesDiffer(ws[h])
      /\ ToSet(ws[h]) = DeclaredVariables(q, 1, h)
  <2>1. vs[h] \in Seq(Variable) /\ NamesDiffer(vs[h]) /\ ToSet(vs[h]) = DeclaredVariables(p, 1, h)
    BY <1>6 DEF AreDeclared
  <2>2. DeclaredVariables(q, 1, h) = DeclaredVariables(p, 1, h) \cup {v}
    BY <1>4, <1>6
  <2>3. PICK us : us = vs[h]
    OBVIOUS
  <2>4. /\ Append(us, v) \in Seq(Variable) /\ NamesDiffer(Append(us, v))
        /\ ToSet(Append(us, v)) = ToSet(us) \cup {v}
    <3>1. us \in Seq(Variable) /\ NamesDiffer(us) /\ \A u \in ToSet(us) : u.name # v.name
      BY <1>7, <2>1, <2>3
    <3> QED BY <3>1, VariableIsAdded
  <2> QED BY <2>1, <2>2, <2>3, <2>4
<1>9. ASSUME NEW s \in ScopesOf(q)
      PROVE  ws[s] \in Seq(Variable) /\ NamesDiffer(ws[s]) /\ ToSet(ws[s]) = DeclaredVariables(q, 1, s)
  <2>1. CASE s = h
    BY <1>8, <2>1
  <2>2. CASE s = n
    BY <1>5, <2>2, NoVariables
  <2>3. CASE s \in ScopesOf(p) /\ s # h
    BY <1>3, <1>4, <2>3 DEF AreDeclared
  <2> QED BY <1>1, <2>1, <2>2, <2>3
<1> QED BY <1>1, <1>3, <1>9 DEF AreDeclared

-----------------------------------------------------------------------------
(* The Variables that are gathered for a function.                          *)

(* r has the elements of q that are in W, at the places h.                  *)
IsSelection(r, q, W, T, h) ==
  /\ r \in Seq(T) /\ h \in [DOMAIN r -> DOMAIN q]
  /\ \A k \in DOMAIN r : r[k] = q[h[k]] /\ r[k] \in W
  /\ \A j, k \in DOMAIN r : j < k => h[j] < h[k]

(* f[n] are the elements of q up to n that are in W.                        *)
Selects(f, q, W, T) ==
  /\ f \in [0..Len(q) -> Seq(T)] /\ f[0] = <<>>
  /\ \A n \in 1..Len(q) : f[n] = IF q[n] \in W THEN Append(f[n - 1], q[n]) ELSE f[n - 1]

(* What Selected is recursively.                                            *)
LEMMA SelectedStep ==
  ASSUME NEW T, NEW q \in Seq(T), NEW W
  PROVE  \E f : Selects(f, q, W, T) /\ Selected(q, W) = f[Len(q)]
<1> DEFINE D == 0..Len(q)
           V == Seq(T)
           Base == {0}
           base == [n \in Base |-> <<>>]
           before == [n \in D \ Base |-> n - 1]
           step == [n \in D \ Base |-> [v \in V |-> IF q[n] \in W THEN Append(v, q[n]) ELSE v]]
           rank == [n \in D |-> n]
           IsSelected(selected) ==
             selected = [n \in 0..Len(q) |->
               IF n = 0 THEN <<>>
               ELSE IF q[n] \in W THEN Append(selected[n - 1], q[n])
               ELSE selected[n - 1]]
<1>1. Recursion(D, V, rank, Base, base, before, step)
  <2>1. rank \in [D -> Nat] /\ Base \in SUBSET D
    OBVIOUS
  <2>2. base \in [Base -> V]
    OBVIOUS
  <2>3. before \in [D \ Base -> D] /\ \A n \in D \ Base : rank[before[n]] < rank[n]
    OBVIOUS
  <2>4. step \in [D \ Base -> [V -> V]]
    <3>1. ASSUME NEW n \in D \ Base, NEW v \in V PROVE Append(v, q[n]) \in V
      <4>1. q[n] \in T
        OBVIOUS
      <4> QED BY <4>1, ElementAppended
    <3> QED BY <3>1
  <2> HIDE DEF D, V, Base, base, before, step, rank
  <2> QED BY <2>1, <2>2, <2>3, <2>4 DEF Recursion
<1>2. PICK f \in [D -> V] : Satisfies(f, D, Base, base, before, step)
  <2> HIDE DEF D, V, Base, base, before, step, rank
  <2> QED BY <1>1, RecursiveFunctionExists
<1>3. \A n \in D : f[n] = IF n = 0 THEN <<>>
                          ELSE IF q[n] \in W THEN Append(f[n - 1], q[n]) ELSE f[n - 1]
  <2> TAKE n \in D
  <2>1. f[n] = IF n \in Base THEN base[n] ELSE step[n][f[before[n]]]
    BY <1>2 DEF Satisfies
  <2>2. CASE n \in Base
    BY <2>1, <2>2
  <2>3. CASE n \notin Base
    <3>1. before[n] = n - 1 /\ n - 1 \in D
      BY <2>3
    <3>2. f[n - 1] \in V
      <4> HIDE DEF D, V
      <4> QED BY <3>1
    <3>3. step[n][f[n - 1]] = IF q[n] \in W THEN Append(f[n - 1], q[n]) ELSE f[n - 1]
      BY <2>3, <3>2
    <3> QED BY <2>1, <2>3, <3>1, <3>3
  <2> QED BY <2>2, <2>3
<1>4. \E h : IsSelected(h)
  <2>1. IsSelected(f)
    <3> HIDE DEF V
    <3> QED BY <1>3
  <2> QED BY <2>1
<1> DEFINE c == CHOOSE h : IsSelected(h)
<1>5. IsSelected(c)
  BY <1>4
<1>6. Selected(q, W) = c[Len(q)]
  BY DEF Selected
<1> HIDE DEF c
<1>7. \A n \in D : c[n] = IF n = 0 THEN <<>>
                          ELSE IF q[n] \in W THEN Append(c[n - 1], q[n]) ELSE c[n - 1]
  BY <1>5
<1>8. c \in [D -> V]
  <2> DEFINE S == {n \in Nat : n \in D => c[n] \in V}
  <2>1. 0 \in S
    <3>1. 0 \in D /\ <<>> \in V
      OBVIOUS
    <3> QED BY <1>7, <3>1
  <2>2. ASSUME NEW n \in Nat, n \in S, n + 1 \in D PROVE c[n + 1] \in V
    <3>1. (n + 1) - 1 = n /\ n + 1 # 0 /\ n \in D /\ n + 1 \in 1..Len(q)
      BY <2>2
    <3>2. c[n] \in V /\ q[n + 1] \in T
      BY <2>2, <3>1
    <3>3. c[n + 1] = IF q[n + 1] \in W THEN Append(c[n], q[n + 1]) ELSE c[n]
      BY <1>7, <2>2, <3>1
    <3>4. Append(c[n], q[n + 1]) \in V
      BY <3>2, ElementAppended
    <3> QED BY <3>2, <3>3, <3>4
  <2>3. \A n \in Nat : n \in S => n + 1 \in S
    BY <2>2
  <2>4. \A n \in Nat : n \in S
    <3> HIDE DEF S
    <3> QED BY <2>1, <2>3, Induction
  <2>5. \A n \in D : c[n] \in V
    BY <2>4
  <2>6. DOMAIN c = D /\ c = [n \in DOMAIN c |-> c[n]]
    BY <1>5
  <2> HIDE DEF D, V
  <2> QED BY <2>5, <2>6
<1>9. Selects(c, q, W, T)
  <2>1. c[0] = <<>>
    <3>1. 0 \in D
      OBVIOUS
    <3> QED BY <1>7, <3>1
  <2>2. ASSUME NEW n \in 1..Len(q)
        PROVE  c[n] = IF q[n] \in W THEN Append(c[n - 1], q[n]) ELSE c[n - 1]
    <3>1. n \in D /\ n # 0
      OBVIOUS
    <3> QED BY <1>7, <3>1
  <2> QED BY <1>8, <2>1, <2>2 DEF Selects
<1> QED BY <1>6, <1>9

(* Selected takes elements of the sequence, in their order.                 *)
LEMMA SelectedElements ==
  ASSUME NEW T, NEW q \in Seq(T), NEW W
  PROVE  \E h : IsSelection(Selected(q, W), q, W, T, h)
<1>0. PICK f : Selects(f, q, W, T) /\ Selected(q, W) = f[Len(q)]
  BY SelectedStep
<1>1. /\ f \in [0..Len(q) -> Seq(T)] /\ f[0] = <<>> /\ Selected(q, W) = f[Len(q)]
      /\ \A n \in 1..Len(q) : f[n] = IF q[n] \in W THEN Append(f[n - 1], q[n]) ELSE f[n - 1]
  BY <1>0 DEF Selects
<1> DEFINE Taken(n, h) ==
             /\ h \in [DOMAIN f[n] -> 1..n]
             /\ \A k \in DOMAIN f[n] : f[n][k] = q[h[k]] /\ f[n][k] \in W
             /\ \A j, k \in DOMAIN f[n] : j < k => h[j] < h[k]
           S == {n \in Nat : n <= Len(q) => \E h : Taken(n, h)}
<1>2. 0 \in S
  <2>1. DOMAIN f[0] = {}
    BY <1>1
  <2>2. Taken(0, [k \in {} |-> k])
    BY <2>1
  <2> QED BY <2>2
<1>3. ASSUME NEW n \in Nat, n \in S, n + 1 <= Len(q) PROVE \E h : Taken(n + 1, h)
  <2>1. n + 1 \in 1..Len(q) /\ (n + 1) - 1 = n /\ n \in 0..Len(q) /\ n <= Len(q)
    BY <1>3
  <2>2. f[n + 1] = IF q[n + 1] \in W THEN Append(f[n], q[n + 1]) ELSE f[n]
    BY <1>1, <2>1
  <2>3. PICK h : Taken(n, h)
    BY <1>3, <2>1
  <2>4. CASE q[n + 1] \notin W
    <3>1. f[n + 1] = f[n]
      BY <2>2, <2>4
    <3>2. h \in [DOMAIN f[n] -> 1..(n + 1)]
      <4>1. \A k \in DOMAIN f[n] : h[k] \in 1..n
        BY <2>3
      <4>2. \A m \in 1..n : m \in 1..(n + 1)
        OBVIOUS
      <4> QED BY <2>3, <4>1, <4>2
    <3> QED BY <2>3, <3>1, <3>2
  <2>5. CASE q[n + 1] \in W
    <3>1. PICK r, e : r = f[n] /\ e = q[n + 1]
      OBVIOUS
    <3>2. r \in Seq(T) /\ e \in T /\ f[n + 1] = Append(r, e)
      <4>1. f[n] \in Seq(T) /\ q[n + 1] \in T
        BY <1>1, <2>1
      <4> QED BY <2>2, <2>5, <3>1, <4>1
    <3>3. PICK u : u = Append(r, e)
      OBVIOUS
    <3>4. /\ DOMAIN u = DOMAIN r \cup {Len(r) + 1} /\ Len(r) + 1 \notin DOMAIN r
          /\ u[Len(r) + 1] = e /\ \A i \in DOMAIN r : u[i] = r[i]
      BY <3>2, <3>3, ElementAppended
    <3>5. DOMAIN r = 1..Len(r) /\ Len(r) \in Nat
      BY <3>2
    <3> DEFINE g == [k \in DOMAIN u |-> IF k \in DOMAIN r THEN h[k] ELSE n + 1]
    <3>6. \A k \in DOMAIN r : h[k] \in 1..n /\ r[k] = q[h[k]] /\ r[k] \in W
      BY <2>3, <3>1
    <3>7. g \in [DOMAIN u -> 1..(n + 1)]
      BY <3>6
    <3>8. \A k \in DOMAIN u : u[k] = q[g[k]] /\ u[k] \in W
      BY <2>5, <3>1, <3>4, <3>6
    <3>9. ASSUME NEW j \in DOMAIN u, NEW k \in DOMAIN u, j < k PROVE g[j] < g[k]
      <4>1. j \in DOMAIN r
        BY <3>4, <3>5, <3>9
      <4>2. CASE k \in DOMAIN r
        BY <2>3, <3>1, <3>9, <4>1, <4>2
      <4>3. CASE k \notin DOMAIN r
        <5>1. g[k] = n + 1 /\ g[j] = h[j] /\ h[j] \in 1..n
          BY <3>6, <4>1, <4>3
        <5> HIDE DEF g
        <5> QED BY <5>1
      <4> QED BY <4>2, <4>3
    <3>10. f[n + 1] = u
      BY <3>2, <3>3
    <3> HIDE DEF g
    <3>11. Taken(n + 1, g)
      BY <3>7, <3>8, <3>9, <3>10
    <3> QED BY <3>11
  <2> QED BY <2>4, <2>5
<1>4. \A n \in Nat : n \in S
  <2>1. ASSUME NEW n \in Nat, n \in S PROVE n + 1 \in S
    <3>1. n + 1 \in Nat
      OBVIOUS
    <3>2. n + 1 <= Len(q) => \E h : Taken(n + 1, h)
      BY <1>3, <2>1
    <3> HIDE DEF Taken
    <3> QED BY <3>1, <3>2
  <2> HIDE DEF S
  <2> QED BY <1>2, <2>1, Induction
<1>5. PICK m : m = Len(q)
  OBVIOUS
<1>6. m \in Nat /\ DOMAIN q = 1..m /\ m \in 0..m
  BY <1>5
<1>7. PICK h : Taken(m, h)
  <2>1. m \in S /\ m <= Len(q)
    BY <1>4, <1>5, <1>6
  <2> HIDE DEF Taken
  <2> QED BY <2>1
<1>8. Selected(q, W) = f[m] /\ f[m] \in Seq(T)
  BY <1>1, <1>5, <1>6
<1>9. IsSelection(Selected(q, W), q, W, T, h)
  BY <1>6, <1>7, <1>8 DEF IsSelection
<1> QED BY <1>9

(* The elements of two sequences put together.                              *)
LEMMA ElementsOfConcatenation ==
  ASSUME NEW T, NEW q \in Seq(T), NEW r \in Seq(T)
  PROVE  /\ q \o r \in Seq(T) /\ Len(q \o r) = Len(q) + Len(r)
         /\ \A i \in 1..Len(q) : (q \o r)[i] = q[i]
         /\ \A i \in (Len(q) + 1)..Len(q \o r) : i - Len(q) \in DOMAIN r /\ (q \o r)[i] = r[i - Len(q)]
         /\ ToSet(q \o r) = ToSet(q) \cup ToSet(r)
<1>1. PICK u : u = q \o r
  OBVIOUS
<1>2. /\ u \in Seq(T) /\ Len(u) = Len(q) + Len(r)
      /\ \A i \in 1..Len(q) : u[i] = q[i]
      /\ \A i \in (Len(q) + 1)..Len(u) : i - Len(q) \in DOMAIN r /\ u[i] = r[i - Len(q)]
  BY <1>1
<1>3. ToSet(u) \subseteq ToSet(q) \cup ToSet(r)
  <2>1. ASSUME NEW i \in 1..Len(u) PROVE u[i] \in ToSet(q) \cup ToSet(r)
    <3>1. i \in 1..Len(q) \/ i \in (Len(q) + 1)..Len(u)
      OBVIOUS
    <3> QED BY <1>2, <3>1 DEF ToSet
  <2> QED BY <1>2, <2>1 DEF ToSet
<1>4. ToSet(q) \subseteq ToSet(u)
  <2>1. ASSUME NEW i \in DOMAIN q PROVE i \in DOMAIN u /\ u[i] = q[i]
    BY <1>2
  <2> QED BY <2>1 DEF ToSet
<1>5. ToSet(r) \subseteq ToSet(u)
  <2>1. ASSUME NEW i \in DOMAIN r PROVE r[i] \in ToSet(u)
    <3>1. /\ i + Len(q) \in (Len(q) + 1)..Len(u) /\ (i + Len(q)) - Len(q) = i
          /\ i + Len(q) \in DOMAIN u
      BY <1>2
    <3>2. u[i + Len(q)] = r[i]
      BY <1>2, <3>1
    <3> QED BY <3>1, <3>2 DEF ToSet
  <2> QED BY <2>1 DEF ToSet
<1> QED BY <1>1, <1>2, <1>3, <1>4, <1>5

(* c[n] are the first n parts put together.                                 *)
Flattens(c, qs, T) ==
  /\ c \in [1..Len(qs) -> Seq(T)]
  /\ \A n \in 1..Len(qs) : c[n] = IF n = 1 THEN qs[n] ELSE c[n - 1] \o qs[n]

(* What FlattenSeq is recursively.                                          *)
LEMMA FlattenedStep ==
  ASSUME NEW T, NEW qs \in Seq(Seq(T)), Len(qs) # 0
  PROVE  \E c : Flattens(c, qs, T) /\ FlattenSeq(qs) = c[Len(qs)]
<1> DEFINE D == 1..Len(qs)
           V == Seq(T)
           Base == {1}
           base == [n \in Base |-> qs[n]]
           before == [n \in D \ Base |-> n - 1]
           step == [n \in D \ Base |-> [v \in V |-> v \o qs[n]]]
           rank == [n \in D |-> n]
           IsFlatten(flatten) ==
             flatten = [i \in 1..Len(qs) |-> IF i = 1 THEN qs[i] ELSE flatten[i - 1] \o qs[i]]
<1>0. 1 \in D /\ Len(qs) \in D /\ DOMAIN qs = D
  OBVIOUS
<1>1. Recursion(D, V, rank, Base, base, before, step)
  <2>1. rank \in [D -> Nat] /\ Base \in SUBSET D
    BY <1>0
  <2>2. base \in [Base -> V]
    BY <1>0
  <2>3. before \in [D \ Base -> D] /\ \A n \in D \ Base : rank[before[n]] < rank[n]
    OBVIOUS
  <2>4. step \in [D \ Base -> [V -> V]]
    <3>1. ASSUME NEW n \in D \ Base, NEW v \in V PROVE v \o qs[n] \in V
      <4>1. qs[n] \in Seq(T)
        OBVIOUS
      <4> QED BY <4>1
    <3> QED BY <3>1
  <2> HIDE DEF D, V, Base, base, before, step, rank
  <2> QED BY <2>1, <2>2, <2>3, <2>4 DEF Recursion
<1>2. PICK f \in [D -> V] : Satisfies(f, D, Base, base, before, step)
  <2> HIDE DEF D, V, Base, base, before, step, rank
  <2> QED BY <1>1, RecursiveFunctionExists
<1>3. \A n \in D : f[n] = IF n = 1 THEN qs[n] ELSE f[n - 1] \o qs[n]
  <2> TAKE n \in D
  <2>1. f[n] = IF n \in Base THEN base[n] ELSE step[n][f[before[n]]]
    BY <1>2 DEF Satisfies
  <2>2. CASE n \in Base
    BY <2>1, <2>2
  <2>3. CASE n \notin Base
    <3>1. before[n] = n - 1 /\ n - 1 \in D
      BY <2>3
    <3>2. f[n - 1] \in V
      <4> HIDE DEF D, V
      <4> QED BY <3>1
    <3>3. step[n][f[n - 1]] = f[n - 1] \o qs[n]
      BY <2>3, <3>2
    <3> QED BY <2>1, <2>3, <3>1, <3>3
  <2> QED BY <2>2, <2>3
<1>4. \E h : IsFlatten(h)
  <2>1. IsFlatten(f)
    <3> HIDE DEF V
    <3> QED BY <1>3
  <2> QED BY <2>1
<1> DEFINE c == CHOOSE h : IsFlatten(h)
<1>5. IsFlatten(c)
  BY <1>4
<1>6. FlattenSeq(qs) = c[Len(qs)]
  BY DEF FlattenSeq
<1> HIDE DEF c
<1>7. DOMAIN c = D /\ \A n \in D : c[n] = IF n = 1 THEN qs[n] ELSE c[n - 1] \o qs[n]
  BY <1>5
<1>8. \A n \in D : c[n] \in V
  <2> DEFINE S == {n \in Nat : n \in D => c[n] \in V}
  <2>1. 0 \in S
    OBVIOUS
  <2>2. ASSUME NEW n \in Nat, n \in S, n + 1 \in D PROVE c[n + 1] \in V
    <3>1. qs[n + 1] \in Seq(T)
      BY <1>0, <2>2, ElementType
    <3>2. CASE n = 0
      <4>1. n + 1 = 1 /\ n + 1 \in D
        BY <2>2, <3>2
      <4>2. c[n + 1] = qs[n + 1]
        BY <1>7, <4>1
      <4> QED BY <3>1, <4>2
    <3>3. CASE n # 0
      <4>1. n \in D /\ (n + 1) - 1 = n /\ n + 1 # 1
        BY <2>2, <3>3
      <4>2. c[n + 1] = c[n] \o qs[n + 1] /\ c[n] \in Seq(T)
        BY <1>7, <2>2, <4>1
      <4> QED BY <3>1, <4>2, ElementsOfConcatenation
    <3> QED BY <3>2, <3>3
  <2>3. \A n \in Nat : n \in S
    <3>1. ASSUME NEW n \in Nat, n \in S PROVE n + 1 \in S
      BY <2>2, <3>1
    <3> HIDE DEF S
    <3> QED BY <2>1, <3>1, Induction
  <2> QED BY <2>3
<1>9. c \in [D -> V]
  <2>1. c = [n \in DOMAIN c |-> c[n]]
    BY <1>5
  <2> HIDE DEF D, V
  <2> QED BY <1>7, <1>8, <2>1
<1>10. Flattens(c, qs, T)
  BY <1>7, <1>9 DEF Flattens
<1> QED BY <1>6, <1>10

(* The elements of a flattened sequence of sequences are those of the parts.*)
LEMMA FlattenedElements ==
  ASSUME NEW T, NEW qs \in Seq(Seq(T))
  PROVE  /\ FlattenSeq(qs) \in Seq(T)
         /\ \A x : x \in ToSet(FlattenSeq(qs)) <=> \E k \in DOMAIN qs : x \in ToSet(qs[k])
<1>1. CASE Len(qs) = 0
  <2>1. FlattenSeq(qs) = qs
    BY <1>1 DEF FlattenSeq
  <2>2. qs = <<>>
    BY <1>1
  <2>3. <<>> \in Seq(T) /\ ToSet(<<>>) = {}
    BY DEF ToSet
  <2> QED BY <2>1, <2>2, <2>3
<1>2. CASE Len(qs) # 0
  <2>1. PICK c : Flattens(c, qs, T) /\ FlattenSeq(qs) = c[Len(qs)]
    BY <1>2, FlattenedStep
  <2>0. DOMAIN qs = 1..Len(qs) /\ Len(qs) \in Nat \ {0}
    BY <1>2
  <2>2. /\ c \in [1..Len(qs) -> Seq(T)] /\ DOMAIN qs = 1..Len(qs) /\ Len(qs) \in Nat \ {0}
        /\ \A n \in 1..Len(qs) : c[n] = IF n = 1 THEN qs[n] ELSE c[n - 1] \o qs[n]
    BY <2>0, <2>1 DEF Flattens
  <2> DEFINE OfTheParts(n) ==
               \A x : x \in ToSet(c[n]) <=> \E k \in 1..n : x \in ToSet(qs[k])
             S == {n \in Nat : n \in 1..Len(qs) => OfTheParts(n)}
  <2>3. 0 \in S
    OBVIOUS
  <2>4. ASSUME NEW n \in Nat, n \in S, n + 1 \in 1..Len(qs) PROVE OfTheParts(n + 1)
    <3>1. PICK r : r = qs[n + 1]
      OBVIOUS
    <3>2. r \in Seq(T)
      BY <2>2, <2>4, <3>1, ElementType
    <3>3. CASE n = 0
      <4>1. c[n + 1] = r /\ 1..(n + 1) = {n + 1}
        BY <2>2, <2>4, <3>1, <3>3
      <4> QED BY <3>1, <4>1
    <3>4. CASE n # 0
      <4>1. n \in 1..Len(qs) /\ (n + 1) - 1 = n /\ n + 1 # 1 /\ 1..(n + 1) = 1..n \cup {n + 1}
        BY <2>4, <3>4
      <4>2. PICK v, w : v = c[n] /\ w = v \o r
        OBVIOUS
      <4>3. c[n + 1] = w /\ v \in Seq(T)
        BY <2>2, <2>4, <3>1, <4>1, <4>2
      <4>4. OfTheParts(n)
        BY <2>4, <4>1
      <4>5. ToSet(w) = ToSet(v) \cup ToSet(r)
        BY <3>2, <4>2, <4>3, ElementsOfConcatenation
      <4>6. ASSUME NEW x
            PROVE  x \in ToSet(w) <=> \E k \in 1..(n + 1) : x \in ToSet(qs[k])
        <5>1. x \in ToSet(v) <=> \E k \in 1..n : x \in ToSet(qs[k])
          BY <4>2, <4>4
        <5> QED BY <3>1, <4>1, <4>5, <5>1
      <4> QED BY <4>3, <4>6
    <3> QED BY <3>3, <3>4
  <2>5. \A n \in Nat : n \in S
    <3>1. ASSUME NEW n \in Nat, n \in S PROVE n + 1 \in S
      <4>1. n + 1 \in Nat
        OBVIOUS
      <4>2. n + 1 \in 1..Len(qs) => OfTheParts(n + 1)
        BY <2>4, <3>1
      <4> HIDE DEF OfTheParts
      <4> QED BY <4>1, <4>2
    <3> HIDE DEF S
    <3> QED BY <2>3, <3>1, Induction
  <2>6. OfTheParts(Len(qs))
    <3>1. Len(qs) \in Nat /\ Len(qs) \in 1..Len(qs)
      BY <2>2
    <3> HIDE DEF OfTheParts
    <3> QED BY <2>5, <3>1
  <2>7. FlattenSeq(qs) \in Seq(T)
    <3>1. Len(qs) \in 1..Len(qs)
      BY <2>2
    <3>2. c \in [1..Len(qs) -> Seq(T)]
      BY <2>2
    <3>3. c[Len(qs)] \in Seq(T)
      BY <3>1, <3>2
    <3> QED BY <2>1, <3>3
  <2> QED BY <2>1, <2>2, <2>6, <2>7
<1> QED BY <1>1, <1>2

(* Something is in a sequence at two places.                                *)
Twice(q, x) == \E j, k \in DOMAIN q : j # k /\ q[j] = x /\ q[k] = x

LEMMA TwiceInConcatenation ==
  ASSUME NEW T, NEW q \in Seq(T), NEW r \in Seq(T), NEW x,
         Twice(q, x) \/ Twice(r, x) \/ x \in ToSet(q) \cap ToSet(r)
  PROVE  Twice(q \o r, x)
<1>1. PICK u : u = q \o r
  OBVIOUS
<1>2. /\ u \in Seq(T) /\ Len(u) = Len(q) + Len(r) /\ Len(q) \in Nat /\ Len(r) \in Nat
      /\ \A i \in 1..Len(q) : u[i] = q[i]
      /\ \A i \in (Len(q) + 1)..Len(u) : i - Len(q) \in DOMAIN r /\ u[i] = r[i - Len(q)]
      /\ DOMAIN q = 1..Len(q) /\ DOMAIN r = 1..Len(r) /\ DOMAIN u = 1..Len(u)
  BY <1>1, ElementsOfConcatenation
<1>3. \A i \in DOMAIN q : i \in DOMAIN u /\ u[i] = q[i] /\ i <= Len(q)
  BY <1>2
<1>4. ASSUME NEW i \in DOMAIN r
      PROVE  i + Len(q) \in DOMAIN u /\ u[i + Len(q)] = r[i] /\ i + Len(q) > Len(q)
  <2>1. i + Len(q) \in (Len(q) + 1)..Len(u) /\ (i + Len(q)) - Len(q) = i /\ i + Len(q) \in 1..Len(u)
        /\ i + Len(q) > Len(q)
    BY <1>2
  <2> QED BY <1>2, <2>1
<1>5. CASE Twice(q, x)
  BY <1>1, <1>3, <1>5 DEF Twice
<1>6. CASE Twice(r, x)
  <2>1. PICK j \in DOMAIN r, k \in DOMAIN r : j # k /\ r[j] = x /\ r[k] = x
    BY <1>6 DEF Twice
  <2>2. j + Len(q) # k + Len(q)
    BY <1>2, <2>1
  <2> QED BY <1>1, <1>4, <2>1, <2>2 DEF Twice
<1>7. CASE x \in ToSet(q) \cap ToSet(r)
  <2>1. PICK j \in DOMAIN q, k \in DOMAIN r : q[j] = x /\ r[k] = x
    BY <1>7 DEF ToSet
  <2>2. j # k + Len(q)
    BY <1>2, <1>3, <1>4, <2>1
  <2> QED BY <1>1, <1>3, <1>4, <2>1, <2>2 DEF Twice
<1> QED BY <1>5, <1>6, <1>7

(* What is in two parts is twice in the whole.                              *)
LEMMA FlattenedTwice ==
  ASSUME NEW T, NEW qs \in Seq(Seq(T)), NEW x, NEW a \in DOMAIN qs, NEW b \in DOMAIN qs, a < b,
         x \in ToSet(qs[a]), x \in ToSet(qs[b])
  PROVE  Twice(FlattenSeq(qs), x)
<1>1. Len(qs) \in Nat \ {0} /\ DOMAIN qs = 1..Len(qs) /\ a \in 1..Len(qs) /\ b \in 1..Len(qs)
  OBVIOUS
<1>2. PICK c : Flattens(c, qs, T) /\ FlattenSeq(qs) = c[Len(qs)]
  BY <1>1, FlattenedStep
<1>3. /\ c \in [1..Len(qs) -> Seq(T)]
      /\ \A n \in 1..Len(qs) : c[n] = IF n = 1 THEN qs[n] ELSE c[n - 1] \o qs[n]
  BY <1>2 DEF Flattens
<1> DEFINE Holds(n) == /\ a <= n => x \in ToSet(c[n])
                       /\ b <= n => Twice(c[n], x)
           S == {n \in Nat : n \in 1..Len(qs) => Holds(n)}
<1>4. 0 \in S
  OBVIOUS
<1>5. ASSUME NEW n \in Nat, n \in S, n + 1 \in 1..Len(qs) PROVE Holds(n + 1)
  <2>1. PICK r : r = qs[n + 1]
    OBVIOUS
  <2>2. r \in Seq(T) /\ (a = n + 1 \/ b = n + 1 => x \in ToSet(r))
    BY <1>1, <1>5, <2>1, ElementType
  <2>3. CASE n = 0
    <3>0. n + 1 = 1
      BY <2>3
    <3>1. c[n + 1] = r
      BY <1>3, <1>5, <2>1, <3>0
    <3>2. ~(b <= n + 1) /\ (a <= n + 1 => a = n + 1)
      BY <1>1, <2>3
    <3> QED BY <2>2, <3>1, <3>2
  <2>4. CASE n # 0
    <3>1. n \in 1..Len(qs) /\ (n + 1) - 1 = n /\ n + 1 # 1
      BY <1>5, <2>4
    <3>2. PICK v, w : v = c[n] /\ w = v \o r
      OBVIOUS
    <3>3. c[n + 1] = w /\ v \in Seq(T)
      BY <1>3, <1>5, <2>1, <3>1, <3>2
    <3>4. (a <= n => x \in ToSet(v)) /\ (b <= n => Twice(v, x))
      BY <1>5, <3>1, <3>2
    <3>5. ToSet(w) = ToSet(v) \cup ToSet(r)
      BY <2>2, <3>2, <3>3, ElementsOfConcatenation
    <3>6. a <= n + 1 => x \in ToSet(w)
      <4>1. a <= n + 1 => a <= n \/ a = n + 1
        BY <1>1
      <4> QED BY <2>2, <3>4, <3>5, <4>1
    <3>7. b <= n + 1 => Twice(w, x)
      <4>1. b <= n + 1 => b <= n \/ (b = n + 1 /\ a <= n)
        BY <1>1
      <4>2. Twice(v, x) \/ x \in ToSet(v) \cap ToSet(r) => Twice(w, x)
        BY <2>2, <3>2, <3>3, TwiceInConcatenation
      <4> QED BY <2>2, <3>4, <4>1, <4>2
    <3> QED BY <3>3, <3>6, <3>7
  <2> QED BY <2>3, <2>4
<1>6. \A n \in Nat : n \in S
  <2>1. ASSUME NEW n \in Nat, n \in S PROVE n + 1 \in S
    <3>1. n + 1 \in Nat
      OBVIOUS
    <3>2. n + 1 \in 1..Len(qs) => Holds(n + 1)
      BY <1>5, <2>1
    <3> HIDE DEF Holds
    <3> QED BY <3>1, <3>2
  <2> HIDE DEF S
  <2> QED BY <1>4, <2>1, Induction
<1>7. Holds(Len(qs))
  <2>1. Len(qs) \in Nat /\ Len(qs) \in 1..Len(qs)
    BY <1>1
  <2> HIDE DEF Holds
  <2> QED BY <1>6, <2>1
<1>8. b <= Len(qs)
  BY <1>1
<1> QED BY <1>2, <1>7, <1>8

(* What is wanted is selected wherever it is.                               *)
LEMMA SelectedAll ==
  ASSUME NEW T, NEW q \in Seq(T), NEW W
  PROVE  /\ Selected(q, W) \in Seq(T)
         /\ ToSet(Selected(q, W)) = ToSet(q) \cap W
         /\ \A x \in W : Twice(q, x) => Twice(Selected(q, W), x)
<1>1. PICK f : Selects(f, q, W, T) /\ Selected(q, W) = f[Len(q)]
  BY SelectedStep
<1>2. /\ f \in [0..Len(q) -> Seq(T)] /\ f[0] = <<>> /\ Len(q) \in Nat /\ DOMAIN q = 1..Len(q)
      /\ \A n \in 1..Len(q) : f[n] = IF q[n] \in W THEN Append(f[n - 1], q[n]) ELSE f[n - 1]
  BY <1>1 DEF Selects
<1> DEFINE Holds(n) ==
             /\ \A i \in 1..n : q[i] \in W => q[i] \in ToSet(f[n])
             /\ \A i, j \in 1..n : i < j /\ q[i] = q[j] /\ q[i] \in W => Twice(f[n], q[i])
           S == {n \in Nat : n \in 0..Len(q) => Holds(n)}
<1>3. 0 \in S
  OBVIOUS
<1>4. ASSUME NEW n \in Nat, n \in S, n + 1 \in 0..Len(q) PROVE Holds(n + 1)
  <2>1. /\ n + 1 \in 1..Len(q) /\ (n + 1) - 1 = n /\ n \in 0..Len(q)
        /\ \A i \in 1..(n + 1) : i \in 1..n \/ i = n + 1
    BY <1>4
  <2>2. PICK r, e, u : r = f[n] /\ e = q[n + 1] /\ u = Append(r, e)
    OBVIOUS
  <2>3. r \in Seq(T) /\ e \in T /\ Holds(n) /\ f[n + 1] = IF e \in W THEN u ELSE r
    BY <1>2, <1>4, <2>1, <2>2
  <2>4. CASE e \notin W
    BY <2>1, <2>2, <2>3, <2>4
  <2>5. CASE e \in W
    <3>1. /\ DOMAIN u = DOMAIN r \cup {Len(r) + 1} /\ Len(r) + 1 \notin DOMAIN r
          /\ u[Len(r) + 1] = e /\ \A i \in DOMAIN r : u[i] = r[i]
      BY <2>2, <2>3, ElementAppended
    <3>2. \A x : x \in ToSet(r) \/ x = e => x \in ToSet(u)
      BY <3>1 DEF ToSet
    <3>3. \A x : Twice(r, x) \/ (x \in ToSet(r) /\ x = e) => Twice(u, x)
      BY <3>1 DEF ToSet, Twice
    <3>4. \A i \in 1..(n + 1) : q[i] \in W => q[i] \in ToSet(u)
      BY <2>1, <2>2, <2>3, <3>2
    <3>5. ASSUME NEW i \in 1..(n + 1), NEW j \in 1..(n + 1), i < j, q[i] = q[j], q[i] \in W
          PROVE  Twice(u, q[i])
      <4>1. i \in 1..n
        BY <3>5
      <4>2. CASE j \in 1..n
        BY <2>2, <2>3, <3>3, <3>5, <4>1, <4>2
      <4>3. CASE j = n + 1
        BY <2>2, <2>3, <3>3, <3>5, <4>1, <4>3
      <4> QED BY <2>1, <4>2, <4>3
    <3> QED BY <2>3, <2>5, <3>4, <3>5
  <2> QED BY <2>4, <2>5
<1>5. \A n \in Nat : n \in S
  <2>1. ASSUME NEW n \in Nat, n \in S PROVE n + 1 \in S
    <3>1. n + 1 \in Nat
      OBVIOUS
    <3>2. n + 1 \in 0..Len(q) => Holds(n + 1)
      BY <1>4, <2>1
    <3> HIDE DEF Holds
    <3> QED BY <3>1, <3>2
  <2> HIDE DEF S
  <2> QED BY <1>3, <2>1, Induction
<1>6. Holds(Len(q))
  <2>1. Len(q) \in Nat /\ Len(q) \in 0..Len(q)
    BY <1>2
  <2> HIDE DEF Holds
  <2> QED BY <1>5, <2>1
<1>7. PICK h : IsSelection(Selected(q, W), q, W, T, h)
  BY SelectedElements
<1>8. PICK r : r = Selected(q, W)
  OBVIOUS
<1>9. r \in Seq(T) /\ ToSet(r) \subseteq ToSet(q) \cap W
  BY <1>7, <1>8 DEF IsSelection, ToSet
<1>10. ToSet(q) \cap W \subseteq ToSet(r)
  BY <1>1, <1>2, <1>6, <1>8 DEF ToSet
<1>11. ASSUME NEW x \in W, Twice(q, x) PROVE Twice(r, x)
  <2>1. PICK i \in DOMAIN q, j \in DOMAIN q : i # j /\ q[i] = x /\ q[j] = x
    BY <1>11 DEF Twice
  <2>2. i < j \/ j < i
    BY <1>2, <2>1
  <2> QED BY <1>1, <1>2, <1>6, <1>8, <1>11, <2>1, <2>2
<1> QED BY <1>8, <1>9, <1>10, <1>11

-----------------------------------------------------------------------------
(* The Variables in the sub scopes of a function.                           *)

(* The Variables of a scope and of the sub scopes inside it.                *)
InnerChains(p, ch, s, chain) ==
  [k \in DOMAIN ch[s] |-> IF p[ch[s][k]].kind = "function" THEN <<>> ELSE chain[ch[s][k]]]
ChainFrom(p, ch, vs, s, chain) == vs[s] \o FlattenSeq(InnerChains(p, ch, s, chain))
IsChainOf(p, ch, vs, chain) ==
  /\ chain \in [ScopesOf(p) -> Seq(Variable)]
  /\ \A s \in ScopesOf(p) : chain[s] = ChainFrom(p, ch, vs, s, chain)

(* Every scope inside a scope comes after it.                               *)
LEMMA ChildrenAreInside ==
  ASSUME NEW p, Nested(p), NEW ch, IsTree(p, ch), NEW s \in ScopesOf(p), NEW k \in DOMAIN ch[s]
  PROVE  /\ ch[s][k] \in ScopesOf(p) \ {TopScope} /\ ScopeAround(p, ch[s][k]) = s
         /\ s \in Nat /\ s < ch[s][k] /\ ch[s][k] \in DOMAIN p
<1>1. PICK c : c = ch[s][k]
  OBVIOUS
<1>2. ch[s] \in Seq(ScopesOf(p) \ {TopScope})
  BY DEF IsTree
<1>3. c \in ScopesOf(p) \ {TopScope}
  BY <1>1, <1>2, ElementType
<1>4. ScopeAround(p, c) = s
  BY <1>1 DEF IsTree, ToSet
<1>5. s < c /\ s \in Nat
  BY <1>3, <1>4, ScopeIsNested
<1>6. c \in DOMAIN p
  BY <1>3 DEF ScopesOf
<1> QED BY <1>1, <1>3, <1>4, <1>5, <1>6

(* The recursion of VariablesFromScopeChain.                                *)
LEMMA ChainFromIsSequence ==
  ASSUME NEW p, Nested(p), NEW ch, IsTree(p, ch), NEW n, NEW vs, AreDeclared(p, n, vs),
         NEW chain \in [ScopesOf(p) -> Seq(Variable)], NEW s \in ScopesOf(p)
  PROVE  /\ vs[s] \in Seq(Variable)
         /\ InnerChains(p, ch, s, chain) \in Seq(Seq(Variable))
         /\ ChainFrom(p, ch, vs, s, chain) \in Seq(Variable)
<1> DEFINE part(k) == IF p[ch[s][k]].kind = "function" THEN <<>> ELSE chain[ch[s][k]]
           qs == [k \in DOMAIN ch[s] |-> part(k)]
<1>1. vs[s] \in Seq(Variable)
  BY DEF AreDeclared
<1>2. qs \in Seq(Seq(Variable))
  <2>1. ASSUME NEW k \in DOMAIN ch[s] PROVE part(k) \in Seq(Variable)
    <3>1. ch[s][k] \in ScopesOf(p)
      BY ChildrenAreInside
    <3>2. chain[ch[s][k]] \in Seq(Variable)
      BY <3>1
    <3>3. <<>> \in Seq(Variable)
      OBVIOUS
    <3> QED BY <3>2, <3>3
  <2>2. ch[s] \in Seq(ScopesOf(p) \ {TopScope})
    BY DEF IsTree
  <2>3. PICK m \in Nat : DOMAIN ch[s] = 1..m
    BY <2>2
  <2> HIDE DEF part
  <2> QED BY <2>1, <2>3
<1>3. FlattenSeq(qs) \in Seq(Variable)
  <2> HIDE DEF qs
  <2> QED BY <1>2, FlattenedElements
<1>4. ChainFrom(p, ch, vs, s, chain) = vs[s] \o FlattenSeq(qs) /\ qs = InnerChains(p, ch, s, chain)
  BY DEF ChainFrom, InnerChains
<1>5. vs[s] \o FlattenSeq(qs) \in Seq(Variable)
  <2> HIDE DEF qs
  <2> QED BY <1>1, <1>3, ElementsOfConcatenation
<1> QED BY <1>1, <1>2, <1>4, <1>5

(* The chains are defined by their recursion.                               *)
LEMMA ChainExists ==
  ASSUME NEW p, Nested(p), NEW ch, IsTree(p, ch), NEW n, NEW vs, AreDeclared(p, n, vs)
  PROVE  \E chain : IsChainOf(p, ch, vs, chain)
<1> DEFINE D == ScopesOf(p)
           V == Seq(Variable)
           bound == Len(p)
           rank == [s \in D |-> bound - s]
           step == [s \in D |-> [f \in [D -> V] |-> ChainFrom(p, ch, vs, s, f)]]
<1>1. \A s \in D : s \in 0..bound
  BY ScopeIsNested
<1>2. bound \in Nat /\ rank \in [D -> 0..bound]
  <2>1. bound \in Nat
    BY DEF Nested
  <2>2. \A s \in D : bound - s \in 0..bound
    BY <1>1, <2>1
  <2> HIDE DEF bound, D
  <2> QED BY <2>1, <2>2
<1>3. V # {}
  <2>1. <<>> \in V
    OBVIOUS
  <2> QED BY <2>1
<1>4. step \in [D -> [[D -> V] -> V]]
  <2>1. ASSUME NEW s \in D, NEW f \in [D -> V] PROVE ChainFrom(p, ch, vs, s, f) \in V
    BY ChainFromIsSequence
  <2> HIDE DEF D, V
  <2> QED BY <2>1
<1>5. ASSUME NEW s \in D, NEW f \in [D -> V], NEW g \in [D -> V],
             \A t \in D : rank[t] < rank[s] => f[t] = g[t]
      PROVE  step[s][f] = step[s][g]
  <2>1. ASSUME NEW k \in DOMAIN ch[s] PROVE f[ch[s][k]] = g[ch[s][k]]
    <3>1. PICK c : c = ch[s][k]
      OBVIOUS
    <3>2. c \in D /\ s < c
      BY <3>1, ChildrenAreInside
    <3>3. bound \in Nat /\ c \in 0..bound /\ s \in 0..bound
      BY <1>1, <1>2, <3>2
    <3>4. rank[c] = bound - c /\ rank[s] = bound - s
      BY <3>2
    <3> HIDE DEF rank, bound
    <3>5. rank[c] < rank[s]
      BY <3>2, <3>3, <3>4
    <3> QED BY <1>5, <3>1, <3>2, <3>5
  <2>2. ChainFrom(p, ch, vs, s, f) = ChainFrom(p, ch, vs, s, g)
    BY <2>1 DEF ChainFrom, InnerChains
  <2>3. step[s][f] = ChainFrom(p, ch, vs, s, f) /\ step[s][g] = ChainFrom(p, ch, vs, s, g)
    <3> HIDE DEF D, V
    <3> QED OBVIOUS
  <2> QED BY <2>2, <2>3
<1>6. RankedRecursion(D, V, rank, bound, step)
  <2> HIDE DEF D, V, rank, bound, step
  <2> QED BY <1>2, <1>3, <1>4, <1>5 DEF RankedRecursion
<1>7. PICK f \in [D -> V] : \A s \in D : f[s] = step[s][f]
  <2> HIDE DEF D, V, rank, bound, step
  <2> QED BY <1>6, RankedFunctionExists
<1>8. \A s \in D : f[s] = ChainFrom(p, ch, vs, s, f)
  <2> HIDE DEF D, V
  <2> QED BY <1>7
<1>9. IsChainOf(p, ch, vs, f)
  BY <1>7, <1>8 DEF IsChainOf
<1> QED BY <1>9

(* VariablesFromScopeChain follows the chain.                               *)
LEMMA VariablesOfTheChain ==
  ASSUME ProgramPart, Parts, NEW scope \in ScopesOf(program)
  PROVE  \E chain : /\ IsChainOf(program, children, variables, chain)
                    /\ VariablesFromScopeChain(scope) = Selected(chain[scope], ProperVariables)
<1>1. PICK p, ch, vs : p = program /\ ch = children /\ vs = variables
  OBVIOUS
<1>2. Nested(p) /\ IsTree(p, ch) /\ AreDeclared(p, next, vs)
  BY <1>1 DEF ProgramPart, Parts
<1>3. PICK f : IsChainOf(p, ch, vs, f)
  BY <1>2, ChainExists
<1> DEFINE D == ScopesOf(p)
           IsIt(chain) ==
             chain = [s \in DOMAIN children |->
               variables[s] \o FlattenSeq([k \in DOMAIN children[s] |->
                 IF ScopeType(children[s][k]) = "function" THEN <<>> ELSE chain[children[s][k]]])]
<1>4. DOMAIN ch = D
  BY <1>2 DEF IsTree
<1>5. ASSUME NEW s \in D, NEW h
      PROVE  ChainFrom(p, ch, vs, s, h) =
               variables[s] \o FlattenSeq([k \in DOMAIN children[s] |->
                 IF ScopeType(children[s][k]) = "function" THEN <<>> ELSE h[children[s][k]]])
  <2>1. \A k \in DOMAIN ch[s] : (ScopeType(ch[s][k]) = "function") <=> (p[ch[s][k]].kind = "function")
    <3> TAKE k \in DOMAIN ch[s]
    <3>1. ch[s][k] # TopScope
      BY <1>2, ChildrenAreInside
    <3> QED BY <1>1, <3>1 DEF ScopeType
  <2> QED BY <1>1, <2>1 DEF ChainFrom, InnerChains
<1>6. f = [s \in D |-> ChainFrom(p, ch, vs, s, f)]
  BY <1>3 DEF IsChainOf
<1>7. IsIt(f)
  <2>1. f = [s \in DOMAIN children |-> ChainFrom(p, ch, vs, s, f)]
    BY <1>1, <1>4, <1>6
  <2> QED BY <1>1, <1>4, <1>5, <2>1
<1> DEFINE c == CHOOSE h : IsIt(h)
<1>8. IsIt(c)
  BY <1>7
<1>9. VariablesFromScopeChain(scope) = Selected(c[scope], ProperVariables)
  BY DEF VariablesFromScopeChain
<1> HIDE DEF c
<1>10. DOMAIN c = D /\ \A s \in D : c[s] = ChainFrom(p, ch, vs, s, c)
  <2>1. DOMAIN c = DOMAIN children
    BY <1>8
  <2>2. \A s \in DOMAIN children : c[s] =
               variables[s] \o FlattenSeq([k \in DOMAIN children[s] |->
                 IF ScopeType(children[s][k]) = "function" THEN <<>> ELSE c[children[s][k]]])
    BY <1>8
  <2> HIDE DEF IsIt
  <2> QED BY <1>1, <1>4, <1>5, <2>1, <2>2
<1> HIDE DEF IsIt
<1> DEFINE rank == [s \in D |-> Len(p) - s]
           S == {s \in D : c[s] = f[s]}
<1>11. \A s \in D : s \in 0..Len(p)
  <2> TAKE s \in D
  <2>1. s \in Nat /\ s + 1 \in 1..(Len(p) + 1) /\ Len(p) \in Nat
    BY <1>2, ScopeIsNested DEF Nested
  <2> QED BY ONLY <2>1
<1>12. rank \in [D -> Nat]
  <2>1. Len(p) \in Nat
    BY <1>2 DEF Nested
  <2>2. \A s \in D : Len(p) - s \in Nat
    BY <1>11, <2>1
  <2> HIDE DEF D
  <2> QED BY <2>2
<1>13. ASSUME NEW s \in D, \A t \in D : rank[t] < rank[s] => t \in S
       PROVE  s \in S
  <2>1. ASSUME NEW k \in DOMAIN ch[s] PROVE c[ch[s][k]] = f[ch[s][k]]
    <3>1. PICK t : t = ch[s][k]
      OBVIOUS
    <3>2. t \in D /\ s < t
      BY <1>2, <3>1, ChildrenAreInside
    <3>3. t \in 0..Len(p) /\ s \in 0..Len(p) /\ Len(p) \in Nat
      BY <1>2, <1>11, <3>2 DEF Nested
    <3>4. rank[t] = Len(p) - t /\ rank[s] = Len(p) - s
      BY <3>2
    <3> HIDE DEF rank
    <3>5. rank[t] < rank[s]
      BY <3>2, <3>3, <3>4
    <3> QED BY <1>13, <3>1, <3>2, <3>5
  <2>2. ChainFrom(p, ch, vs, s, c) = ChainFrom(p, ch, vs, s, f)
    BY <2>1 DEF ChainFrom, InnerChains
  <2>3. f[s] = ChainFrom(p, ch, vs, s, f)
    BY <1>3 DEF IsChainOf
  <2> QED BY <1>10, <2>2, <2>3
<1>14. \A s \in D : s \in S
  <2> HIDE DEF D, rank, S
  <2> QED BY <1>12, <1>13, RankInduction
<1>15. c[scope] = f[scope]
  BY <1>1, <1>14
<1> QED BY <1>1, <1>3, <1>9, <1>15

(* Code of a function, not of the top level.                                *)
InAFunction(p, s) == \E f \in FunctionsAround(p, s + 1) : f # TopScope

(* If functions have no let statements in sub scopes, the sub scopes of a   *)
(* function have no Variable of a let statement or a parameter.             *)
LEMMA SubScopesHaveNone ==
  ASSUME NEW p, Nested(p), NEW n, NEW vs, AreDeclared(p, n, vs), ~LetsInSubscopes, LetsAreOutside(p),
         NEW s \in ScopesOf(p), s # TopScope, p[s].kind # "function",
         InAFunction(p, s)
  PROVE  \A v \in ToSet(vs[s]) : v \notin ProperVariables
<1>1. ASSUME NEW v \in ToSet(vs[s]), v.type = "variable" PROVE FALSE
  <2>1. v \in DeclaredVariables(p, n, s)
    BY DEF AreDeclared
  <2>2. v \notin BuiltinsOf(s) /\ v \notin FunctionsOf(p, s)
    BY <1>1 DEF BuiltinsOf, FunctionsOf, NewVariable
  <2>3. ParametersOf(p, s) = <<>>
    <3>1. s \in DOMAIN p /\ p \in Seq(Items)
      BY DEF ScopesOf, Nested
    <3> QED BY <3>1, ItemFacts DEF ParametersOf
  <2>4. v \notin ParameterVariables(p, n, s)
    BY <2>3 DEF ParameterVariables
  <2>5. v \in LetsOf(p, n, s)
    BY <2>1, <2>2, <2>4 DEF DeclaredVariables
  <2>6. PICK j \in DOMAIN p : p[j].kind = "let" /\ Body(p, j) = s
    BY <2>5 DEF LetsOf
  <2>7. FunctionAround(p, j) \in {TopScope, s}
    BY <2>6 DEF LetsAreOutside
  <2>8. j \in 1..(Len(p) + 1) /\ p \in Seq(Items)
    BY <2>6, ItemFacts DEF Nested
  <2>9. FunctionAround(p, j) # TopScope
    <3>1. Around(p, j) = Around(p, s + 1)
      BY <2>6, <2>8, ScopesAroundAnItem
    <3>2. PICK f \in FunctionsAround(p, j) : f # TopScope
      BY <3>1 DEF InAFunction, FunctionsAround
    <3>3. f <= FunctionAround(p, j) /\ f \in ScopesOf(p)
      BY <2>8, FunctionsAroundAnItem, ScopesAroundAnItem
    <3>4. f \in Nat \ {0}
      BY <3>2, <3>3, ScopeIsNested DEF TopScope
    <3> QED BY <3>3, <3>4 DEF TopScope
  <2>10. FunctionAround(p, j) # s
    <3>1. FunctionAround(p, j) \in FunctionsAround(p, j)
      BY <2>8, FunctionsAroundAnItem
    <3> QED BY <3>1 DEF FunctionsAround, IsFunction
  <2> QED BY <2>7, <2>9, <2>10
<1> QED BY <1>1 DEF ProperVariables

(* Nor has any scope inside them.                                           *)
LEMMA ChainsOfSubScopes ==
  ASSUME NEW p, Nested(p), NEW ch, IsTree(p, ch), NEW n, NEW vs, AreDeclared(p, n, vs),
         NEW chain, IsChainOf(p, ch, vs, chain), ~LetsInSubscopes, LetsAreOutside(p)
  PROVE  \A s \in ScopesOf(p) :
           s # TopScope /\ p[s].kind # "function" /\ InAFunction(p, s) =>
             \A v \in ToSet(chain[s]) : v \notin ProperVariables
<1> DEFINE D == ScopesOf(p)
           None(s) == s # TopScope /\ p[s].kind # "function" /\ InAFunction(p, s) =>
                        \A v \in ToSet(chain[s]) : v \notin ProperVariables
           S == {s \in D : None(s)}
           rank == [s \in D |-> Len(p) - s]
<1>1. \A s \in D : s \in 0..Len(p)
  <2> TAKE s \in D
  <2>1. s \in Nat /\ s + 1 \in 1..(Len(p) + 1) /\ Len(p) \in Nat
    BY ScopeIsNested DEF Nested
  <2> QED BY ONLY <2>1
<1>2. rank \in [D -> Nat]
  <2>1. Len(p) \in Nat
    BY DEF Nested
  <2>2. \A s \in D : Len(p) - s \in Nat
    BY <1>1, <2>1
  <2> HIDE DEF D
  <2> QED BY <2>2
<1>3. ASSUME NEW s \in D, NEW k \in DOMAIN ch[s]
      PROVE  /\ ch[s][k] \in D /\ ch[s][k] # TopScope /\ rank[ch[s][k]] < rank[s]
             /\ InAFunction(p, s) => InAFunction(p, ch[s][k])
  <2>1. PICK c : c = ch[s][k]
    OBVIOUS
  <2>2. c \in D /\ c # TopScope /\ ScopeAround(p, c) = s /\ s < c
    BY <2>1, ChildrenAreInside
  <2>3. c \in 0..Len(p) /\ s \in 0..Len(p) /\ Len(p) \in Nat
    BY <1>1, <2>2 DEF Nested
  <2>4. rank[c] = Len(p) - c /\ rank[s] = Len(p) - s
    BY <2>2
  <2>5. rank[c] < rank[s]
    BY ONLY <2>2, <2>3, <2>4
  <2>6. Around(p, c + 1) = Around(p, s + 1) \cup {c}
    BY <2>2, ScopeIsNested
  <2>7. InAFunction(p, s) => InAFunction(p, c)
    BY <2>6 DEF InAFunction, FunctionsAround
  <2> QED BY <2>1, <2>2, <2>5, <2>7
<1>4. ASSUME NEW s \in D, \A t \in D : rank[t] < rank[s] => t \in S
      PROVE  s \in S
  <2>1. SUFFICES ASSUME s # TopScope, p[s].kind # "function", InAFunction(p, s),
                        NEW v \in ToSet(chain[s])
                 PROVE  v \notin ProperVariables
    OBVIOUS
  <2> DEFINE qs == InnerChains(p, ch, s, chain)
  <2>2. /\ vs[s] \in Seq(Variable) /\ qs \in Seq(Seq(Variable))
        /\ chain[s] = vs[s] \o FlattenSeq(qs)
    <3>1. chain \in [ScopesOf(p) -> Seq(Variable)] /\ chain[s] = ChainFrom(p, ch, vs, s, chain)
      BY DEF IsChainOf
    <3> QED BY <3>1, ChainFromIsSequence DEF ChainFrom
  <2>3. DOMAIN qs = DOMAIN ch[s]
    BY DEF InnerChains
  <2>4. ASSUME NEW k \in DOMAIN ch[s] PROVE \A w \in ToSet(qs[k]) : w \notin ProperVariables
    <3>1. PICK c : c = ch[s][k]
      OBVIOUS
    <3>2. c \in D /\ c # TopScope /\ c \in S /\ InAFunction(p, c)
      BY <1>3, <1>4, <2>1, <3>1
    <3>3. CASE p[c].kind = "function"
      <4>1. qs[k] = <<>>
        BY <3>1, <3>3 DEF InnerChains
      <4> QED BY <4>1 DEF ToSet
    <3>4. CASE p[c].kind # "function"
      <4>1. qs[k] = chain[c]
        BY <3>1, <3>4 DEF InnerChains
      <4> QED BY <3>2, <3>4, <4>1
    <3> QED BY <3>3, <3>4
  <2> HIDE DEF qs
  <2>5. /\ FlattenSeq(qs) \in Seq(Variable)
        /\ \A x \in ToSet(FlattenSeq(qs)) : \E k \in DOMAIN qs : x \in ToSet(qs[k])
    BY <2>2, FlattenedElements
  <2>6. ToSet(chain[s]) = ToSet(vs[s]) \cup ToSet(FlattenSeq(qs))
    BY <2>2, <2>5, ElementsOfConcatenation
  <2>7. \A w \in ToSet(vs[s]) : w \notin ProperVariables
    BY <2>1, SubScopesHaveNone
  <2> QED BY <2>3, <2>4, <2>5, <2>6, <2>7
<1>5. \A s \in D : s \in S
  <2> HIDE DEF D, S, rank
  <2> QED BY <1>2, <1>4, RankInduction
<1> QED BY <1>5

(* A function gets every Variable once then: no assertion fails.            *)
LEMMA SelectedOnce ==
  ASSUME NEW q \in Seq(Variable), NEW m \in 0..Len(q), NEW W,
         \A j, k \in 1..m : q[j].name = q[k].name => j = k,
         \A i \in (m + 1)..Len(q) : q[i] \notin ProperVariables
  PROVE  NamesDiffer(Selected(Selected(q, ProperVariables), W))
<1>1. PICK r, u : r = Selected(q, ProperVariables) /\ u = Selected(r, W)
  OBVIOUS
<1>2. PICK g : IsSelection(r, q, ProperVariables, Variable, g)
  BY <1>1, SelectedElements
<1>3. PICK h : IsSelection(u, r, W, Variable, h)
  <2>1. r \in Seq(Variable)
    BY <1>2 DEF IsSelection
  <2> QED BY <1>1, <2>1, SelectedElements
<1>4. ASSUME NEW j \in DOMAIN u, NEW k \in DOMAIN u, u[j].name = u[k].name, j < k PROVE FALSE
  <2>1. PICK a, b : a = h[j] /\ b = h[k]
    OBVIOUS
  <2>2. a \in DOMAIN r /\ b \in DOMAIN r /\ a < b /\ u[j] = r[a] /\ u[k] = r[b]
    BY <1>3, <1>4, <2>1 DEF IsSelection
  <2>3. PICK c, d : c = g[a] /\ d = g[b]
    OBVIOUS
  <2>4. /\ c \in DOMAIN q /\ d \in DOMAIN q /\ c < d /\ r[a] = q[c] /\ r[b] = q[d]
        /\ q[c] \in ProperVariables /\ q[d] \in ProperVariables
    BY <1>2, <2>2, <2>3 DEF IsSelection
  <2>5. DOMAIN q = 1..Len(q) /\ Len(q) \in Nat
    OBVIOUS
  <2>6. c \in 1..m /\ d \in 1..m
    BY <2>4, <2>5
  <2>7. q[c].name = q[d].name
    BY <1>4, <2>2, <2>4
  <2>8. c = d
    BY <2>6, <2>7
  <2> QED BY ONLY <2>4, <2>5, <2>8
<1>5. u \in Seq(Variable)
  BY <1>3 DEF IsSelection
<1>6. \A j, k \in DOMAIN u : u[j].name = u[k].name => j = k
  <2> TAKE j, k \in DOMAIN u
  <2>1. j \in Nat /\ k \in Nat
    BY <1>5
  <2>2. j = k \/ j < k \/ k < j
    BY <2>1
  <2> QED BY <1>4, <2>2
<1> QED BY <1>1, <1>6 DEF NamesDiffer

(* The chain of a function starts with its own Variables; those of the sub  *)
(* scopes are functions.                                                    *)
LEMMA ChainOfAFunction ==
  ASSUME NEW p, Nested(p), NEW ch, IsTree(p, ch), NEW n, NEW vs, AreDeclared(p, n, vs),
         NEW chain, IsChainOf(p, ch, vs, chain), ~LetsInSubscopes, LetsAreOutside(p),
         NEW s \in ScopesOf(p), s # TopScope, p[s].kind = "function"
  PROVE  /\ chain[s] \in Seq(Variable) /\ Len(vs[s]) \in 0..Len(chain[s])
         /\ \A j, k \in 1..Len(vs[s]) : chain[s][j].name = chain[s][k].name => j = k
         /\ \A i \in (Len(vs[s]) + 1)..Len(chain[s]) : chain[s][i] \notin ProperVariables
<1>1. PICK qs, u, q, r : /\ qs = InnerChains(p, ch, s, chain) /\ u = FlattenSeq(qs)
                         /\ q = chain[s] /\ r = vs[s]
  OBVIOUS
<1>2. chain \in [ScopesOf(p) -> Seq(Variable)] /\ chain[s] = ChainFrom(p, ch, vs, s, chain)
  BY DEF IsChainOf
<1>3. r \in Seq(Variable) /\ qs \in Seq(Seq(Variable)) /\ q = r \o u /\ NamesDiffer(r)
  BY <1>1, <1>2, ChainFromIsSequence DEF ChainFrom, AreDeclared
<1>4. /\ u \in Seq(Variable)
      /\ \A x \in ToSet(u) : \E k \in DOMAIN qs : x \in ToSet(qs[k])
  BY <1>1, <1>3, FlattenedElements
<1>5. ASSUME NEW k \in DOMAIN qs, NEW v \in ToSet(qs[k]) PROVE v \notin ProperVariables
  <2>1. PICK c : c = ch[s][k]
    OBVIOUS
  <2>2. k \in DOMAIN ch[s] /\ qs[k] = IF p[c].kind = "function" THEN <<>> ELSE chain[c]
    BY <1>1, <2>1 DEF InnerChains
  <2>3. c \in ScopesOf(p) /\ c # TopScope /\ ScopeAround(p, c) = s
    BY <2>1, <2>2, ChildrenAreInside
  <2>4. s \in Around(p, c + 1)
    BY <2>3, ScopeIsNested
  <2>5. InAFunction(p, c)
    BY <2>4 DEF InAFunction, FunctionsAround, IsFunction
  <2>6. p[c].kind # "function"
    BY <1>5, <2>2 DEF ToSet
  <2> QED BY <1>5, <2>2, <2>3, <2>5, <2>6, ChainsOfSubScopes
<1>6. /\ q \in Seq(Variable) /\ Len(q) = Len(r) + Len(u)
      /\ \A i \in 1..Len(r) : q[i] = r[i]
      /\ \A i \in (Len(r) + 1)..Len(q) : i - Len(r) \in DOMAIN u /\ q[i] = u[i - Len(r)]
  BY <1>3, <1>4, ElementsOfConcatenation
<1>7. Len(r) \in 0..Len(q)
  <2>1. Len(r) \in Nat /\ Len(u) \in Nat
    BY <1>3, <1>4
  <2> QED BY <1>6, <2>1
<1>8. \A j, k \in 1..Len(r) : q[j].name = q[k].name => j = k
  <2>1. DOMAIN r = 1..Len(r)
    BY <1>3
  <2>2. \A j, k \in DOMAIN r : r[j].name = r[k].name => j = k
    BY <1>3 DEF NamesDiffer
  <2> QED BY ONLY <1>6, <2>1, <2>2
<1>9. ASSUME NEW i \in (Len(r) + 1)..Len(q) PROVE q[i] \notin ProperVariables
  <2>1. i - Len(r) \in DOMAIN u /\ q[i] = u[i - Len(r)]
    BY <1>6
  <2>2. q[i] \in ToSet(u)
    BY <2>1 DEF ToSet
  <2> QED BY <1>4, <1>5, <2>2
<1> QED BY <1>1, <1>6, <1>7, <1>8, <1>9
=============================================================================
