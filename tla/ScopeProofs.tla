----------------------------- MODULE ScopeProofs ------------------------------
(***************************************************************************)
(* The invariant of module ScopeInvariant holds for all programs, names and *)
(* builtins: at every item of either pass the stack, the tree of scopes and *)
(* the Variables are what the program says, and a function that has ended   *)
(* has gathered its parameters and the variables of its scopes, each once.  *)
(* With it the safety properties of module ScopeAnalyser.                   *)
(***************************************************************************)
EXTENDS ScopeLemmas

-----------------------------------------------------------------------------
(* Where a pass is.                                                         *)

(* The stack knows what is around the item.                                 *)
LEMMA WhereThePassIs ==
  ASSUME ProgramPart, StackPart, Active
  PROVE  /\ Position \in 1..(Len(program) + 1) /\ Position \in Nat \ {0}
         /\ Head(scopes) = Body(program, Position) /\ Head(scopes) \in ScopesOf(program)
         /\ Descending(Tail(scopes), Around(program, Position) \ {Head(scopes)})
         /\ Head(scopes) # TopScope => scopes[2] = Max(Around(program, Position) \ {Head(scopes)})
<1>1. Position \in 1..(Len(program) + 1) /\ Position \in Nat \ {0} /\ Nested(program)
  BY DEF ProgramPart, Position, Nested
<1>2. PICK A : A = Around(program, Position)
  OBVIOUS
<1>3. Descending(scopes, A) /\ TopScope \in A
  BY <1>1, <1>2, OpenBodies DEF StackPart
<1>4. Max(A) = Head(scopes)
  BY <1>3, FirstIsGreatest
<1>5. Head(scopes) = Body(program, Position) /\ Head(scopes) \in ScopesOf(program)
  <2>1. Body(program, Position) \in ScopesOf(program)
    BY <1>1, ScopesAroundAnItem
  <2> QED BY <2>1, <1>2, <1>4 DEF Body
<1>6. /\ Descending(Tail(scopes), A \ {Head(scopes)})
      /\ A \ {Head(scopes)} # {} => scopes[2] = Max(A \ {Head(scopes)})
  BY <1>3, PopDescending
<1>7. Head(scopes) # TopScope => A \ {Head(scopes)} # {}
  BY <1>3
<1> QED BY <1>1, <1>2, <1>5, <1>6, <1>7

(* The innermost function is the allocation scope.                          *)
LEMMA AllocationScope ==
  ASSUME ProgramPart, StackPart, Active
  PROVE  CurrentAllocationScope = FunctionAround(program, Position)
<1>1. Position \in 1..(Len(program) + 1) /\ Position \in Nat \ {0} /\ Nested(program)
  BY WhereThePassIs DEF ProgramPart
<1>2. PICK A, F : A = Around(program, Position) /\ F = FunctionsAround(program, Position)
  OBVIOUS
<1>3. Descending(scopes, A) /\ TopScope \in A /\ F \subseteq A /\ TopScope \in F
  BY <1>1, <1>2, OpenBodies, FunctionsAroundAnItem DEF StackPart
<1>4. scopes[Min({k \in DOMAIN scopes : scopes[k] \in F})] = Max(F)
  BY <1>3, FirstOfKindIsGreatest
<1>5. ASSUME NEW k \in DOMAIN scopes PROVE scopes[k] \in F <=> ScopeType(scopes[k]) # "sub"
  <2>1. scopes[k] \in A
    BY <1>3 DEF Descending, ToSet
  <2> QED BY <1>2, <2>1 DEF FunctionsAround, IsFunction, ScopeType
<1>6. {k \in DOMAIN scopes : scopes[k] \in F} = {k \in DOMAIN scopes : ScopeType(scopes[k]) # "sub"}
  BY <1>5
<1>7. Max(F) = FunctionAround(program, Position)
  BY <1>2 DEF FunctionsAround, FunctionAround
<1> QED BY <1>4, <1>6, <1>7 DEF CurrentAllocationScope

(* In the first pass the innermost function is last on its stack.           *)
LEMMA InnermostFunction ==
  ASSUME ProgramPart, StackPart, status = "first"
  PROVE  /\ Last(functionStack) = FunctionAround(program, Position)
         /\ Ascending(functionStack, FunctionsAround(program, Position))
         /\ \A f \in FunctionsAround(program, Position) : f < Position
<1>1. Position \in 1..(Len(program) + 1) /\ Position \in Nat \ {0} /\ Nested(program)
  BY WhereThePassIs DEF ProgramPart, Active
<1>2. PICK F : F = FunctionsAround(program, Position)
  OBVIOUS
<1>3. Ascending(functionStack, F) /\ TopScope \in F
  BY <1>1, <1>2, FunctionsAroundAnItem DEF StackPart
<1>4. Last(functionStack) = Max(F)
  BY <1>3, LastIsGreatest
<1>5. Max(F) = FunctionAround(program, Position)
  BY <1>2 DEF FunctionsAround, FunctionAround
<1>6. \A f \in F : f < Position
  <2>1. Around(program, Position) \in SUBSET (0..(Position - 1))
    BY <1>1, OpenBodies
  <2> QED BY <1>1, <1>2, <2>1 DEF FunctionsAround
<1> QED BY <1>2, <1>3, <1>4, <1>5, <1>6
-----------------------------------------------------------------------------
(* The first pass.                                                          *)

(* The functions around the next item.                                      *)
LEMMA FunctionsAroundNext ==
  ASSUME NEW p, NEW x, NEW q, NEW n, IsAppended(p, x, q, n)
  PROVE  FunctionsAround(q, n + 1) =
           (FunctionsAround(p, n) \ {b \in {Body(p, n)} : x.kind \in Ends})
             \cup {b \in {n} : x.kind = "function"}
<1>1. /\ DOMAIN q = DOMAIN p \cup {n} /\ \A i \in DOMAIN p : q[i] = p[i]
      /\ DOMAIN p = 1..Len(p) /\ n = Len(p) + 1 /\ n \in Nat /\ q[n] = x /\ n # 0
      /\ Len(p) \in Nat
  BY ElementAppended DEF IsAppended, Nested
<1>2. Around(q, n + 1) = (Around(p, n) \ {b \in {Body(p, n)} : x.kind \in Ends})
                            \cup {b \in {n} : x.kind \in Begins}
  BY AppendedItemIsInside
<1>3. ASSUME NEW b \in Around(p, n) PROVE IsFunction(q, b) <=> IsFunction(p, b)
  <2>1. b \in 0..(n - 1)
    BY <1>1, OpenBodies
  <2>2. b = TopScope \/ b \in DOMAIN p
    BY <1>1, <2>1 DEF TopScope
  <2> QED BY <1>1, <2>2 DEF IsFunction
<1>4. IsFunction(q, n) <=> x.kind = "function"
  BY <1>1 DEF IsFunction, TopScope
<1> QED BY <1>2, <1>3, <1>4 DEF FunctionsAround, Begins

(* Let statements in sub scopes.                                            *)
LEMMA AppendedLets ==
  ASSUME NEW p, NEW x, NEW q, NEW n, IsAppended(p, x, q, n), LetsAreOutside(p),
         x.kind = "let" => LetsInSubscopes \/ FunctionAround(p, n) \in {TopScope, Body(p, n)}
  PROVE  LetsAreOutside(q)
<1>1. /\ DOMAIN q = DOMAIN p \cup {n} /\ \A i \in DOMAIN p : q[i] = p[i]
      /\ DOMAIN p = 1..Len(p) /\ n = Len(p) + 1 /\ n \in Nat /\ q[n] = x /\ n # 0
  BY ElementAppended DEF IsAppended, Nested
<1>2. \A i \in 1..n : FunctionAround(q, i) = FunctionAround(p, i) /\ Body(q, i) = Body(p, i)
  BY AppendedItemIsInside
<1>3. ASSUME ~LetsInSubscopes, NEW i \in DOMAIN q, q[i].kind = "let"
      PROVE  FunctionAround(q, i) \in {TopScope, Body(q, i)}
  <2>1. CASE i = n
    BY <1>1, <1>2, <1>3, <2>1
  <2>2. CASE i # n
    BY <1>1, <1>2, <1>3, <2>2 DEF LetsAreOutside
  <2> QED BY <2>1, <2>2
<1> QED BY <1>3 DEF LetsAreOutside

(* Nothing has been resolved.                                               *)
LEMMA NothingResolvedYet ==
  ASSUME ProgramPart, status = "first"
  PROVE  DOMAIN resolved = {} /\ next = 1
<1>1. next = 1 /\ program \in Seq(Items)
  BY DEF ProgramPart, Nested
<1>2. \A i \in DOMAIN program : ~ (i < next)
  BY <1>1
<1> QED BY <1>1, <1>2 DEF ProgramPart

(* An item is written.                                                      *)
LEMMA ProgramIsAppended ==
  ASSUME ProgramPart, status = "first", Len(program) < MaxItems, NEW x,
         IsAppended(program, x, program', Len(program) + 1),
         next' = next, resolved' = resolved, status' \in {"first", "error"}
  PROVE  ProgramPart'
<1>1. PICK p, q, n : p = program /\ q = program' /\ n = Len(program) + 1
  OBVIOUS
<1>2. IsAppended(p, x, q, n)
  BY <1>1
<1>3. Nested(q) /\ Len(q) = n /\ n \in Nat \ {0} /\ q \in Seq(Items)
  BY <1>2, AppendedItem
<1>4. DOMAIN resolved = {} /\ next = 1
  BY NothingResolvedYet
<1>5. Nested(program') /\ Len(program') <= MaxItems /\ next' = 1 /\ next' \in 1..(Len(program') + 1)
  <2>1. Len(p) \in Nat
    BY <1>1 DEF ProgramPart, Nested
  <2> QED BY <1>1, <1>3, <1>4, <2>1, ScopeAssumption
<1>6. \A i \in DOMAIN program' : ~ (i < next')
  BY <1>1, <1>3, <1>5
<1>7. DOMAIN resolved' = {}
  BY <1>4
<1> QED BY <1>5, <1>6, <1>7 DEF ProgramPart

(* What all statements without a body have in common.                       *)
LEMMA WrittenStatement ==
  ASSUME ProgramPart, Parts, status = "first", Len(program) < MaxItems, NEW x,
         IsAppended(program, x, program', Len(program) + 1), x.kind \notin Begins \cup Ends,
         x.kind = "let" =>
           LetsInSubscopes \/ FunctionAround(program, Position) \in {TopScope, Body(program, Position)},
         UNCHANGED <<status, next, scopes, functionStack, tree, outerFunction, results>>
  PROVE  ProgramPart' /\ Parts'
<1>1. PICK p, q, n : p = program /\ q = program' /\ n = Len(program) + 1
  OBVIOUS
<1>2. IsAppended(p, x, q, n) /\ n = Position
  BY <1>1 DEF Position
<1>3. ProgramPart'
  <2>1. next' = next /\ resolved' = resolved /\ status' \in {"first", "error"}
    BY DEF results
  <2> QED BY <2>1, ProgramIsAppended
<1>4. next = 1
  BY NothingResolvedYet
<1>5. Position' = n + 1
  <2>1. Len(q) = n
    BY <1>2, AppendedItem
  <2> QED BY <1>1, <2>1 DEF Position
<1>6. Around(q, n + 1) = Around(p, n) /\ FunctionsAround(q, n + 1) = FunctionsAround(p, n)
  <2>1. Around(q, n + 1) = (Around(p, n) \ {b \in {Body(p, n)} : x.kind \in Ends})
                              \cup {b \in {n} : x.kind \in Begins}
    BY <1>2, AppendedItemIsInside
  <2>2. FunctionsAround(q, n + 1) =
           (FunctionsAround(p, n) \ {b \in {Body(p, n)} : x.kind \in Ends})
             \cup {b \in {n} : x.kind = "function"}
    BY <1>2, FunctionsAroundNext
  <2> QED BY <2>1, <2>2 DEF Begins
<1>7. StackPart'
  BY <1>1, <1>2, <1>5, <1>6 DEF Parts, StackPart
<1>8. IsTree(q, children)
  <2>1. ScopesOf(q) = ScopesOf(p) /\ \A s \in ScopesOf(p) : ScopeAround(q, s) = ScopeAround(p, s)
    BY <1>2, AppendedScopes, AppendedItemIsInside
  <2>2. IsTree(p, children)
    BY <1>1 DEF Parts
  <2> QED BY <2>1, <2>2, TreeStays
<1>9. IsOuter(q, outerFunction)
  <2>1. IsOuter(p, outerFunction) /\ x.kind # "function"
    BY <1>1 DEF Parts, Begins
  <2> QED BY <1>2, <2>1, OuterStays
<1>10. AreDeclared(q, 1, variables)
  <2>1. AreDeclared(p, 1, variables) /\ x.kind \notin Begins
    BY <1>1, <1>4 DEF Parts
  <2> QED BY <1>2, <2>1, VariablesStay
<1>11. LetsAreOutside(q)
  <2>1. LetsAreOutside(p)
    BY <1>1 DEF Parts
  <2> QED BY <1>1, <1>2, <2>1, AppendedLets
<1> QED BY <1>1, <1>3, <1>4, <1>7, <1>8, <1>9, <1>10, <1>11 DEF Parts, tree
(* The items the first pass writes.                                         *)
LEMMA WrittenItem ==
  ASSUME ProgramPart, NEW item \in Items, Write(item),
         item.kind \in Ends => Body(program, Len(program) + 1) # TopScope
  PROVE  /\ IsAppended(program, item, program', Len(program) + 1)
         /\ status = "first" /\ Len(program) < MaxItems /\ Position = Len(program) + 1 /\ Active
BY DEF ProgramPart, Write, IsAppended, Position, Active

(* A use of a name.                                                         *)
LEMMA FirstVisitUseStep ==
  ASSUME ProgramPart, Parts, NEW name \in Names, FirstVisitUse(name)
  PROVE  ProgramPart' /\ Parts'
<1>1. PICK x : x = Item("use", name, <<>>)
  OBVIOUS
<1>2. x \in Items /\ x.kind = "use" /\ x.kind \notin Begins \cup Ends
  BY <1>1 DEF Item, Items, Begins, Ends
<1>3. Write(x) /\ UNCHANGED <<status, next, scopes, functionStack, tree, outerFunction, results>>
  BY <1>1 DEF FirstVisitUse
<1>4. /\ IsAppended(program, x, program', Len(program) + 1)
      /\ status = "first" /\ Len(program) < MaxItems
  BY <1>2, <1>3, WrittenItem
<1> QED BY <1>2, <1>3, <1>4, WrittenStatement

(* A let statement.                                                         *)
LEMMA FirstVisitLetStep ==
  ASSUME ProgramPart, Parts, NEW name \in Names, FirstVisitLet(name)
  PROVE  ProgramPart' /\ Parts'
<1>1. PICK x : x = Item("let", name, <<>>)
  OBVIOUS
<1>2. x \in Items /\ x.kind \notin Begins \cup Ends
  BY <1>1 DEF Item, Items, Begins, Ends
<1>3. Write(x) /\ UNCHANGED <<status, next, scopes, functionStack, tree, outerFunction, results>>
  BY <1>1 DEF FirstVisitLet
<1>4. /\ IsAppended(program, x, program', Len(program) + 1) /\ Active
      /\ status = "first" /\ Len(program) < MaxItems
  BY <1>2, <1>3, WrittenItem
<1>5. LetsInSubscopes \/ FunctionAround(program, Position) \in {TopScope, Body(program, Position)}
  <2>1. CurrentAllocationScope = FunctionAround(program, Position)
    BY <1>4, AllocationScope DEF Parts
  <2>2. Head(scopes) = Body(program, Position)
    BY <1>4, WhereThePassIs DEF Parts
  <2> QED BY <2>1, <2>2 DEF FirstVisitLet
<1> QED BY <1>2, <1>3, <1>4, <1>5, WrittenStatement

(* A new scope is a child of the innermost one that stays open.             *)
LEMMA ScopeIsCreated ==
  ASSUME NEW p, NEW x, NEW q, NEW n, IsAppended(p, x, q, n), x.kind \in Begins,
         NEW ch, IsTree(p, ch), NEW h \in ScopesOf(p),
         h = Max(Around(p, n) \ {b \in {Body(p, n)} : x.kind \in Ends})
  PROVE  IsTree(q, [Including(ch, n, <<>>) EXCEPT ![h] = Append(@, n)])
<1>1. n \notin ScopesOf(p) /\ ScopesOf(q) = ScopesOf(p) \cup {n}
  BY AppendedScopes
<1>2. \A s \in ScopesOf(p) : ScopeAround(q, s) = ScopeAround(p, s)
  BY AppendedItemIsInside
<1>3. n \in Nat \ {0} /\ Nested(q)
  BY AppendedItem
<1>4. ScopeAround(q, n) = h
  <2>1. PICK S : S = Around(p, n) \ {b \in {Body(p, n)} : x.kind \in Ends}
    OBVIOUS
  <2>2. Around(q, n + 1) = S \cup {b \in {n} : x.kind \in Begins}
    BY <2>1, AppendedItemIsInside
  <2>3. n \notin S
    <3>1. Around(p, n) \in SUBSET (0..(n - 1))
      BY <1>3, OpenBodies
    <3> QED BY <1>3, <2>1, <3>1
  <2>4. Around(q, n + 1) \ {n} = S
    BY <2>2, <2>3
  <2> QED BY <2>1, <2>4 DEF ScopeAround
<1>5. PICK ch2 : ch2 = [Including(ch, n, <<>>) EXCEPT ![h] = Append(@, n)]
  OBVIOUS
<1>6. DOMAIN ch = ScopesOf(p)
  BY DEF IsTree
<1>7. /\ DOMAIN ch2 = ScopesOf(q) /\ ch2[h] = Append(ch[h], n)
      /\ \A s \in ScopesOf(p) \ {h} : ch2[s] = ch[s]
      /\ ch2[n] = <<>>
  BY <1>1, <1>5, <1>6 DEF Including
<1>8. n \notin {TopScope, h}
  BY <1>1, <1>3 DEF TopScope
<1>9. IsTree(q, ch2)
  BY <1>1, <1>2, <1>3, <1>4, <1>7, <1>8, TreeGrows
<1> QED BY <1>5, <1>9
(* A function is put into the innermost scope, and entered.                 *)
LEMMA FirstVisitFunctionStep ==
  ASSUME ProgramPart, Parts, NEW name \in Names, NEW parameters \in ParameterLists,
         FirstVisitFunction(name, parameters), status' = "first"
  PROVE  ProgramPart' /\ Parts'
<1>1. PICK x : x = Item("function", name, parameters)
  OBVIOUS
<1>2. /\ x \in Items /\ x.kind = "function" /\ x.name = name
      /\ x.kind \in Begins /\ x.kind \notin Ends
  BY <1>1 DEF Item, Items, Begins, Ends
<1>3. Write(x)
  BY <1>1 DEF FirstVisitFunction
<1>4. PICK p, q, n, h : p = program /\ q = program' /\ n = Len(program) + 1 /\ h = Head(scopes)
  OBVIOUS
<1>5. /\ IsAppended(p, x, q, n) /\ n = Position /\ Active
      /\ status = "first" /\ Len(program) < MaxItems
  BY <1>2, <1>3, <1>4, WrittenItem
<1>6. PICK v : v = NewVariable(n, name, "user_function", CurrentAllocationScope, FALSE)
  OBVIOUS
<1>7. /\ ~HasVariable(h, name)
      /\ variables' = [Including(variables, n, <<>>) EXCEPT ![h] = Append(@, v)]
      /\ outerFunction' = Including(outerFunction, n, Last(functionStack))
      /\ functionStack' = Append(functionStack, n)
      /\ Push(n)
      /\ UNCHANGED <<status, next, results>>
  BY <1>4, <1>5, <1>6 DEF FirstVisitFunction, Stop
<1>8. h = Body(p, n) /\ h \in ScopesOf(p)
  BY <1>4, <1>5, WhereThePassIs DEF Parts
<1>9. CurrentAllocationScope = FunctionAround(p, n)
  BY <1>4, <1>5, AllocationScope DEF Parts
<1>10. /\ Last(functionStack) = FunctionAround(p, n)
       /\ Ascending(functionStack, FunctionsAround(p, n))
       /\ \A f \in FunctionsAround(p, n) : f < n
  BY <1>4, <1>5, InnermostFunction DEF Parts
<1>11. n \in Nat \ {0} /\ Len(q) = n /\ n \notin ScopesOf(p)
  BY <1>5, AppendedItem
<1>12. next = 1
  BY <1>5, NothingResolvedYet
<1>13. ProgramPart'
  <2>1. next' = next /\ resolved' = resolved /\ status' \in {"first", "error"}
    BY <1>7 DEF results
  <2> QED BY <1>4, <1>5, <2>1, ProgramIsAppended
<1>14. Position' = n + 1
  BY <1>4, <1>11 DEF Position
<1>15. /\ Around(q, n + 1) = Around(p, n) \cup {n}
       /\ FunctionsAround(q, n + 1) = FunctionsAround(p, n) \cup {n}
  <2>1. Around(q, n + 1) = (Around(p, n) \ {b \in {Body(p, n)} : x.kind \in Ends})
                              \cup {b \in {n} : x.kind \in Begins}
    BY <1>5, AppendedItemIsInside
  <2>2. FunctionsAround(q, n + 1) =
           (FunctionsAround(p, n) \ {b \in {Body(p, n)} : x.kind \in Ends})
             \cup {b \in {n} : x.kind = "function"}
    BY <1>5, FunctionsAroundNext
  <2> QED BY <1>2, <2>1, <2>2
<1>16. StackPart'
  <2>1. \A b \in Around(p, n) : b < n
    <3>1. Around(p, n) \in SUBSET (0..(n - 1))
      BY <1>11, OpenBodies
    <3> QED BY <1>11, <3>1
  <2>2. Descending(scopes, Around(p, n))
    BY <1>4, <1>5 DEF Parts, StackPart
  <2>3. Descending(<<n>> \o scopes, Around(p, n) \cup {n})
    BY <1>11, <2>1, <2>2, PushDescending
  <2>4. Ascending(Append(functionStack, n), FunctionsAround(p, n) \cup {n})
    BY <1>10, <1>11, PushAscending
  <2>5. scopes' = <<n>> \o scopes /\ functionStack' = Append(functionStack, n)
    BY <1>7 DEF Push
  <2> QED BY <1>4, <1>14, <1>15, <2>3, <2>4, <2>5 DEF StackPart
<1>17. IsTree(q, children')
  <2>1. h = Max(Around(p, n) \ {b \in {Body(p, n)} : x.kind \in Ends})
    BY <1>2, <1>8 DEF Body
  <2>2. children' = [Including(children, n, <<>>) EXCEPT ![h] = Append(@, n)]
    BY <1>4, <1>7 DEF Push
  <2>3. IsTree(p, children)
    BY <1>4 DEF Parts
  <2>4. PICK ch : ch = children
    OBVIOUS
  <2>5. IsTree(q, [Including(ch, n, <<>>) EXCEPT ![h] = Append(@, n)])
    BY <1>2, <1>5, <1>8, <2>1, <2>3, <2>4, ScopeIsCreated
  <2> QED BY <2>2, <2>4, <2>5
<1>18. IsOuter(q, outerFunction')
  <2>1. IsOuter(p, outerFunction)
    BY <1>4 DEF Parts
  <2>2. IsOuter(q, Including(outerFunction, n, FunctionAround(p, n)))
    BY <1>2, <1>5, <2>1, OuterGrows
  <2> QED BY <1>7, <1>10, <2>2
<1>19. AreDeclared(q, 1, variables')
  <2>1. AreDeclared(p, 1, variables)
    BY <1>4, <1>12 DEF Parts
  <2>2. PICK vs, ws : vs = variables /\ ws = variables'
    OBVIOUS
  <2>3. DOMAIN vs = ScopesOf(p)
    BY <2>1, <2>2 DEF AreDeclared
  <2>4. ws = [Including(vs, n, <<>>) EXCEPT ![h] = Append(@, v)]
    BY <1>7, <2>2
  <2>5. /\ DOMAIN ws = DOMAIN vs \cup {n} /\ ws[h] = Append(vs[h], v) /\ ws[n] = <<>>
        /\ \A s \in DOMAIN vs \ {h} : ws[s] = vs[s]
    BY <1>8, <1>11, <2>3, <2>4 DEF Including
  <2>6. \A u \in ToSet(vs[h]) : u.name # x.name
    BY <1>2, <1>7, <2>2 DEF HasVariable
  <2>7. v = NewVariable(n, x.name, "user_function", FunctionAround(p, n), FALSE)
    BY <1>2, <1>6, <1>9
  <2>8. v \in Variable
    <3>1. n \in 0..MaxItems
      <4>1. Len(program) \in Nat
        BY DEF ProgramPart, Nested
      <4> QED BY <1>4, <1>5, <4>1, ScopeAssumption
    <3>2. FunctionAround(p, n) \in 0..MaxItems
      <4>1. Nested(p) /\ n \in 1..(Len(p) + 1)
        BY <1>4, <1>5, <1>11 DEF IsAppended
      <4>2. FunctionAround(p, n) \in ScopesOf(p) /\ FunctionAround(p, n) < n
        BY <4>1, FunctionsAroundAnItem
      <4>3. FunctionAround(p, n) \in Nat
        BY <4>1, <4>2, ScopeIsNested
      <4> QED BY <3>1, <4>2, <4>3, ScopeAssumption
    <3> QED BY <1>2, <2>7, <3>1, <3>2 DEF NewVariable, Variable
  <2>9. AreDeclared(q, 1, ws)
    <3>1. /\ IsAppended(p, x, q, n) /\ x.kind = "function" /\ AreDeclared(p, 1, vs)
          /\ h = Body(p, n)
      BY <1>2, <1>5, <1>8, <2>1, <2>2
    <3>2. IsFunctionVariable(v, p, x, n) /\ IsPutInto(v, vs, ws, h, n)
      BY <2>5, <2>7 DEF IsFunctionVariable, IsPutInto
    <3> QED BY ONLY <3>1, <3>2, <2>6, <2>8, VariablesOfAFunction
  <2> QED BY <2>2, <2>9
<1>20. LetsAreOutside(q)
  <2>1. LetsAreOutside(p) /\ x.kind # "let"
    BY <1>2, <1>4 DEF Parts
  <2> QED BY <1>5, <2>1, AppendedLets
<1>21. next' = 1
  BY <1>7, <1>12
<1> QED BY <1>4, <1>13, <1>16, <1>17, <1>18, <1>19, <1>20, <1>21 DEF Parts
(* The body of an if or while statement is entered, also an else body when  *)
(* it follows another body.                                                 *)
LEMMA BodyIsCreated ==
  ASSUME ProgramPart, Parts, status = "first", Len(program) < MaxItems, NEW x,
         IsAppended(program, x, program', Len(program) + 1), x.kind \in Begins \ {"function"},
         x.kind \in Ends => ~IsFunction(program, Body(program, Position)),
         NEW h \in ScopesOf(program),
         h = Max(Around(program, Position) \ {b \in {Body(program, Position)} : x.kind \in Ends}),
         children' = [Including(children, Position, <<>>) EXCEPT ![h] = Append(@, Position)],
         variables' = Including(variables, Position, <<>>),
         NEW stack, scopes' = <<Position>> \o stack,
         Descending(stack, Around(program, Position)
                             \ {b \in {Body(program, Position)} : x.kind \in Ends}),
         UNCHANGED <<status, next, functionStack, outerFunction, results>>
  PROVE  ProgramPart' /\ Parts'
<1>1. PICK p, q, n : p = program /\ q = program' /\ n = Len(program) + 1
  OBVIOUS
<1>2. IsAppended(p, x, q, n) /\ n = Position
  BY <1>1 DEF Position
<1>3. n \in Nat \ {0} /\ Len(q) = n
  <2>1. p \in Seq(Items) /\ x \in Items /\ q = Append(p, x) /\ n = Len(p) + 1
    BY <1>2 DEF IsAppended, Nested
  <2>2. Len(p) \in Nat /\ Len(Append(p, x)) = Len(p) + 1
    BY ONLY <2>1, ElementAppended
  <2> QED BY ONLY <2>1, <2>2
<1>4. next = 1
  BY NothingResolvedYet
<1>5. ProgramPart'
  <2>1. next' = next /\ resolved' = resolved /\ status' \in {"first", "error"}
    BY DEF results
  <2> QED BY <2>1, ProgramIsAppended
<1>6. Position' = n + 1
  BY <1>1, <1>3 DEF Position
<1>7. PICK S : S = Around(p, n) \ {b \in {Body(p, n)} : x.kind \in Ends}
  OBVIOUS
<1>8. Around(q, n + 1) = S \cup {n}
  <2>1. Around(q, n + 1) = S \cup {b \in {n} : x.kind \in Begins}
    BY <1>2, <1>7, AppendedItemIsInside
  <2> QED BY <2>1
<1>9. FunctionsAround(q, n + 1) = FunctionsAround(p, n)
  <2>1. FunctionsAround(q, n + 1) =
           (FunctionsAround(p, n) \ {b \in {Body(p, n)} : x.kind \in Ends})
             \cup {b \in {n} : x.kind = "function"}
    BY <1>2, FunctionsAroundNext
  <2>2. x.kind \in Ends => Body(p, n) \notin FunctionsAround(p, n)
    BY <1>1, <1>2 DEF FunctionsAround
  <2> QED BY <2>1, <2>2
<1>10. StackPart'
  <2>1. \A b \in S : b < n
    <3>1. Around(p, n) \in SUBSET (0..(n - 1))
      BY <1>3, OpenBodies
    <3> QED BY <1>3, <1>7, <3>1
  <2>2. Descending(stack, S)
    BY <1>1, <1>2, <1>7
  <2>3. Descending(<<n>> \o stack, S \cup {n})
    BY <1>3, <2>1, <2>2, PushDescending
  <2>4. Ascending(functionStack, FunctionsAround(p, n))
    BY <1>1, <1>2 DEF Parts, StackPart
  <2> QED BY <1>1, <1>2, <1>6, <1>8, <1>9, <2>3, <2>4 DEF StackPart
<1>11. IsTree(q, children')
  <2>1. PICK ch : ch = children
    OBVIOUS
  <2>2. IsTree(p, ch) /\ h \in ScopesOf(p) /\ x.kind \in Begins
    BY <1>1, <2>1 DEF Parts
  <2>3. h = Max(Around(p, n) \ {b \in {Body(p, n)} : x.kind \in Ends})
    BY <1>1, <1>2
  <2>4. IsTree(q, [Including(ch, n, <<>>) EXCEPT ![h] = Append(@, n)])
    <3>1. IsAppended(p, x, q, n)
      BY <1>2
    <3> QED BY ONLY <3>1, <2>2, <2>3, ScopeIsCreated
  <2> QED BY <1>2, <2>1, <2>4
<1>12. IsOuter(q, outerFunction)
  <2>1. IsOuter(p, outerFunction) /\ x.kind # "function"
    BY <1>1 DEF Parts
  <2> QED BY <1>2, <2>1, OuterStays
<1>13. AreDeclared(q, 1, variables')
  <2>1. AreDeclared(p, 1, variables)
    BY <1>1, <1>4 DEF Parts
  <2>2. AreDeclared(q, 1, Including(variables, n, <<>>))
    BY <1>2, <2>1, VariablesOfABody
  <2> QED BY <1>2, <2>2
<1>14. LetsAreOutside(q)
  <2>1. LetsAreOutside(p) /\ x.kind # "let"
    BY <1>1 DEF Parts, Begins
  <2> QED BY <1>2, <2>1, AppendedLets
<1> QED BY <1>1, <1>4, <1>5, <1>10, <1>11, <1>12, <1>13, <1>14 DEF Parts

(* The body of an if or while statement.                                    *)
LEMMA FirstVisitBodyStep ==
  ASSUME ProgramPart, Parts, NEW kind \in Constructs, FirstVisitBody(kind)
  PROVE  ProgramPart' /\ Parts'
<1>1. PICK x : x = Item(kind, NONE, <<>>)
  OBVIOUS
<1>2. x \in Items /\ x.kind \in Begins \ {"function"} /\ x.kind \notin Ends
  BY <1>1, ScopeAssumption DEF Item, Items, Begins, Ends
<1>3. /\ Write(x) /\ UNCHANGED <<status, next, functionStack, outerFunction, results>>
      /\ variables' = Including(variables, Len(program) + 1, <<>>)
      /\ Push(Len(program) + 1)
  BY <1>1 DEF FirstVisitBody
<1>4. /\ IsAppended(program, x, program', Len(program) + 1) /\ Position = Len(program) + 1
      /\ status = "first" /\ Len(program) < MaxItems /\ Active
  BY <1>2, <1>3, WrittenItem
<1>5. PICK h : h = Head(scopes)
  OBVIOUS
<1>6. h = Body(program, Position) /\ h \in ScopesOf(program)
  BY <1>4, <1>5, WhereThePassIs DEF Parts
<1>7. Around(program, Position) \ {b \in {Body(program, Position)} : x.kind \in Ends} = Around(program, Position)
  BY <1>2
<1>8. h = Max(Around(program, Position) \ {b \in {Body(program, Position)} : x.kind \in Ends})
  BY <1>6, <1>7 DEF Body
<1>9. /\ children' = [Including(children, Position, <<>>) EXCEPT ![h] = Append(@, Position)]
      /\ scopes' = <<Position>> \o scopes
      /\ variables' = Including(variables, Position, <<>>)
  BY <1>3, <1>4, <1>5 DEF Push
<1>10. Descending(scopes, Around(program, Position)
                             \ {b \in {Body(program, Position)} : x.kind \in Ends})
  BY <1>7 DEF Parts, StackPart
<1> QED BY <1>2, <1>3, <1>4, <1>6, <1>8, <1>9, <1>10, BodyIsCreated

(* The else body is next to the body of the if statement.                   *)
LEMMA FirstVisitElseStep ==
  ASSUME ProgramPart, Parts, FirstVisitElse
  PROVE  ProgramPart' /\ Parts'
<1>1. PICK x : x = Item("else", NONE, <<>>)
  OBVIOUS
<1>2. x \in Items /\ x.kind \in Begins \ {"function"} /\ x.kind \in Ends
  BY <1>1 DEF Item, Items, Begins, Ends
<1>3. /\ Write(x) /\ UNCHANGED <<status, next, functionStack, outerFunction, results>>
      /\ variables' = Including(variables, Len(program) + 1, <<>>)
      /\ children' = [Including(children, Len(program) + 1, <<>>)
                        EXCEPT ![scopes[2]] = Append(@, Len(program) + 1)]
      /\ scopes' = <<Len(program) + 1>> \o Tail(scopes)
      /\ OpenItem = "if"
  BY <1>1 DEF FirstVisitElse
<1>4. status = "first" /\ Active /\ Position = Len(program) + 1
  BY <1>3 DEF Write, Active, Position
<1>5. Head(scopes) = Body(program, Position) /\ Head(scopes) \in ScopesOf(program)
  BY <1>4, WhereThePassIs DEF Parts
<1>6. Head(scopes) # TopScope /\ program[Head(scopes)].kind = "if"
  BY <1>3, NoneAssumption DEF OpenItem, Begins
<1>7. ~IsFunction(program, Body(program, Position)) /\ Body(program, Position) # TopScope
  BY <1>5, <1>6 DEF IsFunction
<1>8. /\ IsAppended(program, x, program', Len(program) + 1) /\ Len(program) < MaxItems
  BY <1>2, <1>3, <1>4, <1>7, WrittenItem
<1>9. PICK h : h = scopes[2]
  OBVIOUS
<1>10. /\ Descending(Tail(scopes), Around(program, Position) \ {Head(scopes)})
       /\ h = Max(Around(program, Position) \ {Head(scopes)})
  BY <1>4, <1>6, <1>9, WhereThePassIs DEF Parts
<1>11. {b \in {Body(program, Position)} : x.kind \in Ends} = {Head(scopes)}
  BY <1>2, <1>5
<1>12. /\ children' = [Including(children, Position, <<>>) EXCEPT ![h] = Append(@, Position)]
       /\ scopes' = <<Position>> \o Tail(scopes)
       /\ variables' = Including(variables, Position, <<>>)
  BY <1>3, <1>4, <1>9
<1>13. h \in ScopesOf(program)
  <2>1. ScopeAround(program, Head(scopes)) \in ScopesOf(program)
    BY <1>5, <1>6, ScopeIsNested DEF ProgramPart
  <2>2. Position \in 1..(Len(program) + 1) /\ Nested(program)
    BY <1>4, WhereThePassIs DEF Parts, ProgramPart
  <2>3. Around(program, Head(scopes) + 1) = Around(program, Position)
    BY <1>5, <2>2, ScopesAroundAnItem
  <2> QED BY <1>10, <2>1, <2>3 DEF ScopeAround
<1>14. PICK stack : stack = Tail(scopes)
  OBVIOUS
<1>15. h = Max(Around(program, Position) \ {b \in {Body(program, Position)} : x.kind \in Ends})
  BY <1>10, <1>11
<1>16. /\ scopes' = <<Position>> \o stack
       /\ Descending(stack, Around(program, Position) \ {b \in {Body(program, Position)} : x.kind \in Ends})
  BY <1>10, <1>11, <1>12, <1>14
<1> QED BY <1>2, <1>3, <1>4, <1>7, <1>8, <1>12, <1>13, <1>15, <1>16, BodyIsCreated
(* The innermost body ends.                                                 *)
LEMMA FirstVisitEndStep ==
  ASSUME ProgramPart, Parts, FirstVisitEnd
  PROVE  ProgramPart' /\ Parts'
<1>1. PICK x : x = Item("end", NONE, <<>>)
  OBVIOUS
<1>2. /\ x \in Items /\ x.kind \notin Begins /\ x.kind \in Ends
      /\ x.kind # "function" /\ x.kind # "let"
  BY <1>1 DEF Item, Items, Begins, Ends
<1>3. /\ Write(x) /\ UNCHANGED <<status, next, tree, outerFunction, results>>
      /\ functionStack' = IF OpenItem = "function" THEN Front(functionStack) ELSE functionStack
      /\ scopes' = Tail(scopes)
      /\ OpenItem \in {"function", "while", "else"}
  BY <1>1 DEF FirstVisitEnd, Pop
<1>4. PICK p, q, n : p = program /\ q = program' /\ n = Len(program) + 1
  OBVIOUS
<1>5. status = "first" /\ Active /\ Position = n
  BY <1>3, <1>4 DEF Write, Active, Position
<1>6. Head(scopes) = Body(p, n)
  BY <1>4, <1>5, WhereThePassIs DEF Parts
<1>7. Body(p, n) # TopScope /\ OpenItem = p[Body(p, n)].kind
  BY <1>3, <1>4, <1>6, NoneAssumption DEF OpenItem, Begins
<1>8. IsAppended(p, x, q, n) /\ Len(program) < MaxItems
  BY <1>2, <1>3, <1>4, <1>7, WrittenItem
<1>9. n \in Nat \ {0} /\ Len(q) = n
  <2>1. IsAppended(p, x, q, n)
    BY <1>8
  <2> QED BY ONLY <2>1, AppendedItem
<1>10. next = 1
  BY <1>5, NothingResolvedYet
<1>11. ProgramPart'
  <2>1. next' = next /\ resolved' = resolved /\ status' \in {"first", "error"}
    BY <1>3, <1>5 DEF results
  <2> QED BY <1>4, <1>5, <1>8, <2>1, ProgramIsAppended
<1>12. Position' = n + 1
  BY <1>3, <1>4, <1>5, <1>9 DEF Position
<1>13. /\ Around(q, n + 1) = Around(p, n) \ {Body(p, n)}
       /\ FunctionsAround(q, n + 1) = FunctionsAround(p, n) \ {Body(p, n)}
  <2>1. Around(q, n + 1) = (Around(p, n) \ {b \in {Body(p, n)} : x.kind \in Ends})
                              \cup {b \in {n} : x.kind \in Begins}
    BY <1>8, AppendedItemIsInside
  <2>2. FunctionsAround(q, n + 1) =
           (FunctionsAround(p, n) \ {b \in {Body(p, n)} : x.kind \in Ends})
             \cup {b \in {n} : x.kind = "function"}
    BY <1>8, FunctionsAroundNext
  <2> QED BY <1>2, <2>1, <2>2
<1>14. Descending(scopes', Around(q, n + 1))
  <2>1. Descending(Tail(scopes), Around(p, n) \ {Head(scopes)})
    BY <1>4, <1>5, WhereThePassIs DEF Parts
  <2> QED BY <1>3, <1>6, <1>13, <2>1
<1>15. Ascending(functionStack', FunctionsAround(q, n + 1))
  <2>1. /\ Last(functionStack) = FunctionAround(p, n)
        /\ Ascending(functionStack, FunctionsAround(p, n))
    BY <1>4, <1>5, InnermostFunction DEF Parts
  <2>2. Nested(p) /\ n \in 1..(Len(p) + 1)
    BY <1>4, <1>8, <1>9 DEF IsAppended
  <2>3. /\ FunctionAround(p, n) \in FunctionsAround(p, n)
        /\ \A f \in FunctionsAround(p, n) : f <= FunctionAround(p, n)
    BY <2>2, FunctionsAroundAnItem
  <2>4. Body(p, n) \in Around(p, n) /\ \A b \in Around(p, n) : b <= Body(p, n)
    BY <1>9, BodyFacts
  <2>5. CASE OpenItem = "function"
    <3>1. Body(p, n) \in FunctionsAround(p, n)
      BY <1>7, <2>4, <2>5 DEF FunctionsAround, IsFunction
    <3>2. Body(p, n) = FunctionAround(p, n)
      <4>1. FunctionAround(p, n) \in Around(p, n)
        BY <2>3 DEF FunctionsAround
      <4>2. Around(p, n) \in SUBSET (0..(n - 1))
        BY <1>9, OpenBodies
      <4>3. Body(p, n) \in Int /\ FunctionAround(p, n) \in Int
        BY <2>4, <4>1, <4>2
      <4>4. Body(p, n) <= FunctionAround(p, n) /\ FunctionAround(p, n) <= Body(p, n)
        BY <2>3, <2>4, <3>1, <4>1
      <4> QED BY ONLY <4>3, <4>4
    <3>3. Ascending(Front(functionStack), FunctionsAround(p, n) \ {Last(functionStack)})
      BY <2>1, <2>3, PopAscending
    <3> QED BY <1>3, <1>13, <2>1, <2>5, <3>2, <3>3
  <2>6. CASE OpenItem # "function"
    <3>1. Body(p, n) \notin FunctionsAround(p, n)
      BY <1>7, <2>6 DEF FunctionsAround, IsFunction
    <3> QED BY <1>3, <1>13, <2>1, <2>6, <3>1
  <2> QED BY <2>5, <2>6
<1>16. StackPart'
  BY <1>4, <1>12, <1>14, <1>15 DEF StackPart
<1>17. IsTree(q, children)
  <2>1. ScopesOf(q) = ScopesOf(p) /\ \A s \in ScopesOf(p) : ScopeAround(q, s) = ScopeAround(p, s)
    BY <1>2, <1>8, AppendedScopes, AppendedItemIsInside
  <2>2. IsTree(p, children)
    BY <1>4 DEF Parts
  <2> QED BY <2>1, <2>2, TreeStays
<1>18. IsOuter(q, outerFunction)
  <2>1. IsOuter(p, outerFunction)
    BY <1>4 DEF Parts
  <2> QED BY <1>2, <1>8, <2>1, OuterStays
<1>19. AreDeclared(q, 1, variables)
  <2>1. AreDeclared(p, 1, variables)
    BY <1>4, <1>10 DEF Parts
  <2> QED BY <1>2, <1>8, <2>1, VariablesStay
<1>20. LetsAreOutside(q)
  <2>1. LetsAreOutside(p)
    BY <1>4 DEF Parts
  <2> QED BY <1>2, <1>8, <2>1, AppendedLets
<1>21. next' = 1 /\ children' = children /\ variables' = variables /\ outerFunction' = outerFunction
  BY <1>3, <1>10 DEF tree
<1> QED BY <1>4, <1>11, <1>16, <1>17, <1>18, <1>19, <1>20, <1>21 DEF Parts

(* The second pass begins.                                                  *)
LEMMA EndFirstPassStep ==
  ASSUME ProgramPart, Parts, EndFirstPass
  PROVE  ProgramPart' /\ Parts'
<1>1. /\ status = "first" /\ scopes = <<TopScope>> /\ status' = "second" /\ next' = 1
      /\ UNCHANGED <<program, scopes, functionStack, tree, outerFunction, results>>
  BY DEF EndFirstPass
<1>2. next = 1 /\ DOMAIN resolved = {}
  BY <1>1, NothingResolvedYet
<1>3. Position' = 1
  BY <1>1 DEF Position
<1>4. ProgramPart'
  BY <1>1, <1>2 DEF ProgramPart, results
<1>5. Around(program, 1) = {TopScope}
  BY AtTheBeginning
<1>6. Descending(<<TopScope>>, {TopScope})
  BY DEF Descending, ToSet, TopScope
<1>7. StackPart'
  BY <1>1, <1>3, <1>5, <1>6 DEF StackPart
<1> QED BY <1>1, <1>2, <1>4, <1>7 DEF Parts, tree
-----------------------------------------------------------------------------
(* The initial state.                                                       *)

(* A finite set as a sequence.                                              *)
LEMMA SetAsSequence ==
  ASSUME NEW S, IsFiniteSet(S)
  PROVE  /\ SetToSeq(S) \in Seq(S) /\ IsInjective(SetToSeq(S)) /\ ToSet(SetToSeq(S)) = S
<1>1. PICK n \in Nat : n = Cardinality(S)
  BY FS_CardinalityType
<1>2. ExistsBijection(1..n, S)
  BY <1>1, FS_CardinalityType
<1>3. \E f \in [1..n -> S] : IsInjective(f)
  BY <1>2 DEF ExistsBijection, Bijection, Injection
<1>4. PICK f : f = SetToSeq(S)
  OBVIOUS
<1>5. f \in [1..n -> S] /\ IsInjective(f)
  <2>1. f = CHOOSE g \in [1..n -> S] : IsInjective(g)
    BY <1>1, <1>4 DEF SetToSeq
  <2> QED BY <1>3, <2>1
<1>6. f \in Injection(1..n, S)
  BY <1>5 DEF Injection
<1>7. Cardinality(1..n) = Cardinality(S)
  <2>1. Cardinality(1..n) = IF 1 > n THEN 0 ELSE n - 1 + 1
    BY FS_Interval
  <2> QED BY <1>1, <2>1
<1>8. f \in Surjection(1..n, S)
  BY <1>6, <1>7, FS_Injection
<1>9. ToSet(f) = S
  BY <1>5, <1>8 DEF Surjection, ToSet
<1>10. f \in Seq(S)
  BY <1>5
<1> QED BY <1>4, <1>5, <1>9, <1>10

(* The builtin functions are the Variables of the top scope.                *)
LEMMA BuiltinsAreDeclared ==
  ASSUME Init
  PROVE  AreDeclared(<<>>, 1, variables)
<1>1. PICK b : b = SetToSeq(Builtins)
  OBVIOUS
<1>2. b \in Seq(Builtins) /\ IsInjective(b) /\ ToSet(b) = Builtins
  BY <1>1, SetAsSequence, BuiltinsAssumption
<1>3. PICK vs : vs = variables[TopScope]
  OBVIOUS
<1>4. /\ DOMAIN variables = {TopScope}
      /\ vs = [k \in 1..Len(b) |-> NewVariable(0, b[k], "builtin_function", TopScope, FALSE)]
  BY <1>1, <1>3 DEF Init
<1>5. ASSUME NEW k \in 1..Len(b)
      PROVE  /\ b[k] \in Builtins
             /\ vs[k] = NewVariable(0, b[k], "builtin_function", TopScope, FALSE)
             /\ vs[k] \in Variable /\ vs[k].name = b[k]
  <2>1. b[k] \in Builtins
    BY <1>2
  <2>2. vs[k] = NewVariable(0, b[k], "builtin_function", TopScope, FALSE)
    BY <1>4
  <2> QED BY <2>1, <2>2, BuiltinsAssumption, ScopeAssumption DEF NewVariable, Variable, TopScope
<1>6. vs \in Seq(Variable) /\ DOMAIN vs = 1..Len(b) /\ DOMAIN b = 1..Len(b)
  <2>1. PICK n \in Nat : n = Len(b)
    BY <1>2
  <2>2. DOMAIN vs = 1..n /\ DOMAIN b = 1..n
    BY <1>2, <1>4, <2>1
  <2>3. vs = [k \in 1..n |-> vs[k]]
    BY <1>4, <2>1
  <2>4. \A k \in 1..n : vs[k] \in Variable
    BY <1>5, <2>1
  <2>5. vs \in [1..n -> Variable]
    BY <2>3, <2>4
  <2>6. vs \in Seq(Variable)
    BY <2>5
  <2> QED BY <2>1, <2>2, <2>6
<1>7. NamesDiffer(vs)
  BY <1>2, <1>5, <1>6 DEF NamesDiffer, IsInjective
<1>8. ToSet(vs) = BuiltinsOf(TopScope)
  <2>1. ASSUME NEW v \in ToSet(vs) PROVE v \in BuiltinsOf(TopScope)
    BY <1>5, <1>6 DEF ToSet, BuiltinsOf
  <2>2. ASSUME NEW v \in BuiltinsOf(TopScope) PROVE v \in ToSet(vs)
    <3>1. PICK name \in Builtins : v = NewVariable(0, name, "builtin_function", TopScope, FALSE)
      BY DEF BuiltinsOf
    <3>2. PICK k \in 1..Len(b) : b[k] = name
      BY <1>2, <1>6 DEF ToSet
    <3> QED BY <1>5, <1>6, <3>1, <3>2 DEF ToSet
  <2> QED BY <2>1, <2>2
<1>9. DeclaredVariables(<<>>, 1, TopScope) = BuiltinsOf(TopScope)
  <2>0. <<>> \in Seq(Items)
    OBVIOUS
  <2>1. PICK p : p = <<>> /\ p \in Seq(Items)
    BY <2>0
  <2>2. DeclaredVariables(p, 1, TopScope) = BuiltinsOf(TopScope) \cup FunctionsOf(p, TopScope)
    BY <2>1, OnlyFunctionsYet DEF TopScope
  <2>3. FunctionsOf(p, TopScope) = {}
    BY <2>1 DEF FunctionsOf
  <2> QED BY <2>1, <2>2, <2>3
<1>10. ScopesOf(<<>>) = {TopScope}
  BY DEF ScopesOf
<1> QED BY <1>3, <1>4, <1>6, <1>7, <1>8, <1>9, <1>10 DEF AreDeclared

(* The invariant holds at first.                                            *)
LEMMA InitParts ==
  ASSUME Init
  PROVE  ProgramPart /\ Parts
<1>1. PICK p : p = <<>>
  OBVIOUS
<1>2. /\ program = p /\ status = "first" /\ next = 1 /\ scopes = <<TopScope>>
      /\ functionStack = <<TopScope>> /\ children = [s \in {TopScope} |-> <<>>]
      /\ outerFunction = <<>> /\ resolved = <<>>
  BY <1>1 DEF Init
<1>3. Nested(p) /\ Len(p) = 0 /\ DOMAIN p = {}
  BY <1>1 DEF Nested
<1>4. ProgramPart
  <2>1. next \in 1..(Len(program) + 1) /\ Len(program) <= MaxItems
    BY <1>2, <1>3, ScopeAssumption
  <2>2. DOMAIN resolved = {}
    BY <1>2
  <2> QED BY <1>2, <1>3, <2>1, <2>2 DEF ProgramPart
<1>5. Position = 1
  BY <1>2, <1>3 DEF Position
<1>6. Around(p, 1) = {TopScope}
  BY AtTheBeginning
<1>7. FunctionsAround(p, 1) = {TopScope}
  BY <1>6 DEF FunctionsAround, IsFunction
<1>8. StackPart
  <2>1. Descending(<<TopScope>>, {TopScope}) /\ Ascending(<<TopScope>>, {TopScope})
    BY DEF Descending, Ascending, ToSet, TopScope
  <2> QED BY <1>2, <1>5, <1>6, <1>7, <2>1 DEF StackPart
<1>9. IsTree(p, children)
  <2>1. ScopesOf(p) = {TopScope}
    BY <1>3 DEF ScopesOf
  <2>2. DOMAIN children = {TopScope} /\ children[TopScope] = <<>>
    BY <1>2
  <2>3. ToSet(<<>>) = {}
    BY DEF ToSet
  <2> QED BY <2>1, <2>2, <2>3 DEF IsTree
<1>10. IsOuter(p, outerFunction)
  BY <1>2, <1>3 DEF IsOuter
<1>11. AreDeclared(p, 1, variables)
  BY <1>1, BuiltinsAreDeclared
<1>12. LetsAreOutside(p)
  BY <1>3 DEF LetsAreOutside
<1> QED BY <1>2, <1>4, <1>8, <1>9, <1>10, <1>11, <1>12 DEF Parts
-----------------------------------------------------------------------------
(* The second pass.                                                         *)

(* An item is visited.                                                      *)
LEMMA VisitedItem ==
  ASSUME ProgramPart, StackPart, NEW kinds, Visit(kinds)
  PROVE  /\ next \in DOMAIN program /\ next \in Nat \ {0} /\ program[next].kind \in kinds
         /\ Active /\ status = "second" /\ Position = next
         /\ Nested(program) /\ ParametersDifferBefore(program, next)
         /\ Around(program, next + 1) = NextAround(program, next)
         /\ next' = next + 1
         /\ UNCHANGED <<program, functionStack, outerFunction, offsets>>
<1>1. /\ status = "second" /\ next <= Len(program) /\ program[next].kind \in kinds
      /\ next' = next + 1
      /\ UNCHANGED <<program, functionStack, outerFunction, offsets>>
  BY DEF Visit
<1>2. Nested(program) /\ next \in 1..(Len(program) + 1) /\ program \in Seq(Items)
  BY DEF ProgramPart, Nested
<1>3. next \in DOMAIN program /\ next \in Nat \ {0}
  BY <1>1, <1>2
<1>4. Active /\ Position = next
  BY <1>1 DEF Active, Position
<1>5. ParametersDifferBefore(program, next)
  BY DEF ProgramPart, ParametersDifferBefore
<1>6. Around(program, next + 1) = NextAround(program, next)
  BY <1>2, <1>3, Nesting
<1> QED BY <1>1, <1>2, <1>3, <1>4, <1>5, <1>6

(* The resolved names, and the parameters of the functions.                 *)
LEMMA ProgramIsVisited ==
  ASSUME ProgramPart, StackPart, NEW kinds, Visit(kinds), status' # "first",
         DOMAIN resolved' = DOMAIN resolved \cup {i \in {next} : program[next].kind = "use"},
         program[next].kind = "function" => IsInjective(program[next].parameters)
  PROVE  ProgramPart'
<1>1. PICK p, n : p = program /\ n = next
  OBVIOUS
<1>2. /\ n \in DOMAIN p /\ n \in Nat \ {0} /\ Nested(p) /\ ParametersDifferBefore(p, n)
      /\ next' = n + 1 /\ program' = p
  BY <1>1, VisitedItem
<1>3. p \in Seq(Items)
  BY <1>2 DEF Nested
<1>4. \A i \in DOMAIN p : i < n + 1 <=> i < n \/ i = n
  BY <1>2, <1>3
<1>5. DOMAIN resolved' = {i \in DOMAIN p : i < n + 1 /\ p[i].kind = "use"}
  <2>1. DOMAIN resolved = {i \in DOMAIN p : i < n /\ p[i].kind = "use"}
    BY <1>1 DEF ProgramPart
  <2> QED BY <1>1, <1>2, <1>4, <2>1
<1>6. \A i \in DOMAIN p : i < n + 1 /\ p[i].kind = "function" => IsInjective(p[i].parameters)
  BY <1>1, <1>2, <1>4 DEF ParametersDifferBefore
<1>7. n + 1 \in 1..(Len(p) + 1) /\ Len(p) <= MaxItems
  BY <1>1, <1>2, <1>3 DEF ProgramPart
<1> QED BY <1>2, <1>5, <1>6, <1>7 DEF ProgramPart

(* Items other than let statements and functions declare nothing.           *)
LEMMA NothingIsDeclared ==
  ASSUME NEW p, Nested(p), NEW n \in DOMAIN p, p[n].kind \notin {"let", "function"},
         NEW vs, AreDeclared(p, n, vs)
  PROVE  AreDeclared(p, n + 1, vs)
<1>1. ASSUME NEW s \in ScopesOf(p) PROVE AddedBy(p, n, s) = {}
  <2>1. s = n => DOMAIN ParametersOf(p, s) = {}
    <3>1. ParametersOf(p, s) \in Seq(Names)
      BY ParameterFacts
    <3>2. s = n => ParametersOf(p, s) = <<>>
      BY ParameterFacts
    <3> QED BY <3>2
  <2> QED BY <2>1 DEF AddedBy
<1>2. \A s \in ScopesOf(p) : DeclaredVariables(p, n + 1, s) = DeclaredVariables(p, n, s)
  <2> TAKE s \in ScopesOf(p)
  <2>1. DeclaredVariables(p, n + 1, s) = DeclaredVariables(p, n, s) \cup AddedBy(p, n, s)
    BY ItemIsVisited
  <2> QED BY <1>1, <2>1
<1> QED BY <1>2 DEF AreDeclared

(* The scope of a body has been created by the first pass.                  *)
LEMMA ScopeIsPushedAgain ==
  ASSUME NEW p, Nested(p), NEW n \in DOMAIN p, p[n].kind \in Begins,
         NEW ch, IsTree(p, ch), NEW h \in ScopesOf(p), h = ScopeAround(p, n), NEW ch2,
         \/ ch2 = [Including(ch, n, <<>>) EXCEPT ![h] = Append(@, n)]
         \/ ch2 = [ch EXCEPT ![h] = Append(@, n)]
  PROVE  IsTree(p, ch2)
<1>1. p \in Seq(Items)
  BY DEF Nested
<1>2. n \in Nat \ {0} /\ n \in ScopesOf(p)
  BY <1>1, ItemFacts DEF ScopesOf
<1>3. DOMAIN ch = ScopesOf(p)
  BY DEF IsTree
<1>4. /\ DOMAIN ch2 = ScopesOf(p) /\ ch2[h] = Append(ch[h], n)
      /\ \A s \in ScopesOf(p) \ {h} : ch2[s] = ch[s]
  BY <1>2, <1>3 DEF Including
<1>5. h # n
  <2>1. ScopeAround(p, n) < n
    BY <1>2, ScopeIsNested DEF TopScope
  <2> QED BY <1>2, <2>1
<1>6. n \notin {TopScope, h}
  BY <1>2, <1>5 DEF TopScope
<1>7. ScopesOf(p) = ScopesOf(p) \cup {n} /\ \A s \in ScopesOf(p) : ScopeAround(p, s) = ScopeAround(p, s)
  BY <1>2
<1>8. ScopeAround(p, n) = h /\ (n \notin ScopesOf(p) => ch2[n] = <<>>)
  BY <1>2
<1> QED BY <1>2, <1>4, <1>6, <1>7, <1>8, TreeGrows
-----------------------------------------------------------------------------
(* What a name means.                                                       *)

(* The Variables of a name are its declarations, as far as they have been   *)
(* reached.                                                                 *)
LEMMA ReachedDeclarations ==
  ASSUME NEW p, Nested(p), NEW n \in DOMAIN p, p[n].kind = "use", ParametersDifferBefore(p, n),
         NEW b \in Around(p, n), NEW name
  PROVE  \A j : j \in DeclaredBefore(p, n, b, name)
                 <=> \E u \in DeclaredVariables(p, n, b) : u.name = name /\ DeclarationOf(p, u) = j
<1>1. p \in Seq(Items)
  BY DEF Nested
<1>2. n \in Nat \ {0} /\ n \in 1..(Len(p) + 1)
  BY <1>1, ItemFacts
<1>3. b \in ScopesOf(p) /\ b < n
  <2>1. Around(p, n) \subseteq ScopesOf(p)
    BY <1>2, ScopesAroundAnItem
  <2>2. Around(p, n) \in SUBSET (0..(n - 1))
    BY <1>2, OpenBodies
  <2> QED BY <1>2, <2>1, <2>2
<1>4. ASSUME NEW u \in DeclaredVariables(p, n, b), u.name = name
      PROVE  DeclarationOf(p, u) \in DeclaredBefore(p, n, b, name)
  <2>1. PICK j : j = DeclarationOf(p, u)
    OBVIOUS
  <2>2. /\ j \in DeclarationsIn(p, b, name)
        /\ \/ j \in DOMAIN p /\ p[j].kind = "function"
           \/ j \in DOMAIN p /\ p[j].kind = "let" /\ j < n
           \/ j = 0
           \/ b < n /\ \E k \in Nat \ {0} : j = -k
    BY <1>3, <1>4, <2>1, VariableIsDeclared
  <2>3. p[j].kind = "function" \/ j <= n
    BY <1>1, <1>2, <2>2
  <2> QED BY <2>1, <2>2, <2>3 DEF DeclaredBefore
<1>5. ASSUME NEW j \in DeclaredBefore(p, n, b, name)
      PROVE  \E u \in DeclaredVariables(p, n, b) : u.name = name /\ DeclarationOf(p, u) = j
  <2>1. j \in DeclarationsIn(p, b, name) /\ (j <= n \/ p[j].kind = "function")
    BY DEF DeclaredBefore
  <2>2. j \in DOMAIN p => j # n
    <3>1. j \in DOMAIN p => p[j].kind \in {"let", "function"}
      <4>1. CASE j \in DOMAIN p /\ j = 0
        BY <1>1, <4>1
      <4>2. CASE j \in DOMAIN p /\ j # 0
        <5>1. j \in Nat \ {0}
          BY <1>1, <4>2
        <5>2. \A k \in DOMAIN ParametersOf(p, b) : j # -k
          <6>1. ParametersOf(p, b) \in Seq(Names)
            BY <1>3, ParameterFacts
          <6> QED BY <5>1, <6>1
        <5> QED BY <2>1, <4>2, <5>2 DEF DeclarationsIn
      <4> QED BY <4>1, <4>2
    <3> QED BY <3>1
  <2>3. \/ j \in DOMAIN p /\ (p[j].kind = "function" \/ j < n)
        \/ j \notin DOMAIN p /\ b < n
    BY <1>1, <1>2, <1>3, <2>1, <2>2
  <2> QED BY <1>3, <2>1, <2>3, DeclarationHasVariable
<1> QED BY <1>4, <1>5

(* The Variable that Resolve finds is what the name means.                  *)
LEMMA ResolvedMeaning ==
  ASSUME ProgramPart, Parts, status = "second", next <= Len(program), program[next].kind = "use",
         NEW v, v = Resolve(Head(scopes), program[next].name)
  PROVE  /\ v = NONE => Meaning(program, next) = {}
         /\ v # NONE =>
              /\ v \in Variable
              /\ Meaning(program, next) = {<<DeclaredIn(program, v), DeclarationOf(program, v)>>}
              /\ v.allocation \in FunctionsAround(program, next)
<1>1. PICK p, n, name, vs : p = program /\ n = next /\ name = p[n].name /\ vs = variables
  OBVIOUS
<1>2. Nested(p) /\ n \in 1..(Len(p) + 1) /\ p \in Seq(Items)
  BY <1>1 DEF ProgramPart, Nested
<1>3. n \in DOMAIN p /\ n \in Nat \ {0} /\ Position = n /\ Active /\ ParametersDifferBefore(p, n)
  BY <1>1, <1>2 DEF Position, Active, ParametersDifferBefore, ProgramPart
<1>4. PICK s : s = Head(scopes)
  OBVIOUS
<1>5. s = Body(p, n) /\ s \in ScopesOf(p)
  BY <1>1, <1>3, <1>4, WhereThePassIs DEF Parts
<1>6. Around(p, s + 1) = Around(p, n) /\ Around(p, n) \subseteq ScopesOf(p)
  BY <1>2, <1>5, ScopesAroundAnItem
<1>7. AreDeclared(p, n, vs)
  BY <1>1 DEF Parts
<1>8. ASSUME NEW b \in Around(p, n)
      PROVE  /\ HasVariable(b, name) => /\ GetVariable(b, name) \in DeclaredVariables(p, n, b)
                                        /\ GetVariable(b, name) \in Variable
                                        /\ GetVariable(b, name).name = name
                                        /\ DeclaredBefore(p, n, b, name) = {DeclarationOf(p, GetVariable(b, name))}
             /\ ~HasVariable(b, name) => DeclaredBefore(p, n, b, name) = {}
  <2>1. b \in ScopesOf(p)
    BY <1>6
  <2>2. vs[b] \in Seq(Variable) /\ NamesDiffer(vs[b]) /\ ToSet(vs[b]) = DeclaredVariables(p, n, b)
    BY <1>7, <2>1 DEF AreDeclared
  <2>3. HasVariable(b, name) <=> \E u \in DeclaredVariables(p, n, b) : u.name = name
    BY <1>1, <2>2 DEF HasVariable
  <2>4. \A j : j \in DeclaredBefore(p, n, b, name)
                <=> \E u \in DeclaredVariables(p, n, b) : u.name = name /\ DeclarationOf(p, u) = j
    BY <1>1, <1>2, <1>3, ReachedDeclarations
  <2>5. HasVariable(b, name) =>
          GetVariable(b, name) \in DeclaredVariables(p, n, b) /\ GetVariable(b, name).name = name
    BY <1>1, <2>2, <2>3 DEF GetVariable
  <2>6. \A u, w \in DeclaredVariables(p, n, b) : u.name = name /\ w.name = name => u = w
    <3>1. \A j, k \in DOMAIN vs[b] : vs[b][j].name = vs[b][k].name => j = k
      BY <2>2 DEF NamesDiffer
    <3>2. DeclaredVariables(p, n, b) = {vs[b][k] : k \in DOMAIN vs[b]}
      BY <2>2 DEF ToSet
    <3> QED BY ONLY <3>1, <3>2
  <2>7. GetVariable(b, name) \in DeclaredVariables(p, n, b) => GetVariable(b, name) \in Variable
    <3>1. \A k \in DOMAIN vs[b] : vs[b][k] \in Variable
      BY <2>2, ElementType
    <3>2. DeclaredVariables(p, n, b) = {vs[b][k] : k \in DOMAIN vs[b]}
      BY <2>2 DEF ToSet
    <3> QED BY ONLY <3>1, <3>2
  <2>8. CASE HasVariable(b, name)
    BY <2>4, <2>5, <2>6, <2>7, <2>8
  <2>9. CASE ~HasVariable(b, name)
    BY <2>3, <2>4, <2>9
  <2> QED BY <2>8, <2>9
<1>9. {b \in Around(p, n) : DeclaredBefore(p, n, b, name) # {}} = ScopesWith(s, name)
  <2>1. ScopesWith(s, name) = {b \in Around(p, n) : HasVariable(b, name)}
    BY <1>1, <1>6 DEF ScopesWith
  <2> QED BY <1>8, <2>1
<1>10. PICK S : S = ScopesWith(s, name)
  OBVIOUS
<1>11. v = IF S = {} THEN NONE ELSE GetVariable(Max(S), name)
  <2>1. Resolve(s, name) = IF S = {} THEN NONE ELSE GetVariable(Max(S), name)
    BY <1>1, <1>2, <1>5, <1>10, ResolveFindsInnermost DEF Parts
  <2> QED BY <1>1, <1>4, <2>1
<1>12. Meaning(p, n) = IF S = {} THEN {} ELSE {<<Max(S), j>> : j \in DeclaredBefore(p, n, Max(S), name)}
  <2>1. PICK bs : bs = {b \in Around(p, n) : DeclaredBefore(p, n, b, p[n].name) # {}}
    OBVIOUS
  <2>2. Meaning(p, n) = IF bs = {} THEN {} ELSE {<<Max(bs), j>> : j \in DeclaredBefore(p, n, Max(bs), p[n].name)}
    BY <2>1 DEF Meaning
  <2>3. bs = S /\ name = p[n].name
    BY <1>1, <1>9, <1>10, <2>1
  <2> QED BY ONLY <2>2, <2>3
<1>13. CASE S = {}
  BY <1>1, <1>11, <1>12, <1>13
<1>14. CASE S # {}
  <2>1. PICK m : m = Max(S)
    OBVIOUS
  <2>2. m \in Around(p, n) /\ HasVariable(m, name)
    <3>1. Around(p, n) \in SUBSET (0..(n - 1)) /\ n - 1 \in Nat
      BY <1>3, OpenBodies
    <3>2. S \in SUBSET (0..(n - 1))
      BY <1>1, <1>6, <1>10, <3>1 DEF ScopesWith
    <3>3. m \in S
      BY <1>14, <2>1, <3>1, <3>2, GreatestElement
    <3> QED BY <1>1, <1>6, <1>10, <3>3 DEF ScopesWith
  <2>3. v = GetVariable(m, name)
    BY <1>11, <1>14, <2>1
  <2>4. /\ v \in DeclaredVariables(p, n, m) /\ v \in Variable
        /\ DeclaredBefore(p, n, m, name) = {DeclarationOf(p, v)}
    BY <1>8, <2>2, <2>3
  <2>5. m \in ScopesOf(p)
    BY <1>6, <2>2
  <2>6. v.allocation = FunctionAround(p, m + 1) /\ DeclaredIn(p, v) = m
    BY <1>2, <1>3, <2>4, <2>5, VariableIsDeclared
  <2>7. Meaning(p, n) = {<<DeclaredIn(p, v), DeclarationOf(p, v)>>}
    BY <1>12, <1>14, <2>1, <2>4, <2>6
  <2>8. v.allocation \in FunctionsAround(p, n)
    <3>1. m + 1 \in 1..(Len(p) + 1)
      BY <1>2, <2>5, ScopeIsNested
    <3>2. FunctionAround(p, m + 1) \in FunctionsAround(p, m + 1)
      BY <1>2, <3>1, FunctionsAroundAnItem
    <3>3. Around(p, m + 1) = {c \in Around(p, n) : c <= m}
      BY <1>2, <2>2, Nesting DEF WellNestedAt
    <3> QED BY <2>6, <3>2, <3>3 DEF FunctionsAround
  <2>9. v # NONE
    BY <2>4, NoneAssumption
  <2> QED BY <1>1, <2>4, <2>7, <2>8, <2>9
<1> QED BY <1>13, <1>14
(* Visiting leaves the program and what has been resolved as they are.      *)
LEMMA ResolvedStays ==
  ASSUME ResolvesLexically, CapturesAreKnown, UNCHANGED <<program, outerFunction, resolved, referred>>
  PROVE  ResolvesLexically' /\ CapturesAreKnown'
BY DEF ResolvesLexically, CapturesAreKnown, ScopeType

(* Nothing is resolved, nothing is referred to.                             *)
LEMMA NothingIsResolved ==
  ASSUME CapturesAreKnown, DOMAIN resolved = {}, UNCHANGED <<resolved, referred>>
  PROVE  ResolvesLexically' /\ CapturesAreKnown'
<1>1. referred = {}
  BY DEF CapturesAreKnown
<1>2. DOMAIN resolved' = {} /\ referred' = {}
  BY <1>1
<1>3. ResolvesLexically'
  BY <1>2 DEF ResolvesLexically
<1>4. CapturesAreKnown'
  BY <1>2 DEF CapturesAreKnown
<1> QED BY <1>3, <1>4

(* A name is resolved.                                                      *)
LEMMA VisitVariableExpressionStep ==
  ASSUME ProgramPart, Parts, VisitVariableExpression
  PROVE  ProgramPart' /\ Parts'
<1>1. Visit({"use"}) /\ UNCHANGED <<status, scopes, tree, gathered>>
  BY DEF VisitVariableExpression
<1>2. PICK v : v = Resolve(Head(scopes), program[next].name)
  OBVIOUS
<1>3. resolved' = Including(resolved, next, v)
  BY <1>2 DEF VisitVariableExpression
<1>4. PICK p, n : p = program /\ n = next
  OBVIOUS
<1>5. /\ n \in DOMAIN p /\ n \in Nat \ {0} /\ p[n].kind = "use" /\ Nested(p)
      /\ Around(p, n + 1) = NextAround(p, n) /\ next' = n + 1 /\ status = "second" /\ Position = n
      /\ UNCHANGED <<program, functionStack, outerFunction, offsets>>
  BY <1>1, <1>4, VisitedItem DEF Parts
<1>6. DOMAIN resolved' = DOMAIN resolved \cup {i \in {next} : program[next].kind = "use"}
  BY <1>3, <1>4, <1>5 DEF Including
<1>7. ProgramPart'
  <2>1. status' # "first" /\ program[next].kind # "function"
    BY <1>1, <1>4, <1>5
  <2> QED BY <1>1, <1>6, <2>1, ProgramIsVisited DEF Parts
<1>8. Around(p, n + 1) = Around(p, n)
  BY <1>5 DEF NextAround, Ends, Begins
<1>9. StackPart'
  BY <1>1, <1>4, <1>5, <1>8 DEF Parts, StackPart, Position
<1>10. AreDeclared(p, n + 1, variables)
  <2>1. AreDeclared(p, n, variables)
    BY <1>4 DEF Parts
  <2> QED BY <1>5, <2>1, NothingIsDeclared
<1> QED BY <1>1, <1>4, <1>5, <1>7, <1>9, <1>10 DEF Parts, tree

(* What it means.                                                           *)
LEMMA VisitVariableExpressionResolves ==
  ASSUME ProgramPart, Parts, ResolvesLexically, CapturesAreKnown, VisitVariableExpression
  PROVE  /\ ResolvesLexically' /\ CapturesAreKnown'
         /\ \E v \in Variable : resolved' = Including(resolved, next, v)
<1>1. Visit({"use"})
  BY DEF VisitVariableExpression
<1>2. PICK v : v = Resolve(Head(scopes), program[next].name)
  OBVIOUS
<1>3. /\ v # NONE /\ resolved' = Including(resolved, next, v)
      /\ referred' = referred \cup (IF IsReferredByInner(v) THEN {v} ELSE {})
  BY <1>2 DEF VisitVariableExpression
<1>4. PICK p, n : p = program /\ n = next
  OBVIOUS
<1>5. /\ n \in DOMAIN p /\ n \in Nat \ {0} /\ p[n].kind = "use" /\ Nested(p) /\ Active
      /\ status = "second" /\ Position = n
      /\ UNCHANGED <<program, functionStack, outerFunction, offsets>>
  BY <1>1, <1>4, VisitedItem DEF Parts
<1>6. /\ v \in Variable
      /\ Meaning(p, n) = {<<DeclaredIn(p, v), DeclarationOf(p, v)>>}
      /\ v.allocation \in FunctionsAround(p, n)
  <2>1. next <= Len(program) /\ program[next].kind = "use"
    BY <1>1, <1>4, <1>5 DEF Visit
  <2> QED BY <1>2, <1>3, <1>4, <1>5, <2>1, ResolvedMeaning
<1>7. n \notin DOMAIN resolved
  BY <1>4, <1>5 DEF ProgramPart
<1>8. PICK r, r2 : r = resolved /\ r2 = resolved'
  OBVIOUS
<1>9. /\ DOMAIN r2 = DOMAIN r \cup {n} /\ r2[n] = v /\ \A i \in DOMAIN r : r2[i] = r[i]
      /\ n \notin DOMAIN r
  BY <1>3, <1>4, <1>7, <1>8 DEF Including
<1>10. ResolvesLexically'
  <2>1. ASSUME NEW i \in DOMAIN r2
        PROVE  Meaning(p, i) = {<<DeclaredIn(p, r2[i]), DeclarationOf(p, r2[i])>>}
    <3>1. CASE i = n
      BY <1>6, <1>9, <3>1
    <3>2. CASE i # n
      <4>1. i \in DOMAIN r /\ r2[i] = r[i]
        BY <1>9, <3>2
      <4>2. Meaning(p, i) = {<<DeclaredIn(p, r[i]), DeclarationOf(p, r[i])>>}
        BY <1>4, <1>8, <4>1 DEF ResolvesLexically
      <4> QED BY <4>1, <4>2
    <3> QED BY <3>1, <3>2
  <2> QED BY <1>4, <1>5, <1>8, <2>1 DEF ResolvesLexically
<1>11. CapturesAreKnown'
  <2> DEFINE captures == {i \in DOMAIN r : ScopeType(r[i].allocation) = "function"
                                             /\ r[i].allocation # FunctionAround(p, i)}
             captures2 == {i \in DOMAIN r2 : ScopeType(r2[i].allocation) = "function"
                                               /\ r2[i].allocation # FunctionAround(p, i)}
  <2>1. referred = {r[i] : i \in captures}
    BY <1>4, <1>8 DEF CapturesAreKnown
  <2>2. IsReferredByInner(v) <=> ScopeType(v.allocation) = "function" /\ v.allocation # FunctionAround(p, n)
    <3>1. CurrentAllocationScope = FunctionAround(p, n)
      BY <1>4, <1>5, AllocationScope DEF Parts
    <3> QED BY <3>1 DEF IsReferredByInner
  <2>3. captures2 = captures \cup (IF IsReferredByInner(v) THEN {n} ELSE {})
    BY <1>9, <2>2
  <2>4. \A i \in captures : r2[i] = r[i]
    BY <1>9
  <2>5. {r2[i] : i \in captures2} = {r[i] : i \in captures} \cup (IF IsReferredByInner(v) THEN {v} ELSE {})
    <3> HIDE DEF captures, captures2
    <3> QED BY <1>9, <2>3, <2>4
  <2>6. referred' = {r2[i] : i \in captures2}
    <3> HIDE DEF captures, captures2
    <3> QED BY <1>3, <2>1, <2>5
  <2>7. ASSUME NEW i \in DOMAIN r2
        PROVE  r2[i].allocation \in OuterFunctions(outerFunction, FunctionAround(p, i))
    <3>1. CASE i = n
      <4>1. IsOuter(p, outerFunction)
        BY <1>4 DEF Parts
      <4>2. n \in 1..(Len(p) + 1)
        BY <1>5 DEF Nested
      <4>3. /\ FunctionAround(p, n) \in FunctionsAround(p, n)
            /\ FunctionAround(p, n) \in ScopesOf(p)
            /\ FunctionsAround(p, FunctionAround(p, n) + 1) = FunctionsAround(p, n)
        BY <1>5, <4>2, FunctionsAroundAnItem
      <4>4. FunctionAround(p, n) \in {TopScope} \cup DOMAIN outerFunction
        BY <4>1, <4>3 DEF IsOuter, FunctionsAround, IsFunction, ScopesOf
      <4>5. OuterFunctions(outerFunction, FunctionAround(p, n)) = FunctionsAround(p, n)
        BY <1>5, <4>1, <4>3, <4>4, OuterFunctionsAreAround
      <4> QED BY <1>6, <1>9, <3>1, <4>5
    <3>2. CASE i # n
      BY <1>4, <1>8, <1>9, <3>2 DEF CapturesAreKnown
    <3> QED BY <3>1, <3>2
  <2>8. /\ program' = p /\ outerFunction' = outerFunction /\ resolved' = r2
    BY <1>4, <1>5, <1>8
  <2>9. \A s : ScopeType(s) = IF s = TopScope THEN "top" ELSE IF p[s].kind = "function" THEN "function" ELSE "sub"
    BY <1>4 DEF ScopeType
  <2> QED BY <2>6, <2>7, <2>8, <2>9 DEF CapturesAreKnown, ScopeType
<1> QED BY <1>3, <1>6, <1>10, <1>11
(* A variable is added to the scope of its let statement.                   *)
IsLetVariable(v, p, n) ==
  v = NewVariable(n, p[n].name, "variable", FunctionAround(p, n), FALSE)

(* With it the scopes have the Variables of what comes before the next item. *)
LEMMA LetIsDeclared ==
  ASSUME NEW p, Nested(p), NEW n \in DOMAIN p, p[n].kind = "let",
         NEW vs, AreDeclared(p, n, vs), NEW v \in Variable, IsLetVariable(v, p, n),
         NEW h, h = Body(p, n), \A u \in ToSet(vs[h]) : u.name # p[n].name,
         NEW ws, ws = [vs EXCEPT ![h] = Append(@, v)]
  PROVE  AreDeclared(p, n + 1, ws)
<1>1. n \in 1..(Len(p) + 1) /\ h \in ScopesOf(p)
  <2>1. n \in 1..(Len(p) + 1)
    BY ItemFacts DEF Nested
  <2> QED BY <2>1, ScopesAroundAnItem
<1>2. DOMAIN vs = ScopesOf(p)
  BY DEF AreDeclared
<1>3. /\ DOMAIN ws = ScopesOf(p) /\ ws[h] = Append(vs[h], v)
      /\ \A s \in ScopesOf(p) \ {h} : ws[s] = vs[s]
  BY <1>1, <1>2
<1>4. ASSUME NEW s \in ScopesOf(p) PROVE AddedBy(p, n, s) = IF s = h THEN {v} ELSE {}
  <2>1. s = n => DOMAIN ParametersOf(p, s) = {}
    <3>1. s = n => ParametersOf(p, s) = <<>>
      BY ParameterFacts
    <3> QED BY <3>1
  <2> QED BY <2>1 DEF AddedBy, IsLetVariable
<1>5. ASSUME NEW s \in ScopesOf(p)
      PROVE  DeclaredVariables(p, n + 1, s) = DeclaredVariables(p, n, s) \cup (IF s = h THEN {v} ELSE {})
  <2>1. DeclaredVariables(p, n + 1, s) = DeclaredVariables(p, n, s) \cup AddedBy(p, n, s)
    BY ItemIsVisited
  <2> QED BY <1>4, <2>1
<1>6. v.name = p[n].name
  BY DEF IsLetVariable, NewVariable
<1>7. /\ ws[h] \in Seq(Variable) /\ NamesDiffer(ws[h])
      /\ ToSet(ws[h]) = DeclaredVariables(p, n + 1, h)
  <2>1. PICK us : us = vs[h]
    OBVIOUS
  <2>2. us \in Seq(Variable) /\ NamesDiffer(us) /\ ToSet(us) = DeclaredVariables(p, n, h)
    BY <1>1, <2>1 DEF AreDeclared
  <2>3. \A u \in ToSet(us) : u.name # v.name
    BY <1>6, <2>1
  <2>4. /\ Append(us, v) \in Seq(Variable) /\ NamesDiffer(Append(us, v))
        /\ ToSet(Append(us, v)) = ToSet(us) \cup {v}
    BY <2>2, <2>3, VariableIsAdded
  <2> QED BY <1>1, <1>3, <1>5, <2>1, <2>2, <2>4
<1>8. ASSUME NEW s \in ScopesOf(p) \ {h}
      PROVE  /\ ws[s] \in Seq(Variable) /\ NamesDiffer(ws[s])
             /\ ToSet(ws[s]) = DeclaredVariables(p, n + 1, s)
  BY <1>3, <1>5 DEF AreDeclared
<1> QED BY <1>3, <1>7, <1>8 DEF AreDeclared

(* Parameters are added to the scope of the function.                       *)
AreParameters(us, p, n) ==
  us = [k \in DOMAIN p[n].parameters |-> NewVariable(n, p[n].parameters[k], "variable", n, TRUE)]

(* With them the scopes have what comes before the first item of the body. *)
LEMMA ParametersAreDeclared ==
  ASSUME NEW p, Nested(p), NEW n \in DOMAIN p, p[n].kind = "function", n <= MaxItems,
         IsInjective(p[n].parameters),
         NEW vs, AreDeclared(p, n, vs), NEW us, AreParameters(us, p, n),
         \A name \in ToSet(p[n].parameters) : \A u \in ToSet(vs[n]) : u.name # name,
         NEW ws, ws = [vs EXCEPT ![n] = @ \o us]
  PROVE  AreDeclared(p, n + 1, ws)
<1>1. n \in ScopesOf(p) /\ n # TopScope /\ p \in Seq(Items) /\ n \in Nat \ {0}
  <2>1. p \in Seq(Items)
    BY DEF Nested
  <2> QED BY <2>1, ItemFacts DEF ScopesOf, Begins, TopScope
<1>2. DOMAIN vs = ScopesOf(p)
  BY DEF AreDeclared
<1>3. /\ DOMAIN ws = ScopesOf(p) /\ ws[n] = vs[n] \o us
      /\ \A s \in ScopesOf(p) \ {n} : ws[s] = vs[s]
  BY <1>1, <1>2
<1>4. PICK ps : ps = p[n].parameters
  OBVIOUS
<1>5. ps \in Seq(Names) /\ IsInjective(ps) /\ ParametersOf(p, n) = ps
  BY <1>1, <1>4, ItemFacts DEF ParametersOf
<1>6. PICK m \in Nat : m = Len(ps)
  BY <1>5
<1>7. DOMAIN ps = 1..m /\ us = [k \in 1..m |-> us[k]]
  <2>1. DOMAIN ps = 1..m
    BY <1>5, <1>6
  <2>2. us = [k \in 1..m |-> NewVariable(n, ps[k], "variable", n, TRUE)]
    BY <1>4, <2>1 DEF AreParameters
  <2> QED BY <2>1, <2>2
<1>8. ASSUME NEW k \in 1..m
      PROVE  /\ us[k] = NewVariable(n, ps[k], "variable", n, TRUE)
             /\ us[k] \in Variable /\ us[k].name = ps[k] /\ ps[k] \in ToSet(ps)
  <2>1. us[k] = NewVariable(n, ps[k], "variable", n, TRUE)
    BY <1>4, <1>7 DEF AreParameters
  <2>2. ps[k] \in Names /\ ps[k] \in ToSet(ps)
    BY <1>5, <1>7 DEF ToSet
  <2>3. n \in 0..MaxItems
    BY <1>1, ScopeAssumption
  <2> QED BY <2>1, <2>2, <2>3 DEF NewVariable, Variable
<1>9. us \in Seq(Variable) /\ DOMAIN us = 1..m
  <2>1. us \in [1..m -> Variable]
    BY <1>7, <1>8
  <2> QED BY <2>1
<1>10. NamesDiffer(us)
  <2>1. \A k \in 1..m : us[k].name = ps[k]
    BY <1>8
  <2>2. \A j, k \in 1..m : ps[j] = ps[k] => j = k
    BY <1>5, <1>7 DEF IsInjective
  <2> QED BY <1>9, <2>1, <2>2 DEF NamesDiffer
<1>11. AddedBy(p, n, n) = ToSet(us)
  <2>1. p[n].kind # "let"
    OBVIOUS
  <2>2. AddedBy(p, n, n) = {NewVariable(n, ps[k], "variable", n, TRUE) : k \in 1..m}
    BY <1>5, <1>7, <2>1 DEF AddedBy
  <2>3. ToSet(us) = {us[k] : k \in 1..m}
    BY <1>9 DEF ToSet
  <2>4. \A k \in 1..m : us[k] = NewVariable(n, ps[k], "variable", n, TRUE)
    BY <1>8
  <2> QED BY ONLY <2>2, <2>3, <2>4
<1>12. ASSUME NEW s \in ScopesOf(p), s # n PROVE AddedBy(p, n, s) = {}
  BY <1>12 DEF AddedBy
<1>13. /\ ws[n] \in Seq(Variable) /\ NamesDiffer(ws[n])
       /\ ToSet(ws[n]) = DeclaredVariables(p, n + 1, n)
  <2>1. PICK old : old = vs[n]
    OBVIOUS
  <2>2. old \in Seq(Variable) /\ NamesDiffer(old) /\ ToSet(old) = DeclaredVariables(p, n, n)
    BY <1>1, <2>1 DEF AreDeclared
  <2>3. \A v \in ToSet(old), u \in ToSet(us) : u.name # v.name
    <3>1. \A u \in ToSet(us) : u.name \in ToSet(ps)
      BY <1>8, <1>9 DEF ToSet
    <3>2. \A name \in ToSet(ps) : \A v \in ToSet(old) : v.name # name
      BY <1>4, <2>1
    <3> QED BY <3>1, <3>2
  <2>4. /\ old \o us \in Seq(Variable) /\ NamesDiffer(old \o us)
        /\ ToSet(old \o us) = ToSet(old) \cup ToSet(us)
    BY <1>9, <1>10, <2>2, <2>3, VariablesAreAdded
  <2>5. DeclaredVariables(p, n + 1, n) = DeclaredVariables(p, n, n) \cup AddedBy(p, n, n)
    BY <1>1, ItemIsVisited
  <2> QED BY <1>3, <1>11, <2>1, <2>2, <2>4, <2>5
<1>14. ASSUME NEW s \in ScopesOf(p) \ {n}
       PROVE  /\ ws[s] \in Seq(Variable) /\ NamesDiffer(ws[s])
              /\ ToSet(ws[s]) = DeclaredVariables(p, n + 1, s)
  <2>1. DeclaredVariables(p, n + 1, s) = DeclaredVariables(p, n, s) \cup AddedBy(p, n, s)
    BY ItemIsVisited
  <2>2. DeclaredVariables(p, n + 1, s) = DeclaredVariables(p, n, s)
    BY <1>12, <2>1
  <2> QED BY <1>3, <2>2 DEF AreDeclared
<1> QED BY <1>3, <1>13, <1>14 DEF AreDeclared
(* The stack when a scope is entered.                                       *)
LEMMA ScopeIsEntered ==
  ASSUME ProgramPart, StackPart, NEW kinds, Visit(kinds), program[next].kind \in Begins,
         status' = "second",
         scopes' = <<next>> \o (IF program[next].kind \in Ends THEN Tail(scopes) ELSE scopes)
  PROVE  /\ StackPart'
         /\ ScopeAround(program, next) \in ScopesOf(program)
         /\ ScopeAround(program, next) = IF program[next].kind \in Ends THEN scopes[2] ELSE Head(scopes)
<1>1. PICK p, n, h : p = program /\ n = next /\ h = Head(scopes)
  OBVIOUS
<1>2. /\ n \in DOMAIN p /\ n \in Nat \ {0} /\ Nested(p) /\ Active /\ Position = n
      /\ Around(p, n + 1) = NextAround(p, n) /\ next' = n + 1 /\ program' = p
      /\ p[n].kind \in Begins
  BY <1>1, VisitedItem
<1>3. h = Body(p, n)
  BY <1>1, <1>2, WhereThePassIs
<1>4. PICK stack, S : /\ stack = IF p[n].kind \in Ends THEN Tail(scopes) ELSE scopes
                      /\ S = Around(p, n) \ {b \in {Body(p, n)} : p[n].kind \in Ends}
  OBVIOUS
<1>5. Around(p, n + 1) = S \cup {n}
  BY <1>2, <1>4 DEF NextAround
<1>6. \A b \in S : b < n
  <2>1. Around(p, n) \in SUBSET (0..(n - 1))
    BY <1>2, OpenBodies
  <2> QED BY <1>2, <1>4, <2>1
<1>7. /\ Descending(stack, S)
      /\ Max(S) = IF p[n].kind \in Ends THEN scopes[2] ELSE h
  <2>1. CASE p[n].kind \in Ends
    <3>1. S = Around(p, n) \ {h} /\ stack = Tail(scopes)
      BY <1>3, <1>4, <2>1
    <3>2. h # TopScope
      BY <1>2, <1>3, <2>1 DEF Nested
    <3>3. /\ Descending(Tail(scopes), Around(p, n) \ {h})
          /\ scopes[2] = Max(Around(p, n) \ {h})
      BY <1>1, <1>2, <3>2, WhereThePassIs
    <3> QED BY <2>1, <3>1, <3>3
  <2>2. CASE p[n].kind \notin Ends
    <3>1. S = Around(p, n) /\ stack = scopes
      BY <1>4, <2>2
    <3>2. Descending(scopes, Around(p, n))
      BY <1>1, <1>2 DEF StackPart
    <3> QED BY <1>3, <2>2, <3>1, <3>2 DEF Body
  <2> QED BY <2>1, <2>2
<1>8. Descending(<<n>> \o stack, S \cup {n})
  BY <1>2, <1>6, <1>7, PushDescending
<1>9. StackPart'
  <2>1. scopes' = <<n>> \o stack
    BY <1>1, <1>4
  <2>2. Position' = n + 1
    BY <1>2 DEF Position
  <2> QED BY <1>2, <1>5, <1>8, <2>1, <2>2 DEF StackPart
<1>10. ScopeAround(p, n) = Max(S)
  <2>1. n \notin S
    BY <1>2, <1>6
  <2>2. Around(p, n + 1) \ {n} = S
    BY <1>5, <2>1
  <2> QED BY <2>2 DEF ScopeAround
<1>11. ScopeAround(p, n) \in ScopesOf(p)
  <2>1. n \in ScopesOf(p) /\ n # TopScope
    BY <1>2 DEF ScopesOf, TopScope
  <2> QED BY <1>2, <2>1, ScopeIsNested
<1> QED BY <1>1, <1>7, <1>9, <1>10, <1>11

(* A let statement.                                                         *)
LEMMA VisitLetStatementStep ==
  ASSUME ProgramPart, Parts, VisitLetStatement
  PROVE  ProgramPart' /\ Parts'
<1>1. /\ Visit({"let"}) /\ UNCHANGED <<status, scopes, children, resolved, gathered, referred>>
      /\ ~HasVariable(Head(scopes), program[next].name)
  BY DEF VisitLetStatement
<1>2. PICK p, n, h, v : /\ p = program /\ n = next /\ h = Head(scopes)
                        /\ v = NewVariable(n, p[n].name, "variable", CurrentAllocationScope, FALSE)
  OBVIOUS
<1>3. /\ n \in DOMAIN p /\ n \in Nat \ {0} /\ p[n].kind = "let" /\ Nested(p) /\ Active
      /\ Around(p, n + 1) = NextAround(p, n) /\ next' = n + 1 /\ status = "second" /\ Position = n
      /\ UNCHANGED <<program, functionStack, outerFunction, offsets>>
  BY <1>1, <1>2, VisitedItem DEF Parts
<1>4. ProgramPart'
  <2>1. status' # "first" /\ program[next].kind \notin {"function", "use"}
    BY <1>1, <1>2, <1>3
  <2>2. DOMAIN resolved' = DOMAIN resolved \cup {i \in {next} : program[next].kind = "use"}
    BY <1>1, <2>1
  <2> QED BY <1>1, <2>1, <2>2, ProgramIsVisited DEF Parts
<1>5. Around(p, n + 1) = Around(p, n)
  BY <1>3 DEF NextAround, Ends, Begins
<1>6. StackPart'
  BY <1>1, <1>2, <1>3, <1>5 DEF Parts, StackPart, Position
<1>7. h = Body(p, n) /\ h \in ScopesOf(p)
  BY <1>2, <1>3, WhereThePassIs DEF Parts
<1>8. IsLetVariable(v, p, n)
  <2>1. CurrentAllocationScope = FunctionAround(p, n)
    BY <1>2, <1>3, AllocationScope DEF Parts
  <2> QED BY <1>2, <2>1 DEF IsLetVariable
<1>9. v \in Variable
  <2>1. p \in Seq(Items) /\ n \in 1..(Len(p) + 1)
    BY <1>3, ItemFacts DEF Nested
  <2>2. p[n].name \in Names
    BY <1>3, <2>1, ItemFacts
  <2>3. n \in 0..MaxItems
    BY <1>2, <1>3, <2>1, ScopeAssumption DEF ProgramPart
  <2>4. FunctionAround(p, n) \in ScopesOf(p) /\ FunctionAround(p, n) < n
    BY <1>3, <2>1, FunctionsAroundAnItem
  <2>5. FunctionAround(p, n) \in 0..MaxItems
    <3>1. FunctionAround(p, n) \in Nat
      BY <1>3, <2>4, ScopeIsNested
    <3> QED BY <2>3, <2>4, <3>1, ScopeAssumption
  <2> QED BY <1>8, <2>2, <2>3, <2>5 DEF IsLetVariable, NewVariable, Variable
<1>10. AreDeclared(p, n + 1, variables')
  <2>1. PICK vs, ws : vs = variables /\ ws = variables'
    OBVIOUS
  <2>2. AreDeclared(p, n, vs)
    BY <1>2, <2>1 DEF Parts
  <2>3. \A u \in ToSet(vs[h]) : u.name # p[n].name
    BY <1>1, <1>2, <2>1 DEF HasVariable
  <2>4. ws = [vs EXCEPT ![h] = Append(@, v)]
    BY <1>2, <2>1 DEF VisitLetStatement
  <2>5. h = Body(p, n)
    BY <1>7
  <2>6. AreDeclared(p, n + 1, ws)
    BY <1>3, <1>8, <1>9, <2>2, <2>3, <2>4, <2>5, LetIsDeclared
  <2> QED BY <2>1, <2>6
<1> QED BY <1>1, <1>2, <1>3, <1>4, <1>6, <1>10 DEF Parts

(* A function.                                                              *)
LEMMA VisitFunctionStatementStep ==
  ASSUME ProgramPart, Parts, VisitFunctionStatement
  PROVE  ProgramPart' /\ Parts'
<1>1. /\ Visit({"function"}) /\ UNCHANGED <<status, resolved, gathered, referred>>
      /\ ParametersDiffer /\ Push(next)
  BY DEF VisitFunctionStatement
<1>2. PICK p, n, us : /\ p = program /\ n = next
                      /\ us = [k \in DOMAIN p[n].parameters |->
                                 NewVariable(n, p[n].parameters[k], "variable", n, TRUE)]
  OBVIOUS
<1>3. /\ n \in DOMAIN p /\ n \in Nat \ {0} /\ p[n].kind = "function" /\ Nested(p)
      /\ next' = n + 1 /\ status = "second"
      /\ UNCHANGED <<program, functionStack, outerFunction, offsets>>
  BY <1>1, <1>2, VisitedItem DEF Parts
<1>4. p[n].kind \in Begins /\ p[n].kind \notin Ends
  BY <1>3 DEF Begins, Ends
<1>5. IsInjective(p[n].parameters)
  BY <1>1, <1>2 DEF ParametersDiffer
<1>6. ProgramPart'
  <2>1. status' # "first" /\ program[next].kind # "use"
    BY <1>1, <1>2, <1>3
  <2>2. DOMAIN resolved' = DOMAIN resolved \cup {i \in {next} : program[next].kind = "use"}
    BY <1>1, <2>1
  <2> QED BY <1>1, <1>2, <1>5, <2>1, <2>2, ProgramIsVisited DEF Parts
<1>7. /\ StackPart' /\ ScopeAround(p, n) \in ScopesOf(p) /\ ScopeAround(p, n) = Head(scopes)
  <2>1. program[next].kind \in Begins /\ status' = "second"
    BY <1>1, <1>2, <1>3, <1>4
  <2>2. scopes' = <<next>> \o (IF program[next].kind \in Ends THEN Tail(scopes) ELSE scopes)
    BY <1>1, <1>2, <1>4 DEF Push
  <2>3. /\ StackPart'
        /\ ScopeAround(program, next) \in ScopesOf(program)
        /\ ScopeAround(program, next) = IF program[next].kind \in Ends THEN scopes[2] ELSE Head(scopes)
    BY <1>1, <2>1, <2>2, ScopeIsEntered DEF Parts
  <2> QED BY <1>2, <1>4, <2>3
<1>8. IsTree(p, children')
  <2>1. PICK ch, ch2, h : ch = children /\ ch2 = children' /\ h = Head(scopes)
    OBVIOUS
  <2>2. ch2 = [Including(ch, n, <<>>) EXCEPT ![h] = Append(@, n)]
    BY <1>1, <1>2, <2>1 DEF Push
  <2>3. IsTree(p, ch) /\ h \in ScopesOf(p) /\ h = ScopeAround(p, n)
    BY <1>2, <1>7, <2>1 DEF Parts
  <2>4. IsTree(p, ch2)
    BY <1>3, <1>4, <2>2, <2>3, ScopeIsPushedAgain
  <2> QED BY <2>1, <2>4
<1>9. AreDeclared(p, n + 1, variables')
  <2>1. PICK vs, ws : vs = variables /\ ws = variables'
    OBVIOUS
  <2>2. AreDeclared(p, n, vs)
    BY <1>2, <2>1 DEF Parts
  <2>3. \A name \in ToSet(p[n].parameters) : \A u \in ToSet(vs[n]) : u.name # name
    BY <1>1, <1>2, <2>1 DEF ParametersDiffer, HasVariable
  <2>4. ws = [vs EXCEPT ![n] = @ \o us]
    BY <1>2, <2>1 DEF VisitFunctionStatement
  <2>5. n <= MaxItems
    <3>1. p \in Seq(Items) /\ n <= Len(p) /\ Len(p) <= MaxItems
      BY <1>2, <1>3 DEF Nested, ProgramPart
    <3>2. Len(p) \in Nat
      BY <3>1
    <3> QED BY <1>3, <3>1, <3>2, ScopeAssumption
  <2>6. AreParameters(us, p, n)
    BY <1>2 DEF AreParameters
  <2>7. AreDeclared(p, n + 1, ws)
    BY <1>3, <1>5, <2>2, <2>3, <2>4, <2>5, <2>6, ParametersAreDeclared
  <2> QED BY <2>1, <2>7
<1> QED BY <1>2, <1>3, <1>6, <1>7, <1>8, <1>9 DEF Parts
(* What items have in common that enter or leave a scope, and declare       *)
(* nothing.                                                                 *)
LEMMA VisitedBody ==
  ASSUME ProgramPart, Parts, NEW kinds, Visit(kinds), kinds \subseteq {"if", "while", "else", "end"},
         status' # "first", UNCHANGED <<variables, resolved>>, StackPart', IsTree(program, children')
  PROVE  ProgramPart' /\ Parts'
<1>1. PICK p, n : p = program /\ n = next
  OBVIOUS
<1>2. /\ n \in DOMAIN p /\ n \in Nat \ {0} /\ p[n].kind \in {"if", "while", "else", "end"} /\ Nested(p)
      /\ next' = n + 1 /\ UNCHANGED <<program, functionStack, outerFunction, offsets>>
  BY <1>1, VisitedItem DEF Parts
<1>3. program[next].kind \notin {"use", "let", "function"}
  BY <1>1, <1>2
<1>4. ProgramPart'
  <2>1. DOMAIN resolved' = DOMAIN resolved \cup {i \in {next} : program[next].kind = "use"}
    BY <1>3
  <2> QED BY <1>3, <2>1, ProgramIsVisited DEF Parts
<1>5. AreDeclared(p, n + 1, variables)
  <2>1. AreDeclared(p, n, variables)
    BY <1>1 DEF Parts
  <2> QED BY <1>1, <1>2, <1>3, <2>1, NothingIsDeclared
<1> QED BY <1>1, <1>2, <1>4, <1>5 DEF Parts

(* The body of an if or while statement.                                    *)
LEMMA VisitBeginBodyStep ==
  ASSUME ProgramPart, Parts, VisitBeginBody
  PROVE  ProgramPart' /\ Parts'
<1>1. /\ Visit({"if", "while"}) /\ Push(next)
      /\ UNCHANGED <<status, variables, resolved, gathered, referred>>
  BY DEF VisitBeginBody
<1>2. PICK p, n : p = program /\ n = next
  OBVIOUS
<1>3. n \in DOMAIN p /\ p[n].kind \in {"if", "while"} /\ Nested(p) /\ status = "second"
  BY <1>1, <1>2, VisitedItem DEF Parts
<1>4. p[n].kind \in Begins /\ p[n].kind \notin Ends
  BY <1>3 DEF Begins, Ends
<1>5. /\ StackPart' /\ ScopeAround(p, n) \in ScopesOf(p) /\ ScopeAround(p, n) = Head(scopes)
  <2>1. program[next].kind \in Begins /\ status' = "second"
    BY <1>1, <1>2, <1>3, <1>4
  <2>2. scopes' = <<next>> \o (IF program[next].kind \in Ends THEN Tail(scopes) ELSE scopes)
    BY <1>1, <1>2, <1>4 DEF Push
  <2>3. /\ StackPart'
        /\ ScopeAround(program, next) \in ScopesOf(program)
        /\ ScopeAround(program, next) = IF program[next].kind \in Ends THEN scopes[2] ELSE Head(scopes)
    BY <1>1, <2>1, <2>2, ScopeIsEntered DEF Parts
  <2> QED BY <1>2, <1>4, <2>3
<1>6. IsTree(p, children')
  <2>1. PICK ch, ch2, h : ch = children /\ ch2 = children' /\ h = Head(scopes)
    OBVIOUS
  <2>2. ch2 = [Including(ch, n, <<>>) EXCEPT ![h] = Append(@, n)]
    BY <1>1, <1>2, <2>1 DEF Push
  <2>3. IsTree(p, ch) /\ h \in ScopesOf(p) /\ h = ScopeAround(p, n)
    BY <1>2, <1>5, <2>1 DEF Parts
  <2>4. IsTree(p, ch2)
    BY <1>3, <1>4, <2>2, <2>3, ScopeIsPushedAgain
  <2> QED BY <2>1, <2>4
<1> QED BY <1>1, <1>2, <1>3, <1>5, <1>6, VisitedBody

(* An else body.                                                            *)
LEMMA VisitElseStep ==
  ASSUME ProgramPart, Parts, VisitElse
  PROVE  ProgramPart' /\ Parts'
<1>1. /\ Visit({"else"})
      /\ children' = [children EXCEPT ![scopes[2]] = Append(@, next)]
      /\ scopes' = <<next>> \o Tail(scopes)
      /\ UNCHANGED <<status, variables, resolved, gathered, referred>>
  BY DEF VisitElse
<1>2. PICK p, n : p = program /\ n = next
  OBVIOUS
<1>3. n \in DOMAIN p /\ p[n].kind \in {"else"} /\ Nested(p) /\ status = "second"
  BY <1>1, <1>2, VisitedItem DEF Parts
<1>4. p[n].kind \in Begins /\ p[n].kind \in Ends
  BY <1>3 DEF Begins, Ends
<1>5. /\ StackPart' /\ ScopeAround(p, n) \in ScopesOf(p) /\ ScopeAround(p, n) = scopes[2]
  <2>1. program[next].kind \in Begins /\ status' = "second"
    BY <1>1, <1>2, <1>3, <1>4
  <2>2. scopes' = <<next>> \o (IF program[next].kind \in Ends THEN Tail(scopes) ELSE scopes)
    BY <1>1, <1>2, <1>4
  <2>3. /\ StackPart'
        /\ ScopeAround(program, next) \in ScopesOf(program)
        /\ ScopeAround(program, next) = IF program[next].kind \in Ends THEN scopes[2] ELSE Head(scopes)
    BY <1>1, <2>1, <2>2, ScopeIsEntered DEF Parts
  <2> QED BY <1>2, <1>4, <2>3
<1>6. IsTree(p, children')
  <2>1. PICK ch, ch2, h : ch = children /\ ch2 = children' /\ h = scopes[2]
    OBVIOUS
  <2>2. ch2 = [ch EXCEPT ![h] = Append(@, n)]
    BY <1>1, <1>2, <2>1
  <2>3. IsTree(p, ch) /\ h \in ScopesOf(p) /\ h = ScopeAround(p, n)
    BY <1>2, <1>5, <2>1 DEF Parts
  <2>4. IsTree(p, ch2)
    BY <1>3, <1>4, <2>2, <2>3, ScopeIsPushedAgain
  <2> QED BY <2>1, <2>4
<1> QED BY <1>1, <1>2, <1>3, <1>5, <1>6, VisitedBody

(* The end of a body.                                                       *)
LEMMA VisitEndStep ==
  ASSUME ProgramPart, Parts, VisitEnd
  PROVE  ProgramPart' /\ Parts'
<1>1. /\ Visit({"end"}) /\ scopes' = Tail(scopes) /\ UNCHANGED <<tree, resolved, referred>>
      /\ status' \in {"assertion", status}
  BY DEF VisitEnd, Pop
<1>2. PICK p, n, h : p = program /\ n = next /\ h = Head(scopes)
  OBVIOUS
<1>3. /\ n \in DOMAIN p /\ n \in Nat \ {0} /\ p[n].kind \in {"end"} /\ Nested(p) /\ Active
      /\ Around(p, n + 1) = NextAround(p, n) /\ next' = n + 1 /\ status = "second" /\ Position = n
      /\ program' = p
  BY <1>1, <1>2, VisitedItem DEF Parts
<1>4. h = Body(p, n)
  BY <1>2, <1>3, WhereThePassIs DEF Parts
<1>5. Around(p, n + 1) = Around(p, n) \ {h}
  BY <1>3, <1>4 DEF NextAround, Begins, Ends
<1>6. Descending(Tail(scopes), Around(p, n) \ {h})
  BY <1>2, <1>3, WhereThePassIs DEF Parts
<1>7. status' # "first"
  BY <1>1, <1>3
<1>8. StackPart'
  <2>1. Position' = n + 1
    BY <1>3, <1>7 DEF Position
  <2> QED BY <1>1, <1>3, <1>5, <1>6, <1>7, <2>1 DEF StackPart
<1>9. IsTree(program, children')
  BY <1>1 DEF Parts, tree
<1>10. variables' = variables /\ resolved' = resolved
  BY <1>1 DEF tree
<1> QED BY <1>1, <1>7, <1>8, <1>9, <1>10, VisitedBody
-----------------------------------------------------------------------------
(* The outcome.                                                             *)

(* A declaration that has a Variable when the second pass comes to item n.  *)
IsDeclaredBefore(p, n, s, j) ==
  \/ j \in DOMAIN p /\ p[j].kind = "function"
  \/ j \in DOMAIN p /\ p[j].kind = "let" /\ j < n
  \/ j = 0
  \/ s < n /\ \E k \in Nat \ {0} : j = -k

(* What a scope has a Variable for has been declared.                       *)
LEMMA HasDeclaration ==
  ASSUME NEW p, Nested(p), NEW n, ParametersDifferBefore(p, n), NEW vs, AreDeclared(p, n, vs),
         NEW s \in ScopesOf(p), NEW name, \E v \in ToSet(vs[s]) : v.name = name
  PROVE  \E j \in DeclarationsIn(p, s, name) : IsDeclaredBefore(p, n, s, j)
<1>1. PICK v \in ToSet(vs[s]) : v.name = name
  OBVIOUS
<1>2. v \in DeclaredVariables(p, n, s)
  BY <1>1 DEF AreDeclared
<1> QED BY <1>1, <1>2, VariableIsDeclared DEF IsDeclaredBefore

(* The first pass meets a function with the name of another one, or of a    *)
(* builtin.                                                                 *)
LEMMA FunctionIsRedeclared ==
  ASSUME ProgramPart, Parts, NEW name \in Names, NEW parameters \in ParameterLists,
         FirstVisitFunction(name, parameters), status' = "error"
  PROVE  /\ ProgramPart' /\ IsRedeclared(program') /\ status = "first"
         /\ UNCHANGED <<next, tree, scopes, outerFunction, results>>
<1>1. PICK x : x = Item("function", name, parameters)
  OBVIOUS
<1>2. x \in Items /\ x.kind = "function" /\ x.name = name /\ x.kind \notin Ends
  BY <1>1 DEF Item, Items, Ends
<1>3. Write(x)
  BY <1>1 DEF FirstVisitFunction
<1>4. PICK p, q, n, h, vs : /\ p = program /\ q = program' /\ n = Len(program) + 1 /\ h = Head(scopes)
                            /\ vs = variables
  OBVIOUS
<1>5. /\ IsAppended(p, x, q, n) /\ n = Position /\ Active
      /\ status = "first" /\ Len(program) < MaxItems
  BY <1>2, <1>3, <1>4, WrittenItem
<1>6. HasVariable(h, name) /\ UNCHANGED <<next, scopes, functionStack, tree, outerFunction, results>>
  BY <1>4, <1>5 DEF FirstVisitFunction, Stop
<1>7. h = Body(p, n) /\ h \in ScopesOf(p)
  BY <1>4, <1>5, WhereThePassIs DEF Parts
<1>8. next = 1
  BY <1>5, NothingResolvedYet
<1>9. AreDeclared(p, 1, vs) /\ Nested(p) /\ ParametersDifferBefore(p, 1)
  BY <1>4, <1>8 DEF Parts, ProgramPart, ParametersDifferBefore
<1>10. /\ q \in Seq(Items) /\ n \in Nat \ {0} /\ n \in DOMAIN q /\ DOMAIN q = DOMAIN p \cup {n}
       /\ n \notin DOMAIN p
  BY <1>5, AppendedItem
<1>11. q[n] = x /\ \A i \in DOMAIN p : q[i] = p[i]
  BY ElementAppended, <1>5 DEF IsAppended, Nested
<1>12. PICK j \in DeclarationsIn(p, h, name) : IsDeclaredBefore(p, 1, h, j)
  <2>1. \E v \in ToSet(vs[h]) : v.name = name
    BY <1>4, <1>6 DEF HasVariable
  <2> QED BY <1>7, <1>9, <2>1, HasDeclaration
<1>13. \A i \in 1..n : Body(q, i) = Body(p, i)
  BY <1>5, AppendedItemIsInside
<1>14. j # n
  BY <1>10, <1>12 DEF IsDeclaredBefore
<1>15. j \in DeclarationsIn(q, h, name)
  <2>1. ParametersOf(q, h) = ParametersOf(p, h)
    BY <1>7, <1>11 DEF ParametersOf, ScopesOf
  <2>2. \A i \in DOMAIN p : i \in DOMAIN q /\ q[i] = p[i] /\ Body(q, i) = Body(p, i)
    <3>1. \A i \in DOMAIN p : i \in 1..n
      BY <1>4, <1>9 DEF Nested
    <3> QED BY <1>10, <1>11, <1>13, <3>1
  <2> QED BY <1>12, <2>1, <2>2 DEF DeclarationsIn
<1>16. n \in DeclarationsIn(q, h, name)
  <2>1. Body(q, n) = h
    BY <1>7, <1>10, <1>13
  <2> QED BY <1>2, <1>10, <1>11, <2>1 DEF DeclarationsIn
<1>17. h \in {TopScope} \cup DOMAIN q
  BY <1>7, <1>10 DEF ScopesOf
<1>18. IsRedeclared(q)
  BY <1>10, <1>14, <1>15, <1>16, <1>17, TwoDeclarations
<1>19. ProgramPart'
  <2>1. next' = next /\ resolved' = resolved /\ status' \in {"first", "error"}
    BY <1>6 DEF results
  <2> QED BY <1>4, <1>5, <2>1, ProgramIsAppended
<1> QED BY <1>4, <1>5, <1>6, <1>18, <1>19

(* The second pass meets a variable with the name of something in its scope.*)
LEMMA LetIsRedeclared ==
  ASSUME ProgramPart, Parts, RejectLet
  PROVE  IsRedeclared(program)
<1>1. PICK p, n, h, vs : p = program /\ n = next /\ h = Head(scopes) /\ vs = variables
  OBVIOUS
<1>2. /\ status = "second" /\ next <= Len(program) /\ p[n].kind = "let"
      /\ HasVariable(h, p[n].name)
  BY <1>1 DEF RejectLet, Reject
<1>3. Nested(p) /\ p \in Seq(Items) /\ n \in 1..(Len(p) + 1) /\ ParametersDifferBefore(p, n)
  BY <1>1 DEF ProgramPart, Nested, ParametersDifferBefore
<1>4. n \in DOMAIN p /\ n \in Nat \ {0} /\ Position = n /\ Active
  BY <1>1, <1>2, <1>3 DEF Position, Active
<1>5. h = Body(p, n) /\ h \in ScopesOf(p)
  BY <1>1, <1>4, WhereThePassIs DEF Parts
<1>6. PICK name : name = p[n].name
  OBVIOUS
<1>7. PICK j \in DeclarationsIn(p, h, name) : IsDeclaredBefore(p, n, h, j)
  <2>1. AreDeclared(p, n, vs)
    BY <1>1 DEF Parts
  <2>2. \E v \in ToSet(vs[h]) : v.name = name
    BY <1>1, <1>2, <1>6 DEF HasVariable
  <2> QED BY <1>3, <1>5, <2>1, <2>2, HasDeclaration
<1>8. j # n
  BY <1>2, <1>4, <1>7 DEF IsDeclaredBefore
<1>9. n \in DeclarationsIn(p, h, name)
  BY <1>2, <1>4, <1>5, <1>6 DEF DeclarationsIn
<1>10. name \in Names
  BY <1>2, <1>3, <1>4, <1>6, ItemFacts
<1>11. h \in {TopScope} \cup DOMAIN p
  BY <1>5 DEF ScopesOf
<1>12. IsRedeclared(p)
  BY <1>3, <1>7, <1>8, <1>9, <1>10, <1>11, TwoDeclarations
<1> QED BY <1>1, <1>12

(* The second pass meets parameters with the name of another parameter or   *)
(* of a function inside.                                                    *)
LEMMA ParameterIsRedeclared ==
  ASSUME ProgramPart, Parts, RejectParameters
  PROVE  IsRedeclared(program)
<1>1. PICK p, n, vs : p = program /\ n = next /\ vs = variables
  OBVIOUS
<1>2. /\ status = "second" /\ next <= Len(program) /\ p[n].kind = "function"
      /\ ~ParametersDiffer
  BY <1>1 DEF RejectParameters, Reject
<1>3. Nested(p) /\ p \in Seq(Items) /\ n \in 1..(Len(p) + 1) /\ ParametersDifferBefore(p, n)
  BY <1>1 DEF ProgramPart, Nested, ParametersDifferBefore
<1>4. n \in DOMAIN p /\ n \in Nat \ {0} /\ n # TopScope
  BY <1>1, <1>2, <1>3 DEF TopScope
<1>5. n \in ScopesOf(p) /\ n \in {TopScope} \cup DOMAIN p
  BY <1>2, <1>4 DEF ScopesOf, Begins
<1>6. PICK ps : ps = p[n].parameters
  OBVIOUS
<1>7. ps \in Seq(Names) /\ ParametersOf(p, n) = ps
  BY <1>2, <1>3, <1>4, <1>6, ItemFacts DEF ParametersOf
<1>8. ASSUME NEW k \in DOMAIN ps PROVE -k \in DeclarationsIn(p, n, ps[k]) /\ ps[k] \in Names /\ k \in Nat \ {0}
  BY <1>7 DEF DeclarationsIn
<1>9. CASE ~IsInjective(ps)
  <2>1. PICK j \in DOMAIN ps, k \in DOMAIN ps : ps[j] = ps[k] /\ j # k
    BY <1>9 DEF IsInjective
  <2>2. -j \in DeclarationsIn(p, n, ps[j]) /\ -k \in DeclarationsIn(p, n, ps[j]) /\ -j # -k
    BY <1>8, <2>1
  <2>3. IsRedeclared(p)
    BY <1>3, <1>5, <1>8, <2>2, TwoDeclarations
  <2> QED BY <1>1, <2>3
<1>10. CASE IsInjective(ps)
  <2>1. PICK k \in DOMAIN ps : HasVariable(n, ps[k])
    BY <1>1, <1>2, <1>6, <1>10 DEF ParametersDiffer, ToSet
  <2>2. PICK name : name = ps[k]
    OBVIOUS
  <2>3. PICK j \in DeclarationsIn(p, n, name) : IsDeclaredBefore(p, n, n, j)
    <3>1. AreDeclared(p, n, vs)
      BY <1>1 DEF Parts
    <3>2. \E v \in ToSet(vs[n]) : v.name = name
      BY <1>1, <2>1, <2>2 DEF HasVariable
    <3> QED BY <1>3, <1>5, <3>1, <3>2, HasDeclaration
  <2>4. -k \in DeclarationsIn(p, n, name) /\ name \in Names /\ k \in Nat \ {0}
    BY <1>8, <2>2
  <2>5. j # -k
    <3>1. j \in Nat
      BY <1>3, <1>4, <2>3 DEF IsDeclaredBefore
    <3> QED BY <2>4, <3>1
  <2>6. IsRedeclared(p)
    BY <1>3, <1>5, <2>3, <2>4, <2>5, TwoDeclarations
  <2> QED BY <1>1, <2>6
<1> QED BY <1>9, <1>10

(* The second pass meets a name that is not declared.                       *)
LEMMA NameIsUndeclared ==
  ASSUME ProgramPart, Parts, RejectUndeclared
  PROVE  IsUndeclared(program)
<1>1. /\ status = "second" /\ next <= Len(program) /\ program[next].kind = "use"
      /\ Resolve(Head(scopes), program[next].name) = NONE
  BY DEF RejectUndeclared, Reject
<1>2. Meaning(program, next) = {}
  BY <1>1, ResolvedMeaning
<1>3. next \in DOMAIN program
  BY <1>1 DEF ProgramPart, Nested
<1> QED BY <1>1, <1>2, <1>3 DEF IsUndeclared
(* At the end every declaration has one Variable, so that no name has two.  *)
LEMMA NothingIsRedeclared ==
  ASSUME ProgramPart, Parts, next = Len(program) + 1
  PROVE  ~IsRedeclared(program)
<1>1. PICK p, n, vs : p = program /\ n = next /\ vs = variables
  OBVIOUS
<1>2. /\ Nested(p) /\ p \in Seq(Items) /\ n = Len(p) + 1 /\ ParametersDifferBefore(p, n)
      /\ AreDeclared(p, n, vs)
  BY <1>1 DEF ProgramPart, Nested, ParametersDifferBefore, Parts
<1>3. ASSUME NEW b \in {TopScope} \cup DOMAIN p, NEW name \in Names
      PROVE  ~(Cardinality(DeclarationsIn(p, b, name)) > 1)
  <2>1. CASE b \in ScopesOf(p)
    <3>1. PICK us : us = vs[b]
      OBVIOUS
    <3>2. us \in Seq(Variable) /\ NamesDiffer(us) /\ ToSet(us) = DeclaredVariables(p, n, b)
      BY <1>2, <2>1, <3>1 DEF AreDeclared
    <3>3. b < n
      <4>1. b \in Nat /\ b + 1 \in 1..(Len(p) + 1)
        BY <1>2, <2>1, ScopeIsNested
      <4> QED BY <1>2, <4>1
    <3>4. \A j \in DeclarationsIn(p, b, name) :
            \E v \in DeclaredVariables(p, n, b) : v.name = name /\ DeclarationOf(p, v) = j
      <4> TAKE j \in DeclarationsIn(p, b, name)
      <4>1. j \in DOMAIN p => j < n
        BY <1>2
      <4> QED BY <1>2, <2>1, <3>3, <4>1, DeclarationHasVariable
    <3>5. \A v, w \in DeclaredVariables(p, n, b) : v.name = name /\ w.name = name => v = w
      <4>1. \A j, k \in DOMAIN us : us[j].name = us[k].name => j = k
        BY <3>2 DEF NamesDiffer
      <4>2. DeclaredVariables(p, n, b) = {us[k] : k \in DOMAIN us}
        BY <3>2 DEF ToSet
      <4> QED BY ONLY <4>1, <4>2
    <3>6. \A j, k \in DeclarationsIn(p, b, name) : j = k
      BY <3>4, <3>5
    <3>7. DeclarationsIn(p, b, name) = {} \/ \E j : DeclarationsIn(p, b, name) = {j}
      BY <3>6
    <3>8. PICK c : c = Cardinality(DeclarationsIn(p, b, name))
      OBVIOUS
    <3>9. DeclarationsIn(p, b, name) = {} => c = 0
      BY <3>8, FS_EmptySet
    <3>10. (\E j : DeclarationsIn(p, b, name) = {j}) => c = 1
      BY <3>8, FS_Singleton
    <3>11. c = 0 \/ c = 1
      BY <3>7, <3>9, <3>10
    <3>12. ~(c > 1)
      BY ONLY <3>11
    <3> QED BY <3>8, <3>12
  <2>2. CASE b \notin ScopesOf(p)
    <3>1. b \in DOMAIN p /\ b # TopScope /\ p[b].kind # "function"
      BY <2>2 DEF ScopesOf, Begins
    <3>2. ParametersOf(p, b) = <<>>
      BY <1>2, <3>1, ItemFacts DEF ParametersOf
    <3>3. ASSUME NEW j \in DOMAIN p PROVE Body(p, j) # b
      <4>1. j \in 1..(Len(p) + 1)
        BY <1>2, ItemFacts
      <4> QED BY <1>2, <2>2, <4>1, ScopesAroundAnItem
    <3>4. DeclarationsIn(p, b, name) = {}
      BY <3>1, <3>2, <3>3 DEF DeclarationsIn
    <3> QED BY <3>4, FS_EmptySet
  <2> QED BY <2>1, <2>2
<1> QED BY <1>1, <1>3 DEF IsRedeclared

(* And every use of a name has been resolved.                               *)
LEMMA NothingIsUndeclared ==
  ASSUME ProgramPart, ResolvesLexically, next = Len(program) + 1
  PROVE  ~IsUndeclared(program)
<1>1. ASSUME NEW i \in DOMAIN program, program[i].kind = "use"
      PROVE  Meaning(program, i) # {}
  <2>1. i < next
    BY DEF ProgramPart, Nested
  <2>2. i \in DOMAIN resolved
    BY <1>1, <2>1 DEF ProgramPart
  <2> QED BY <2>2 DEF ResolvesLexically
<1> QED BY <1>1 DEF IsUndeclared

(* Function.addVariable finds a name twice only if a function has let       *)
(* statements in sub scopes.                                                *)
LEMMA NoAssertionOutside ==
  ASSUME ProgramPart, Parts, VisitEnd, status' = "assertion"
  PROVE  LetsInSubscopes
<1>1. SUFFICES ASSUME ~LetsInSubscopes PROVE FALSE
  OBVIOUS
<1>2. PICK p, n, s, ch, vs : p = program /\ n = next /\ s = Head(scopes) /\ ch = children /\ vs = variables
  OBVIOUS
<1>3. Visit({"end"})
  BY DEF VisitEnd
<1>4. /\ n \in DOMAIN p /\ n \in Nat \ {0} /\ Nested(p) /\ Active /\ status = "second" /\ Position = n
  BY <1>2, <1>3, VisitedItem DEF Parts
<1>5. s \in ScopesOf(p)
  BY <1>2, <1>4, WhereThePassIs DEF Parts
<1>6. PICK all : all = VariablesFromScopeChain(s)
  OBVIOUS
<1>7. /\ ScopeType(s) = "function"
      /\ ~(NamesDiffer(Selected(all, Parameters)) /\ NamesDiffer(Selected(all, Variable \ Parameters)))
  BY <1>2, <1>4, <1>6 DEF VisitEnd
<1>8. s # TopScope /\ p[s].kind = "function"
  BY <1>2, <1>7 DEF ScopeType
<1>9. PICK chain : IsChainOf(p, ch, vs, chain) /\ all = Selected(chain[s], ProperVariables)
  BY <1>2, <1>5, <1>6, VariablesOfTheChain
<1>10. IsTree(p, ch) /\ AreDeclared(p, n, vs) /\ LetsAreOutside(p)
  BY <1>2 DEF Parts
<1>11. PICK q, m : q = chain[s] /\ m = Len(vs[s])
  OBVIOUS
<1>12. /\ q \in Seq(Variable) /\ m \in 0..Len(q)
       /\ \A j, k \in 1..m : q[j].name = q[k].name => j = k
       /\ \A i \in (m + 1)..Len(q) : q[i] \notin ProperVariables
  BY <1>1, <1>4, <1>5, <1>8, <1>9, <1>10, <1>11, ChainOfAFunction
<1>13. \A W : NamesDiffer(Selected(all, W))
  BY <1>9, <1>11, <1>12, SelectedOnce
<1> QED BY <1>7, <1>13

-----------------------------------------------------------------------------
(* The types, and the end of the analysis.                                  *)

(* While a pass is running, its state has its type.                         *)
LEMMA PartsHaveTheirTypes ==
  ASSUME ProgramPart, Parts
  PROVE  /\ DOMAIN variables = DOMAIN children
         /\ \A s \in DOMAIN variables :
              /\ ToSet(variables[s]) \subseteq Variable
              /\ NamesDiffer(variables[s])
              /\ ToSet(children[s]) \subseteq DOMAIN children
         /\ ToSet(scopes) \subseteq DOMAIN children
         /\ DOMAIN outerFunction \subseteq DOMAIN program
<1>1. PICK p, n : p = program /\ n = next
  OBVIOUS
<1>2. /\ Nested(p) /\ n \in 1..(Len(p) + 1) /\ IsTree(p, children) /\ AreDeclared(p, n, variables)
      /\ IsOuter(p, outerFunction) /\ StackPart
  BY <1>1 DEF ProgramPart, Parts
<1>3. DOMAIN variables = ScopesOf(p) /\ DOMAIN children = ScopesOf(p)
  BY <1>2 DEF IsTree, AreDeclared
<1>4. ASSUME NEW s \in ScopesOf(p)
      PROVE  /\ ToSet(variables[s]) \subseteq Variable /\ NamesDiffer(variables[s])
             /\ ToSet(children[s]) \subseteq ScopesOf(p)
  <2>1. variables[s] \in Seq(Variable) /\ NamesDiffer(variables[s])
    BY <1>2 DEF AreDeclared
  <2>2. children[s] \in Seq(ScopesOf(p) \ {TopScope})
    BY <1>2 DEF IsTree
  <2>3. \A k \in DOMAIN variables[s] : variables[s][k] \in Variable
    BY <2>1, ElementType
  <2>4. \A k \in DOMAIN children[s] : children[s][k] \in ScopesOf(p)
    BY <2>2, ElementType
  <2> QED BY <2>1, <2>3, <2>4 DEF ToSet
<1>5. ToSet(scopes) \subseteq ScopesOf(p)
  <2>1. Position \in 1..(Len(p) + 1)
    <3>1. Len(p) \in Nat
      BY <1>2 DEF Nested
    <3> QED BY <1>1, <1>2, <3>1 DEF Position
  <2>2. Around(p, Position) \subseteq ScopesOf(p)
    BY <1>2, <2>1, ScopesAroundAnItem
  <2>3. ToSet(scopes) = Around(p, Position)
    BY <1>1, <1>2 DEF StackPart, Descending
  <2> QED BY <2>2, <2>3
<1>6. DOMAIN outerFunction \subseteq DOMAIN p
  BY <1>2 DEF IsOuter
<1> QED BY <1>1, <1>3, <1>4, <1>5, <1>6

(* What is known of the names that are resolved.                            *)
NamesAreResolved == ResolvesLexically /\ CapturesAreKnown /\ Range(resolved) \subseteq Variable

(* A pass runs, or an assertion has stopped the second one.                 *)
Runs == \/ status \in {"first", "second"}
        \/ status = "assertion" /\ LetsInSubscopes

(* Then the rest of the invariant holds.                                    *)
LEMMA PassIsInvariant == ProgramPart /\ Parts /\ NamesAreResolved /\ Runs => Invariant
<1>1. SUFFICES ASSUME ProgramPart, Parts, NamesAreResolved, Runs PROVE Invariant
  OBVIOUS
<1>2. Range(resolved) \subseteq Variable /\ ResolvesLexically /\ CapturesAreKnown
  BY <1>1 DEF NamesAreResolved
<1>3. referred \subseteq Variable
  <2>1. referred \subseteq Range(resolved)
    BY <1>2 DEF CapturesAreKnown, Range
  <2> QED BY <1>2, <2>1
<1>4. TypeOK
  BY <1>1, <1>2, <1>3, PartsHaveTheirTypes DEF TypeOK, Runs
<1>5. RejectsExactly
  BY <1>1 DEF RejectsExactly, Runs
<1> QED BY <1>1, <1>2, <1>4, <1>5 DEF Invariant

(* A step of the first pass resolves nothing.                               *)
LEMMA FirstPassResolvesNothing ==
  ASSUME ProgramPart, NamesAreResolved, status = "first", UNCHANGED <<resolved, referred>>
  PROVE  NamesAreResolved'
<1>1. DOMAIN resolved = {}
  BY NothingResolvedYet
<1>2. ResolvesLexically' /\ CapturesAreKnown'
  BY <1>1, NothingIsResolved DEF NamesAreResolved
<1> QED BY <1>2 DEF NamesAreResolved, Range

(* The initial state.                                                       *)
LEMMA InitInvariant == Init => Invariant
<1>1. SUFFICES ASSUME Init PROVE Invariant
  OBVIOUS
<1>2. ProgramPart /\ Parts
  BY <1>1, InitParts
<1>3. status = "first" /\ DOMAIN resolved = {} /\ referred = {} /\ Runs
  BY <1>1 DEF Init, Runs
<1>4. NamesAreResolved
  BY <1>3 DEF NamesAreResolved, ResolvesLexically, CapturesAreKnown, Range
<1> QED BY <1>2, <1>3, <1>4, PassIsInvariant

(* The first pass meets an item.                                            *)
LEMMA FirstPassStep ==
  ASSUME ProgramPart, Parts, NamesAreResolved, status = "first",
         ProgramPart', Parts', UNCHANGED <<resolved, referred>>, status' \in {"first", "second"}
  PROVE  Invariant'
<1>1. NamesAreResolved'
  BY FirstPassResolvesNothing
<1>2. Runs'
  BY DEF Runs
<1> QED BY <1>1, <1>2, PassIsInvariant, PTL

(* The second pass comes to the next item.                                  *)
LEMMA SecondPassStep ==
  ASSUME ProgramPart, Parts, NamesAreResolved, Active,
         ProgramPart', Parts', UNCHANGED <<program, outerFunction, resolved, referred>>,
         Runs'
  PROVE  Invariant'
<1>1. NamesAreResolved'
  BY ResolvedStays DEF NamesAreResolved
<1> QED BY <1>1, PassIsInvariant, PTL

(* A pass stops with an error.                                              *)
LEMMA ErrorStep ==
  ASSUME Invariant, ProgramPart, NamesAreResolved, status \in {"first", "second"},
         ProgramPart', IsRedeclared(program') \/ IsUndeclared(program'), status' = "error",
         UNCHANGED <<next, tree, scopes, outerFunction, results>>,
         DOMAIN program \subseteq DOMAIN program',
         status = "second" => program' = program
  PROVE  Invariant'
<1>1. UNCHANGED <<variables, children, resolved, referred>>
  BY DEF tree, results
<1>2. NamesAreResolved'
  <2>1. CASE status = "first"
    BY <1>1, <2>1, FirstPassResolvesNothing
  <2>2. CASE status = "second"
    BY <1>1, <2>2, ResolvedStays DEF NamesAreResolved
  <2> QED BY <2>1, <2>2
<1>3. TypeOK'
  BY <1>1 DEF Invariant, TypeOK, NamesDiffer
<1>4. RejectsExactly' /\ ~Active'
  BY DEF RejectsExactly, Active
<1> QED BY <1>2, <1>3, <1>4 DEF Invariant, NamesAreResolved

(* The second pass rejects the program.                                     *)
LEMMA RejectStep ==
  ASSUME Invariant, NEW kind, Reject(kind), IsRedeclared(program) \/ IsUndeclared(program)
  PROVE  Invariant'
<1>1. /\ status = "second" /\ status' = "error" /\ program' = program
      /\ UNCHANGED <<next, scopes, functionStack, tree, outerFunction, results>>
  BY DEF Reject, Stop
<1>2. ProgramPart /\ NamesAreResolved
  BY DEF Invariant, TypeOK, NamesAreResolved
<1>3. ProgramPart'
  <2>1. resolved' = resolved /\ next' = next
    BY <1>1 DEF results
  <2> QED BY <1>1, <1>2, <2>1 DEF ProgramPart
<1> QED BY <1>1, <1>2, <1>3, ErrorStep

(* The steps of the first pass and of the second.                           *)
FirstPass ==
  \/ \E name \in Names : FirstVisitUse(name) \/ FirstVisitLet(name)
  \/ \E name \in Names, parameters \in ParameterLists : FirstVisitFunction(name, parameters)
  \/ \E kind \in Constructs : FirstVisitBody(kind)
  \/ FirstVisitElse
  \/ FirstVisitEnd
  \/ EndFirstPass
SecondPass ==
  \/ VisitVariableExpression \/ RejectUndeclared
  \/ VisitLetStatement \/ RejectLet
  \/ VisitFunctionStatement \/ RejectParameters
  \/ VisitBeginBody \/ VisitElse \/ VisitEnd
  \/ ComputeVariableOffsets

(* The status says which pass a step is of.                                *)
LEMMA Passes == Next => (FirstPass /\ status = "first") \/ (SecondPass /\ status = "second")
<1>1. FirstPass => status = "first"
  BY DEF FirstPass, FirstVisitUse, FirstVisitLet, FirstVisitFunction, FirstVisitBody,
         FirstVisitElse, FirstVisitEnd, EndFirstPass, Write
<1>2. SecondPass => status = "second"
  BY DEF SecondPass, VisitVariableExpression, RejectUndeclared, VisitLetStatement, RejectLet,
         VisitFunctionStatement, RejectParameters, VisitBeginBody, VisitElse, VisitEnd,
         Visit, Reject, ComputeVariableOffsets
<1>3. Next => FirstPass \/ SecondPass
  BY DEF Next, FirstPass, SecondPass
<1> QED BY <1>1, <1>2, <1>3

(* Every step of the first pass keeps the invariant.                        *)
LEMMA FirstPassInvariant ==
  ASSUME Invariant, status = "first", FirstPass
  PROVE  Invariant'
<1>1. ProgramPart /\ Parts /\ NamesAreResolved
  BY DEF Invariant, Active, TypeOK, NamesAreResolved
<1>2. ASSUME ProgramPart', Parts', UNCHANGED results, status' \in {"first", "second"}
      PROVE  Invariant'
  <2>1. UNCHANGED <<resolved, referred>>
    BY <1>2 DEF results
  <2> QED BY <1>1, <1>2, <2>1, FirstPassStep
<1>3. ASSUME NEW name \in Names, FirstVisitUse(name) PROVE Invariant'
  <2>1. ProgramPart' /\ Parts'
    BY <1>1, <1>3, FirstVisitUseStep
  <2>2. UNCHANGED results /\ status' = status
    BY <1>3 DEF FirstVisitUse
  <2> QED BY <1>2, <2>1, <2>2
<1>4. ASSUME NEW name \in Names, FirstVisitLet(name) PROVE Invariant'
  <2>1. ProgramPart' /\ Parts'
    BY <1>1, <1>4, FirstVisitLetStep
  <2>2. UNCHANGED results /\ status' = status
    BY <1>4 DEF FirstVisitLet
  <2> QED BY <1>2, <2>1, <2>2
<1>5. ASSUME NEW name \in Names, NEW parameters \in ParameterLists, FirstVisitFunction(name, parameters)
      PROVE  Invariant'
  <2>1. status' = "error" \/ (status' = status /\ UNCHANGED results)
    BY <1>5 DEF FirstVisitFunction, Stop
  <2>2. CASE status' = status /\ UNCHANGED results
    <3>1. ProgramPart' /\ Parts'
      BY <1>1, <1>5, <2>2, FirstVisitFunctionStep
    <3> QED BY <1>2, <2>2, <3>1
  <2>3. CASE status' = "error"
    <3>1. /\ ProgramPart' /\ IsRedeclared(program')
          /\ UNCHANGED <<next, tree, scopes, outerFunction, results>>
      BY <1>1, <1>5, <2>3, FunctionIsRedeclared
    <3>2. DOMAIN program \subseteq DOMAIN program'
      <4>1. PICK x : x = Item("function", name, parameters)
        OBVIOUS
      <4>2. x \in Items /\ Write(x)
        BY <1>5, <4>1 DEF Item, Items, FirstVisitFunction
      <4>3. program' = Append(program, x) /\ program \in Seq(Items)
        BY <1>1, <4>2 DEF Write, ProgramPart, Nested
      <4> QED BY <4>2, <4>3, ElementAppended
    <3> QED BY <1>1, <2>3, <3>1, <3>2, ErrorStep
  <2> QED BY <2>1, <2>2, <2>3
<1>6. ASSUME NEW kind \in Constructs, FirstVisitBody(kind) PROVE Invariant'
  <2>1. ProgramPart' /\ Parts'
    BY <1>1, <1>6, FirstVisitBodyStep
  <2>2. UNCHANGED results /\ status' = status
    BY <1>6 DEF FirstVisitBody
  <2> QED BY <1>2, <2>1, <2>2
<1>7. ASSUME FirstVisitElse PROVE Invariant'
  <2>1. ProgramPart' /\ Parts'
    BY <1>1, <1>7, FirstVisitElseStep
  <2>2. UNCHANGED results /\ status' = status
    BY <1>7 DEF FirstVisitElse
  <2> QED BY <1>2, <2>1, <2>2
<1>8. ASSUME FirstVisitEnd PROVE Invariant'
  <2>1. ProgramPart' /\ Parts'
    BY <1>1, <1>8, FirstVisitEndStep
  <2>2. UNCHANGED results /\ status' = status
    BY <1>8 DEF FirstVisitEnd
  <2> QED BY <1>2, <2>1, <2>2
<1>9. ASSUME EndFirstPass PROVE Invariant'
  <2>1. ProgramPart' /\ Parts'
    BY <1>1, <1>9, EndFirstPassStep
  <2>2. UNCHANGED results /\ status' = "second"
    BY <1>9 DEF EndFirstPass
  <2> QED BY <1>2, <2>1, <2>2
<1> QED BY <1>3, <1>4, <1>5, <1>6, <1>7, <1>8, <1>9 DEF FirstPass

(* Every item has been visited twice.                                       *)
LEMMA ComputeVariableOffsetsStep ==
  ASSUME Invariant, ComputeVariableOffsets
  PROVE  Invariant'
<1>1. /\ status = "second" /\ next > Len(program) /\ status' = "success"
      /\ UNCHANGED <<program, next, scopes, tree, outerFunction, resolved, referred>>
  BY DEF ComputeVariableOffsets
<1>2. ProgramPart /\ Parts /\ NamesAreResolved
  BY <1>1 DEF Invariant, Active, TypeOK, NamesAreResolved
<1>3. next = Len(program) + 1
  <2>1. Len(program) \in Nat /\ next \in 1..(Len(program) + 1)
    BY <1>2 DEF ProgramPart, Nested
  <2> QED BY <1>1, <2>1
<1>4. ~IsRedeclared(program) /\ ~IsUndeclared(program)
  BY <1>2, <1>3, NothingIsRedeclared, NothingIsUndeclared DEF NamesAreResolved
<1>5. ResolvesLexically' /\ CapturesAreKnown'
  BY <1>1, <1>2, ResolvedStays DEF NamesAreResolved
<1>6. ProgramPart'
  BY <1>1, <1>2 DEF ProgramPart
<1>7. TypeOK'
  <2>1. UNCHANGED <<variables, children>>
    BY <1>1 DEF tree
  <2> QED BY <1>1, <2>1 DEF Invariant, TypeOK, NamesDiffer
<1>8. RejectsExactly' /\ ~Active'
  BY <1>1, <1>4 DEF RejectsExactly, Active
<1> QED BY <1>5, <1>6, <1>7, <1>8 DEF Invariant

(* Every step of the second pass keeps the invariant.                       *)
LEMMA SecondPassInvariant ==
  ASSUME Invariant, status = "second", SecondPass
  PROVE  Invariant'
<1>1. ProgramPart /\ Parts /\ NamesAreResolved /\ Active
  BY DEF Invariant, Active, TypeOK, NamesAreResolved
<1>2. ASSUME NEW kinds, Visit(kinds), ProgramPart', Parts', UNCHANGED <<resolved, referred>>, Runs'
      PROVE  Invariant'
  <2>1. UNCHANGED <<program, outerFunction>>
    BY <1>2 DEF Visit
  <2> QED BY <1>1, <1>2, <2>1, SecondPassStep
<1>3. ASSUME VisitVariableExpression PROVE Invariant'
  <2>1. ProgramPart' /\ Parts'
    BY <1>1, <1>3, VisitVariableExpressionStep
  <2>2. /\ ResolvesLexically' /\ CapturesAreKnown'
        /\ \E v \in Variable : resolved' = Including(resolved, next, v)
    BY <1>1, <1>3, VisitVariableExpressionResolves DEF NamesAreResolved
  <2>3. Range(resolved') \subseteq Variable
    <3>1. PICK v \in Variable : resolved' = Including(resolved, next, v)
      BY <2>2
    <3>2. \A i \in DOMAIN resolved : resolved[i] \in Variable
      BY <1>1 DEF NamesAreResolved, Range
    <3>3. \A i \in DOMAIN resolved' : resolved'[i] \in Variable
      BY <3>1, <3>2 DEF Including
    <3> QED BY <3>3 DEF Range
  <2>4. NamesAreResolved'
    BY <2>2, <2>3 DEF NamesAreResolved, Range
  <2>5. Runs'
    BY <1>3 DEF VisitVariableExpression, Runs
  <2> QED BY <2>1, <2>4, <2>5, PassIsInvariant, PTL
<1>4. ASSUME RejectUndeclared PROVE Invariant'
  <2>1. Reject("use")
    BY <1>4 DEF RejectUndeclared
  <2>2. IsUndeclared(program)
    BY <1>1, <1>4, NameIsUndeclared
  <2> QED BY <2>1, <2>2, RejectStep
<1>5. ASSUME VisitLetStatement PROVE Invariant'
  <2>1. ProgramPart' /\ Parts'
    BY <1>1, <1>5, VisitLetStatementStep
  <2>2. Visit({"let"}) /\ UNCHANGED <<resolved, referred>> /\ Runs'
    BY <1>5 DEF VisitLetStatement, Runs
  <2> QED BY <1>2, <2>1, <2>2
<1>6. ASSUME RejectLet PROVE Invariant'
  <2>1. Reject("let")
    BY <1>6 DEF RejectLet
  <2>2. IsRedeclared(program)
    BY <1>1, <1>6, LetIsRedeclared
  <2> QED BY <2>1, <2>2, RejectStep
<1>7. ASSUME VisitFunctionStatement PROVE Invariant'
  <2>1. ProgramPart' /\ Parts'
    BY <1>1, <1>7, VisitFunctionStatementStep
  <2>2. Visit({"function"}) /\ UNCHANGED <<resolved, referred>> /\ Runs'
    BY <1>7 DEF VisitFunctionStatement, Runs
  <2> QED BY <1>2, <2>1, <2>2
<1>8. ASSUME RejectParameters PROVE Invariant'
  <2>1. Reject("function")
    BY <1>8 DEF RejectParameters
  <2>2. IsRedeclared(program)
    BY <1>1, <1>8, ParameterIsRedeclared
  <2> QED BY <2>1, <2>2, RejectStep
<1>9. ASSUME VisitBeginBody PROVE Invariant'
  <2>1. ProgramPart' /\ Parts'
    BY <1>1, <1>9, VisitBeginBodyStep
  <2>2. Visit({"if", "while"}) /\ UNCHANGED <<resolved, referred>> /\ Runs'
    BY <1>9 DEF VisitBeginBody, Runs
  <2> QED BY <1>2, <2>1, <2>2
<1>10. ASSUME VisitElse PROVE Invariant'
  <2>1. ProgramPart' /\ Parts'
    BY <1>1, <1>10, VisitElseStep
  <2>2. Visit({"else"}) /\ UNCHANGED <<resolved, referred>> /\ Runs'
    BY <1>10 DEF VisitElse, Runs
  <2> QED BY <1>2, <2>1, <2>2
<1>11. ASSUME VisitEnd PROVE Invariant'
  <2>1. ProgramPart' /\ Parts'
    BY <1>1, <1>11, VisitEndStep
  <2>2. /\ Visit({"end"}) /\ UNCHANGED <<resolved, referred>>
        /\ status' \in {status, "assertion"}
    BY <1>11 DEF VisitEnd
  <2>3. Runs'
    BY <1>1, <1>11, <2>2, NoAssertionOutside DEF Runs
  <2> QED BY <1>2, <2>1, <2>2, <2>3
<1>12. ASSUME ComputeVariableOffsets PROVE Invariant'
  BY <1>12, ComputeVariableOffsetsStep
<1> QED BY <1>3, <1>4, <1>5, <1>6, <1>7, <1>8, <1>9, <1>10, <1>11, <1>12 DEF SecondPass

(* The invariant is inductive.                                              *)
THEOREM InvariantStep == Invariant /\ [Next]_vars => Invariant'
<1>1. SUFFICES ASSUME Invariant, [Next]_vars PROVE Invariant'
  OBVIOUS
<1>2. CASE UNCHANGED vars
  <2>1. UNCHANGED <<program, status, next, scopes, functionStack, variables, children,
                    outerFunction, resolved, gathered, referred, offsets>>
    BY <1>2 DEF vars, tree, results
  <2>2. TypeOK' /\ ProgramPart' /\ RejectsExactly'
    BY <1>1, <2>1 DEF Invariant, TypeOK, ProgramPart, RejectsExactly, NamesDiffer
  <2>3. ResolvesLexically' /\ CapturesAreKnown'
    BY <1>1, <2>1, ResolvedStays DEF Invariant
  <2>4. Active' => Parts'
    BY <1>1, <2>1 DEF Invariant, Active, Parts, StackPart, Position
  <2> QED BY <2>2, <2>3, <2>4 DEF Invariant
<1>3. CASE FirstPass /\ status = "first"
  BY <1>1, <1>3, FirstPassInvariant
<1>4. CASE SecondPass /\ status = "second"
  BY <1>1, <1>4, SecondPassInvariant
<1> QED BY <1>1, <1>2, <1>3, <1>4, Passes

(* It holds for every program, of any length, and any names.                *)
THEOREM SpecInvariant == Spec => []Invariant
<1> QED BY InitInvariant, InvariantStep, PTL DEF Spec

(* The scopes have Variables of their type with different names.            *)
THEOREM SpecTypeOK == Spec => []TypeOK
<1>1. Invariant => TypeOK
  BY DEF Invariant
<1> QED BY <1>1, SpecInvariant, PTL

(* Every name the analyser resolves refers to the declaration that the rules*)
(* of the language say.                                                     *)
THEOREM SpecResolvesLexically == Spec => []ResolvesLexically
<1>1. Invariant => ResolvesLexically
  BY DEF Invariant
<1> QED BY <1>1, SpecInvariant, PTL

(* Exactly the programs with a name declared twice in a body, or used where *)
(* it is not declared, are rejected.                                        *)
THEOREM SpecRejectsExactly == Spec => []RejectsExactly
<1>1. Invariant => RejectsExactly
  BY DEF Invariant
<1> QED BY <1>1, SpecInvariant, PTL

(* The variables used by inner functions are known, and can be found along  *)
(* the outer functions of their users.                                      *)
THEOREM SpecCapturesAreKnown == Spec => []CapturesAreKnown
<1>1. Invariant => CapturesAreKnown
  BY DEF Invariant
<1> QED BY <1>1, SpecInvariant, PTL

-----------------------------------------------------------------------------
(* What a function gathers.                                                 *)

(* Scope b is c, or inside c with no function between them.                 *)
Inside(p, c, b) ==
  /\ b \in ScopesOf(p) /\ c \in Around(p, b + 1)
  /\ \A g \in FunctionsAround(p, b + 1) : g <= c

(* From inside a scope outwards.                                            *)
LEMMA ScopeAroundIsInside ==
  ASSUME NEW p, Nested(p), NEW c, NEW b, Inside(p, c, b), b # c
  PROVE  /\ b \in ScopesOf(p) /\ b # TopScope /\ p[b].kind # "function"
         /\ ScopeAround(p, b) \in ScopesOf(p) /\ ScopeAround(p, b) < b /\ c < b
         /\ Inside(p, c, ScopeAround(p, b))
<1>1. PICK a : a = ScopeAround(p, b)
  OBVIOUS
<1>2. b \in ScopesOf(p) /\ c \in Around(p, b + 1) /\ \A g \in FunctionsAround(p, b + 1) : g <= c
  BY DEF Inside
<1>3. b \in Nat /\ b + 1 \in 1..(Len(p) + 1) /\ c <= b /\ b \in Around(p, b + 1)
  BY <1>2, ScopeIsNested
<1>4. c \in ScopesOf(p) /\ c \in Nat
  <2>1. c \in ScopesOf(p)
    BY <1>2, <1>3, ScopesAroundAnItem
  <2> QED BY <2>1, ScopeIsNested
<1>5. c < b /\ b # TopScope
  BY <1>3, <1>4 DEF TopScope
<1>6. a \in ScopesOf(p) /\ a < b /\ Around(p, b + 1) = Around(p, a + 1) \cup {b}
  BY <1>1, <1>2, <1>5, ScopeIsNested
<1>7. p[b].kind # "function"
  <2>1. SUFFICES ASSUME p[b].kind = "function" PROVE FALSE
    OBVIOUS
  <2>2. b \in FunctionsAround(p, b + 1)
    BY <1>3, <2>1 DEF FunctionsAround, IsFunction
  <2>3. b <= c
    BY <1>2, <2>2
  <2> QED BY <1>3, <1>4, <1>5, <2>3
<1>8. Inside(p, c, a)
  <2>1. c \in Around(p, a + 1)
    BY <1>2, <1>6
  <2>2. FunctionsAround(p, a + 1) \subseteq FunctionsAround(p, b + 1)
    BY <1>6 DEF FunctionsAround
  <2> QED BY <1>2, <1>6, <2>1, <2>2 DEF Inside
<1> QED BY <1>1, <1>2, <1>5, <1>6, <1>7, <1>8

(* What is inside a sub scope is inside the scope around it.                *)
LEMMA InsideTheScopeAround ==
  ASSUME NEW p, Nested(p), NEW d \in ScopesOf(p), d # TopScope, p[d].kind # "function",
         NEW b, Inside(p, d, b)
  PROVE  Inside(p, ScopeAround(p, d), b) /\ b # ScopeAround(p, d)
<1>1. PICK a : a = ScopeAround(p, d)
  OBVIOUS
<1>2. b \in ScopesOf(p) /\ d \in Around(p, b + 1) /\ \A g \in FunctionsAround(p, b + 1) : g <= d
  BY DEF Inside
<1>3. b \in Nat /\ b + 1 \in 1..(Len(p) + 1) /\ d <= b
  BY <1>2, ScopeIsNested
<1>4. /\ d \in Nat /\ a \in ScopesOf(p) /\ a < d /\ a \in Nat
      /\ Around(p, d + 1) = Around(p, a + 1) \cup {d} /\ a \in Around(p, a + 1)
      /\ \A c \in Around(p, a + 1) : c <= a
  <2>1. d \in Nat /\ a \in ScopesOf(p) /\ a < d /\ Around(p, d + 1) = Around(p, a + 1) \cup {d}
    BY <1>1, ScopeIsNested
  <2> QED BY <2>1, ScopeIsNested
<1>5. Around(p, d + 1) = {c \in Around(p, b + 1) : c <= d}
  <2>1. WellNestedAt(p, b + 1)
    BY <1>3, Nesting
  <2>2. \A x \in Around(p, b + 1) : Around(p, x + 1) = {c \in Around(p, b + 1) : c <= x}
    BY <2>1 DEF WellNestedAt
  <2> QED BY <1>2, <2>2
<1>6. a \in Around(p, b + 1)
  BY <1>4, <1>5
<1>7. ASSUME NEW g \in FunctionsAround(p, b + 1) PROVE g <= a
  <2>1. g \in Around(p, b + 1) /\ g <= d /\ IsFunction(p, g)
    BY <1>2 DEF FunctionsAround
  <2>2. g # d
    BY <2>1 DEF IsFunction
  <2> QED BY <1>4, <1>5, <2>1, <2>2
<1>8. b # a
  BY <1>3, <1>4
<1> QED BY <1>1, <1>2, <1>6, <1>7, <1>8 DEF Inside

(* The parts of the chain of a scope.                                       *)
LEMMA ChainParts ==
  ASSUME NEW p, Nested(p), NEW ch, IsTree(p, ch), NEW n \in Nat, NEW vs, AreDeclared(p, n, vs),
         NEW chain, IsChainOf(p, ch, vs, chain), NEW s \in ScopesOf(p)
  PROVE  /\ vs[s] \in Seq(Variable) /\ chain[s] \in Seq(Variable)
         /\ InnerChains(p, ch, s, chain) \in Seq(Seq(Variable))
         /\ FlattenSeq(InnerChains(p, ch, s, chain)) \in Seq(Variable)
         /\ chain[s] = vs[s] \o FlattenSeq(InnerChains(p, ch, s, chain))
         /\ ToSet(chain[s]) = ToSet(vs[s]) \cup ToSet(FlattenSeq(InnerChains(p, ch, s, chain)))
<1>1. PICK qs, u : qs = InnerChains(p, ch, s, chain) /\ u = FlattenSeq(qs)
  OBVIOUS
<1>2. chain \in [ScopesOf(p) -> Seq(Variable)] /\ chain[s] = vs[s] \o u
  BY <1>1 DEF IsChainOf, ChainFrom
<1>3. vs[s] \in Seq(Variable) /\ qs \in Seq(Seq(Variable))
  BY <1>1, <1>2, ChainFromIsSequence
<1>4. u \in Seq(Variable)
  BY <1>1, <1>3, FlattenedElements
<1>5. ToSet(vs[s] \o u) = ToSet(vs[s]) \cup ToSet(u)
  BY <1>3, <1>4, ElementsOfConcatenation
<1> QED BY <1>1, <1>2, <1>3, <1>4, <1>5

(* It has the Variables of the sub scopes inside and no others.             *)
LEMMA ChainIsOfScopesInside ==
  ASSUME NEW p, Nested(p), NEW ch, IsTree(p, ch), NEW n \in Nat, NEW vs, AreDeclared(p, n, vs),
         NEW chain, IsChainOf(p, ch, vs, chain)
  PROVE  \A s \in ScopesOf(p) : \A v \in ToSet(chain[s]) : \E b : Inside(p, s, b) /\ v \in ToSet(vs[b])
<1> DEFINE D == ScopesOf(p)
           OfInside(s) == \A v \in ToSet(chain[s]) : \E b : Inside(p, s, b) /\ v \in ToSet(vs[b])
           S == {s \in D : OfInside(s)}
           rank == [s \in D |-> Len(p) - s]
<1>1. \A s \in D : s \in 0..Len(p)
  <2> TAKE s \in D
  <2>1. s \in Nat /\ s + 1 \in 1..(Len(p) + 1) /\ Len(p) \in Nat
    BY ScopeIsNested DEF Nested
  <2> QED BY ONLY <2>1
<1>2. rank \in [D -> Nat]
  <2>1. Len(p) \in Nat
    BY DEF Nested
  <2>2. \A s \in D : Len(p) - s \in Nat
    BY <1>1, <2>1
  <2> HIDE DEF D
  <2> QED BY <2>2
<1>3. ASSUME NEW s \in D, NEW c \in D, s < c PROVE rank[c] < rank[s]
  <2>1. c \in 0..Len(p) /\ s \in 0..Len(p) /\ Len(p) \in Nat
    BY <1>1 DEF Nested
  <2>2. rank[c] = Len(p) - c /\ rank[s] = Len(p) - s
    OBVIOUS
  <2> QED BY ONLY <1>3, <2>1, <2>2
<1>4. ASSUME NEW s \in D, \A t \in D : rank[t] < rank[s] => t \in S, NEW v \in ToSet(chain[s])
      PROVE  \E b : Inside(p, s, b) /\ v \in ToSet(vs[b])
  <2>1. PICK qs : qs = InnerChains(p, ch, s, chain)
    OBVIOUS
  <2>2. qs \in Seq(Seq(Variable)) /\ ToSet(chain[s]) = ToSet(vs[s]) \cup ToSet(FlattenSeq(qs))
    <3>1. /\ InnerChains(p, ch, s, chain) \in Seq(Seq(Variable))
          /\ ToSet(chain[s]) = ToSet(vs[s]) \cup ToSet(FlattenSeq(InnerChains(p, ch, s, chain)))
      BY ChainParts
    <3> QED BY ONLY <2>1, <3>1
  <2>3. CASE v \in ToSet(vs[s])
    <3>1. s \in Around(p, s + 1) /\ \A g \in Around(p, s + 1) : g <= s
      BY ScopeIsNested
    <3>2. Inside(p, s, s)
      BY <3>1 DEF Inside, FunctionsAround
    <3> QED BY <2>3, <3>2
  <2>4. CASE v \in ToSet(FlattenSeq(qs))
    <3>1. PICK k \in DOMAIN qs : v \in ToSet(qs[k])
      BY <2>2, <2>4, FlattenedElements
    <3>2. PICK c : c = ch[s][k]
      OBVIOUS
    <3>3. k \in DOMAIN ch[s] /\ qs[k] = IF p[c].kind = "function" THEN <<>> ELSE chain[c]
      BY <2>1, <3>1, <3>2 DEF InnerChains
    <3>4. c \in D /\ c # TopScope /\ s < c /\ ScopeAround(p, c) = s
      BY <3>2, <3>3, ChildrenAreInside
    <3>5. p[c].kind # "function" /\ v \in ToSet(chain[c])
      BY <3>1, <3>3 DEF ToSet
    <3>6. c \in S
      BY <1>3, <1>4, <3>4
    <3>7. PICK b : Inside(p, c, b) /\ v \in ToSet(vs[b])
      BY <3>5, <3>6
    <3>8. Inside(p, s, b)
      BY <3>4, <3>5, <3>7, InsideTheScopeAround
    <3> QED BY <3>7, <3>8
  <2> QED BY <2>2, <2>3, <2>4
<1>5. ASSUME NEW s \in D, \A t \in D : rank[t] < rank[s] => t \in S PROVE s \in S
  <2> HIDE DEF D, rank
  <2> QED BY <1>4, <1>5
<1>6. \A s \in D : s \in S
  <2> HIDE DEF D, S, rank
  <2> QED BY <1>2, <1>5, RankInduction
<1> QED BY <1>6

(* What is in the chain of a sub scope is in that of the scope around it,   *)
(* twice if the sub scope has been pushed twice.                            *)
LEMMA ChainGoesOutwards ==
  ASSUME NEW p, Nested(p), NEW ch, IsTree(p, ch), NEW n \in Nat, NEW vs, AreDeclared(p, n, vs),
         NEW chain, IsChainOf(p, ch, vs, chain), ArePushedTwice(p, n, ch),
         NEW b \in ScopesOf(p), b # TopScope, p[b].kind # "function", b < n,
         NEW v \in ToSet(chain[b])
  PROVE  Twice(chain[ScopeAround(p, b)], v)
<1>1. PICK a, qs, u : a = ScopeAround(p, b) /\ qs = InnerChains(p, ch, a, chain) /\ u = FlattenSeq(qs)
  OBVIOUS
<1>2. a \in ScopesOf(p)
  BY <1>1, ScopeIsNested
<1>3. /\ vs[a] \in Seq(Variable) /\ qs \in Seq(Seq(Variable)) /\ u \in Seq(Variable)
      /\ chain[a] = vs[a] \o u
  <2>1. /\ vs[a] \in Seq(Variable)
        /\ InnerChains(p, ch, a, chain) \in Seq(Seq(Variable))
        /\ FlattenSeq(InnerChains(p, ch, a, chain)) \in Seq(Variable)
        /\ chain[a] = vs[a] \o FlattenSeq(InnerChains(p, ch, a, chain))
    BY <1>2, ChainParts
  <2> QED BY ONLY <1>1, <2>1
<1>4. PICK j \in DOMAIN ch[a], k \in DOMAIN ch[a] : j # k /\ ch[a][j] = b /\ ch[a][k] = b
  BY <1>1 DEF ArePushedTwice
<1>5. /\ j \in DOMAIN qs /\ k \in DOMAIN qs /\ qs[j] = chain[b] /\ qs[k] = chain[b]
      /\ j \in Nat /\ k \in Nat
  <2>1. ch[a] \in Seq(ScopesOf(p) \ {TopScope})
    BY <1>2 DEF IsTree
  <2> QED BY <1>1, <1>4, <2>1 DEF InnerChains
<1>6. Twice(u, v)
  <2>1. j < k \/ k < j
    BY <1>4, <1>5
  <2> QED BY <1>1, <1>3, <1>5, <2>1, FlattenedTwice
<1> QED BY <1>1, <1>3, <1>6, TwiceInConcatenation

(* So a Variable of a sub scope is in the chain of its function twice.      *)
LEMMA SubScopesAreGatheredTwice ==
  ASSUME NEW p, Nested(p), NEW ch, IsTree(p, ch), NEW n \in Nat, NEW vs, AreDeclared(p, n, vs),
         NEW chain, IsChainOf(p, ch, vs, chain), ArePushedTwice(p, n, ch),
         NEW c, NEW v
  PROVE  \A b \in ScopesOf(p) :
           Inside(p, c, b) /\ b # c /\ b < n /\ v \in ToSet(chain[b]) => Twice(chain[c], v)
<1> DEFINE D == ScopesOf(p)
           IsTwice(b) == Inside(p, c, b) /\ b # c /\ b < n /\ v \in ToSet(chain[b]) => Twice(chain[c], v)
           S == {b \in D : IsTwice(b)}
           rank == [b \in D |-> b]
<1>1. \A s \in D : s \in Nat
  BY ScopeIsNested
<1>2. rank \in [D -> Nat]
  <2> HIDE DEF D
  <2> QED BY <1>1
<1>3. ASSUME NEW b \in D, \A t \in D : rank[t] < rank[b] => t \in S,
             Inside(p, c, b), b # c, b < n, v \in ToSet(chain[b])
      PROVE  Twice(chain[c], v)
  <2>1. PICK a : a = ScopeAround(p, b)
    OBVIOUS
  <2>2. /\ b # TopScope /\ p[b].kind # "function" /\ a \in D /\ a < b
        /\ Inside(p, c, a)
    BY <1>3, <2>1, ScopeAroundIsInside
  <2>3. Twice(chain[a], v)
    BY <1>3, <2>1, <2>2, ChainGoesOutwards
  <2>4. CASE a = c
    BY <2>3, <2>4
  <2>5. CASE a # c
    <3>1. a \in S
      BY <1>3, <2>2
    <3>2. v \in ToSet(chain[a])
      BY <2>3 DEF Twice, ToSet
    <3>3. a < n
      BY <1>1, <1>3, <2>2
    <3> QED BY <2>2, <2>5, <3>1, <3>2, <3>3
  <2> QED BY <2>4, <2>5
<1>4. ASSUME NEW b \in D, \A t \in D : rank[t] < rank[b] => t \in S PROVE b \in S
  <2> HIDE DEF D, rank
  <2> QED BY <1>3, <1>4
<1>5. \A b \in D : b \in S
  <2> HIDE DEF D, S, rank
  <2> QED BY <1>2, <1>4, RankInduction
<1> QED BY <1>5

(* The Variables of a list that a function gathers.                         *)
LEMMA LetVariable ==
  ASSUME NEW p, Nested(p), NEW n, NEW vs, AreDeclared(p, n, vs),
         NEW i \in DOMAIN p, i < n, p[i].kind = "let"
  PROVE  /\ NewVariable(i, p[i].name, "variable", FunctionAround(p, i), FALSE) \in ToSet(vs[Body(p, i)])
         /\ NewVariable(i, p[i].name, "variable", FunctionAround(p, i), FALSE) \in ProperVariables
         /\ Body(p, i) \in ScopesOf(p)
<1>1. PICK b, v : b = Body(p, i) /\ v = NewVariable(i, p[i].name, "variable", FunctionAround(p, i), FALSE)
  OBVIOUS
<1>2. b \in ScopesOf(p)
  <2>1. p \in Seq(Items)
    BY DEF Nested
  <2>2. i \in 1..(Len(p) + 1)
    BY <2>1, ItemFacts
  <2> QED BY <1>1, <2>2, ScopesAroundAnItem
<1>3. v \in LetsOf(p, n, b)
  BY <1>1 DEF LetsOf
<1>4. v \in ToSet(vs[b]) /\ vs[b] \in Seq(Variable)
  BY <1>2, <1>3 DEF AreDeclared, DeclaredVariables
<1>5. v \in Variable
  BY <1>4, ElementType DEF ToSet
<1>6. v.type = "variable"
  BY <1>1 DEF NewVariable
<1> QED BY <1>1, <1>2, <1>4, <1>5, <1>6 DEF ProperVariables

(* A function that has no name twice has nothing of its sub scopes.         *)
LEMMA NothingInSubScopes ==
  ASSUME NEW p, Nested(p), NEW ch, IsTree(p, ch), NEW n \in Nat, NEW vs, AreDeclared(p, n, vs),
         NEW chain, IsChainOf(p, ch, vs, chain), ArePushedTwice(p, n, ch),
         NEW f \in ScopesOf(p), NEW b, Inside(p, f, b), b # f,
         NamesDiffer(Selected(Selected(chain[f], ProperVariables), Variable \ Parameters)),
         NEW v \in ToSet(vs[b])
  PROVE  v \notin ProperVariables
<1>1. SUFFICES ASSUME v \in ProperVariables PROVE FALSE
  OBVIOUS
<1>2. b \in ScopesOf(p) /\ b # TopScope /\ p[b].kind # "function"
  BY ScopeAroundIsInside
<1>3. v \in DeclaredVariables(p, n, b) /\ v.type = "variable" /\ v \in Variable
  BY <1>1, <1>2 DEF AreDeclared, ProperVariables
<1>4. p \in Seq(Items) /\ b \in DOMAIN p
  BY <1>2 DEF ScopesOf, Nested
<1>5. ParametersOf(p, b) = <<>>
  BY <1>2, <1>4, ItemFacts DEF ParametersOf
<1>6. IsDeclaredAt(p, v, b) /\ v.item < n
  <2>1. ~\E k : IsParameterOf(p, v, b, k)
    BY <1>5 DEF IsParameterOf
  <2> QED BY <1>3, <2>1, VariableKinds
<1>7. v.item \in DOMAIN p /\ Body(p, v.item) = b /\ ~v.isParameter
  BY <1>6 DEF IsDeclaredAt
<1>8. b < n
  <2>1. v.item \in 1..(Len(p) + 1)
    BY <1>4, <1>7, ItemFacts
  <2>2. b < v.item /\ b \in Nat
    BY <1>7, <1>2, <2>1, ScopesAroundAnItem, ScopeIsNested
  <2>3. v.item \in Nat
    BY <2>1
  <2> QED BY <1>6, <2>2, <2>3
<1>9. v \in ToSet(chain[b])
  <2>1. ToSet(chain[b]) = ToSet(vs[b]) \cup ToSet(FlattenSeq(InnerChains(p, ch, b, chain)))
    BY <1>2, ChainParts
  <2> QED BY <2>1
<1>10. Twice(chain[f], v)
  BY <1>2, <1>8, <1>9, SubScopesAreGatheredTwice
<1>11. chain[f] \in Seq(Variable)
  BY ChainParts
<1>12. PICK all, locals : all = Selected(chain[f], ProperVariables) /\ locals = Selected(all, Variable \ Parameters)
  OBVIOUS
<1>13. all \in Seq(Variable) /\ Twice(all, v)
  BY <1>1, <1>10, <1>11, <1>12, SelectedAll
<1>14. v \in Variable \ Parameters
  BY <1>3, <1>7 DEF Parameters
<1>15. Twice(locals, v)
  BY <1>12, <1>13, <1>14, SelectedAll
<1> QED BY <1>12, <1>15 DEF Twice, NamesDiffer

(* So it has its own parameters and its own variables.                      *)
LEMMA FunctionHasGathered ==
  ASSUME NEW p, Nested(p), NEW ch, IsTree(p, ch), NEW n \in DOMAIN p, p[n].kind = "end",
         NEW vs, AreDeclared(p, n, vs),
         NEW chain, IsChainOf(p, ch, vs, chain), ArePushedTwice(p, n, ch),
         NEW f, f = Body(p, n), f # TopScope, p[f].kind = "function",
         NEW all, all = Selected(chain[f], ProperVariables),
         NEW parameters, parameters = Selected(all, Parameters),
         NEW locals, locals = Selected(all, Variable \ Parameters),
         NamesDiffer(parameters), NamesDiffer(locals)
  PROVE  IsGathered(p, n + 1, f, [parameters |-> parameters, locals |-> locals])
<1>1. /\ p \in Seq(Items) /\ n \in Nat /\ n \in 1..(Len(p) + 1) /\ DOMAIN p = 1..Len(p) /\ Len(p) \in Nat
      /\ f \in ScopesOf(p) /\ f < n /\ f \in Nat
  <2>1. p \in Seq(Items)
    BY DEF Nested
  <2>2. n \in Nat /\ n \in 1..(Len(p) + 1) /\ DOMAIN p = 1..Len(p) /\ Len(p) \in Nat
    BY <2>1, ItemFacts
  <2> QED BY <2>1, <2>2, ScopesAroundAnItem, ScopeIsNested
<1>2. chain[f] \in Seq(Variable) /\ ToSet(vs[f]) \subseteq ToSet(chain[f]) /\ vs[f] \in Seq(Variable)
  <2>1. PICK inner : inner = FlattenSeq(InnerChains(p, ch, f, chain))
    OBVIOUS
  <2>2. /\ vs[f] \in Seq(Variable) /\ chain[f] \in Seq(Variable)
        /\ ToSet(chain[f]) = ToSet(vs[f]) \cup ToSet(FlattenSeq(InnerChains(p, ch, f, chain)))
    <3>1. Nested(p) /\ IsTree(p, ch) /\ n \in Nat /\ AreDeclared(p, n, vs) /\ IsChainOf(p, ch, vs, chain)
      BY <1>1
    <3>2. f \in ScopesOf(p)
      BY <1>1
    <3> QED BY ONLY <3>1, <3>2, ChainParts
  <2>3. ToSet(chain[f]) = ToSet(vs[f]) \cup ToSet(inner)
    BY ONLY <2>1, <2>2
  <2> QED BY ONLY <2>2, <2>3
<1>3. /\ all \in Seq(Variable) /\ ToSet(all) = ToSet(chain[f]) \cap ProperVariables
      /\ parameters \in Seq(Variable) /\ ToSet(parameters) = ToSet(all) \cap Parameters
      /\ locals \in Seq(Variable) /\ ToSet(locals) = ToSet(all) \cap (Variable \ Parameters)
  <2>1. all \in Seq(Variable) /\ ToSet(all) = ToSet(chain[f]) \cap ProperVariables
    BY <1>2, SelectedAll
  <2> QED BY <2>1, SelectedAll
<1>4. ASSUME NEW b, Inside(p, f, b), b # f, NEW v \in ToSet(vs[b]) PROVE v \notin ProperVariables
  BY <1>1, <1>4, NothingInSubScopes
<1>5. ToSet(all) = ToSet(vs[f]) \cap ProperVariables
  <2>1. \A v \in ToSet(chain[f]) : \E b : Inside(p, f, b) /\ v \in ToSet(vs[b])
    BY <1>1, ChainIsOfScopesInside
  <2> QED BY <1>2, <1>3, <1>4, <2>1
<1>6. ToSet(vs[f]) = DeclaredVariables(p, n, f)
  BY <1>1 DEF AreDeclared
<1>7. \A j \in DOMAIN p : p[j].kind = "let" => (j < n + 1 <=> j < n)
  <2> TAKE j \in DOMAIN p
  <2>1. p[j].kind = "let" => j # n
    OBVIOUS
  <2>2. j \in Nat
    BY <1>1
  <2> QED BY <1>1, <2>1, <2>2
<1>8. f < n + 1
  BY <1>1
<1>9. ParameterVariables(p, n + 1, f) = ParameterVariables(p, n, f)
  BY <1>1, <1>8 DEF ParameterVariables
<1>10. LetsOf(p, n + 1, f) = LetsOf(p, n, f)
  BY <1>7 DEF LetsOf
<1>11. \A v \in DeclaredVariables(p, n, f) : v \in Variable
  BY <1>2, <1>6, ElementType DEF ToSet
<1>12. ASSUME NEW v \in DeclaredVariables(p, n, f), v.type = "variable"
       PROVE  IF v.isParameter THEN v \in ParameterVariables(p, n, f) ELSE v \in LetsOf(p, n, f)
  <2>1. v \notin BuiltinsOf(f) /\ v \notin FunctionsOf(p, f)
    BY <1>12 DEF BuiltinsOf, FunctionsOf, NewVariable
  <2>2. v \in LetsOf(p, n, f) \/ v \in ParameterVariables(p, n, f)
    BY <1>12, <2>1 DEF DeclaredVariables
  <2>3. v \in LetsOf(p, n, f) => ~v.isParameter
    BY DEF LetsOf, NewVariable
  <2>4. v \in ParameterVariables(p, n, f) => v.isParameter
    BY DEF ParameterVariables, NewVariable
  <2> QED BY <2>2, <2>3, <2>4
<1>13. ToSet(parameters) = ParameterVariables(p, n, f)
  <2>1. ASSUME NEW v \in ToSet(parameters) PROVE v \in ParameterVariables(p, n, f)
    <3>1. v \in DeclaredVariables(p, n, f) /\ v.type = "variable" /\ v.isParameter
      BY <1>3, <1>5, <1>6, <2>1 DEF ProperVariables, Parameters
    <3> QED BY <1>12, <3>1
  <2>2. ASSUME NEW v \in ParameterVariables(p, n, f) PROVE v \in ToSet(parameters)
    <3>1. v \in DeclaredVariables(p, n, f)
      BY <2>2 DEF DeclaredVariables
    <3>2. v.type = "variable" /\ v.isParameter = TRUE
      BY <2>2 DEF ParameterVariables, NewVariable
    <3> QED BY <1>3, <1>5, <1>6, <1>11, <3>1, <3>2 DEF ProperVariables, Parameters
  <2> QED BY <2>1, <2>2
<1>14. ToSet(locals) = LetsOf(p, n, f)
  <2>1. ASSUME NEW v \in ToSet(locals) PROVE v \in LetsOf(p, n, f)
    <3>1. v \in DeclaredVariables(p, n, f) /\ v.type = "variable" /\ ~v.isParameter
      BY <1>3, <1>5, <1>6, <1>11, <2>1 DEF ProperVariables, Parameters
    <3> QED BY <1>12, <3>1
  <2>2. ASSUME NEW v \in LetsOf(p, n, f) PROVE v \in ToSet(locals)
    <3>1. v \in DeclaredVariables(p, n, f)
      BY <2>2 DEF DeclaredVariables
    <3>2. v.type = "variable" /\ v.isParameter = FALSE
      BY <2>2 DEF LetsOf, NewVariable
    <3> QED BY <1>3, <1>5, <1>6, <1>11, <3>1, <3>2 DEF ProperVariables, Parameters
  <2> QED BY <2>1, <2>2
<1>15. ASSUME NEW i \in DOMAIN p, i < n + 1, p[i].kind = "let", FunctionAround(p, i) = f
       PROVE  Body(p, i) = f
  <2>1. SUFFICES ASSUME Body(p, i) # f PROVE FALSE
    OBVIOUS
  <2>2. PICK b : b = Body(p, i)
    OBVIOUS
  <2>3. i < n /\ i \in 1..(Len(p) + 1)
    BY <1>1, <1>7, <1>15
  <2>4. /\ NewVariable(i, p[i].name, "variable", FunctionAround(p, i), FALSE) \in ToSet(vs[b])
        /\ NewVariable(i, p[i].name, "variable", FunctionAround(p, i), FALSE) \in ProperVariables
        /\ b \in ScopesOf(p)
    BY <1>15, <2>2, <2>3, LetVariable
  <2>5. Around(p, b + 1) = Around(p, i)
    BY <2>2, <2>3, ScopesAroundAnItem
  <2>6. f \in Around(p, i) /\ \A g \in FunctionsAround(p, i) : g <= f
    BY <1>15, <2>3, FunctionsAroundAnItem
  <2>7. Inside(p, f, b)
    BY <2>4, <2>5, <2>6 DEF Inside, FunctionsAround
  <2> QED BY <1>4, <2>1, <2>2, <2>4, <2>7
<1>16. PICK g : g = [parameters |-> parameters, locals |-> locals]
  OBVIOUS
<1>17. g.parameters = parameters /\ g.locals = locals
  BY <1>16
<1>18. IsGathered(p, n + 1, f, g)
  BY <1>3, <1>9, <1>10, <1>13, <1>14, <1>15, <1>17 DEF IsGathered
<1> QED BY <1>16, <1>18

(* Functions that have ended stay as they are.                              *)
LEMMA GatheredStays ==
  ASSUME NEW p, Nested(p), NEW n \in DOMAIN p, NEW f \in EndedFunctions(p, n), NEW g, IsGathered(p, n, f, g)
  PROVE  IsGathered(p, n + 1, f, g) /\ f \in EndedFunctions(p, n + 1)
<1>1. /\ p \in Seq(Items) /\ n \in Nat /\ n \in 1..(Len(p) + 1) /\ DOMAIN p = 1..Len(p) /\ Len(p) \in Nat
  <2>1. p \in Seq(Items)
    BY DEF Nested
  <2> QED BY <2>1, ItemFacts
<1>2. f \in DOMAIN p /\ p[f].kind = "function" /\ f < n /\ f \notin Around(p, n) /\ f \in Nat
  BY <1>1 DEF EndedFunctions
<1>3. Body(p, n) # f /\ FunctionAround(p, n) # f
  <2>1. Body(p, n) \in Around(p, n)
    BY <1>1, ScopesAroundAnItem
  <2>2. FunctionAround(p, n) \in Around(p, n)
    BY <1>1, FunctionsAroundAnItem
  <2> QED BY <1>2, <2>1, <2>2
<1>4. \A j \in DOMAIN p : j < n + 1 <=> j < n \/ j = n
  BY <1>1
<1>5. f \in EndedFunctions(p, n + 1)
  <2>1. Around(p, n + 1) = NextAround(p, n)
    BY Nesting
  <2>2. f \notin Around(p, n + 1)
    BY <1>1, <1>2, <2>1 DEF NextAround
  <2> QED BY <1>1, <1>2, <2>2 DEF EndedFunctions
<1>6. ParameterVariables(p, n + 1, f) = ParameterVariables(p, n, f)
  <2>1. f < n + 1
    BY <1>1, <1>2
  <2> QED BY <1>2, <2>1 DEF ParameterVariables
<1>7. LetsOf(p, n + 1, f) = LetsOf(p, n, f)
  <2>1. \A j \in DOMAIN p : Body(p, j) = f => (j < n + 1 <=> j < n)
    BY <1>3, <1>4
  <2> QED BY <2>1 DEF LetsOf
<1>8. \A i \in DOMAIN p : i < n + 1 /\ p[i].kind = "let" /\ FunctionAround(p, i) = f => Body(p, i) = f
  BY <1>3, <1>4 DEF IsGathered
<1> QED BY <1>5, <1>6, <1>7, <1>8 DEF IsGathered

(* Which functions have ended after an item.                                *)
LEMMA EndedFunctionsStep ==
  ASSUME NEW p, Nested(p), NEW n \in DOMAIN p
  PROVE  EndedFunctions(p, n + 1) =
           EndedFunctions(p, n) \cup {f \in {Body(p, n)} : p[n].kind \in Ends /\ IsFunction(p, f)}
<1>1. /\ p \in Seq(Items) /\ n \in Nat \ {0} /\ n \in 1..(Len(p) + 1) /\ DOMAIN p = 1..Len(p) /\ Len(p) \in Nat
  <2>1. p \in Seq(Items)
    BY DEF Nested
  <2> QED BY <2>1, ItemFacts
<1>2. PICK b : b = Body(p, n)
  OBVIOUS
<1>3. b \in Around(p, n) /\ b \in ScopesOf(p) /\ b < n /\ Around(p, n) \in SUBSET (0..(n - 1))
  BY <1>1, <1>2, ScopesAroundAnItem, OpenBodies
<1>4. Around(p, n + 1) = (Around(p, n) \ {x \in {b} : p[n].kind \in Ends}) \cup {x \in {n} : p[n].kind \in Begins}
  BY <1>2, Nesting DEF NextAround
<1>5. p[n].kind \in Ends => b # TopScope
  BY <1>2 DEF Nested
<1>6. ASSUME NEW f \in EndedFunctions(p, n + 1)
      PROVE  f \in EndedFunctions(p, n) \/ (f = b /\ p[n].kind \in Ends /\ IsFunction(p, f))
  <2>1. f \in DOMAIN p /\ p[f].kind = "function" /\ f < n + 1 /\ f \notin Around(p, n + 1)
    BY <1>6 DEF EndedFunctions
  <2>2. f # n
    BY <1>4, <2>1 DEF Begins
  <2>3. f < n
    BY <1>1, <2>1, <2>2
  <2> QED BY <1>4, <2>1, <2>3 DEF EndedFunctions, IsFunction
<1>7. EndedFunctions(p, n) \subseteq EndedFunctions(p, n + 1)
  <2>1. ASSUME NEW f \in EndedFunctions(p, n) PROVE f \in EndedFunctions(p, n + 1)
    <3>1. f \in DOMAIN p /\ p[f].kind = "function" /\ f < n /\ f \notin Around(p, n)
      BY <2>1 DEF EndedFunctions
    <3>2. f < n + 1 /\ f # n
      BY <1>1, <3>1
    <3> QED BY <1>4, <3>1, <3>2 DEF EndedFunctions
  <2> QED BY <2>1
<1>8. ASSUME p[n].kind \in Ends, IsFunction(p, b) PROVE b \in EndedFunctions(p, n + 1)
  <2>1. b # TopScope /\ p[b].kind = "function" /\ b \in DOMAIN p
    BY <1>3, <1>5, <1>8 DEF IsFunction, ScopesOf
  <2>2. b < n + 1 /\ b # n
    BY <1>1, <1>3, <2>1
  <2> QED BY <1>4, <1>8, <2>1, <2>2 DEF EndedFunctions
<1> QED BY <1>2, <1>6, <1>7, <1>8

(* The second pass adds each scope once more.                               *)
LEMMA PushedTwiceStays ==
  ASSUME NEW p, Nested(p), NEW n \in DOMAIN p, NEW ch, IsTree(p, ch), ArePushedTwice(p, n, ch), NEW ch2,
         \/ p[n].kind \notin Begins /\ ch2 = ch
         \/ /\ p[n].kind \in Begins
            /\ \/ ch2 = [Including(ch, n, <<>>) EXCEPT ![ScopeAround(p, n)] = Append(@, n)]
               \/ ch2 = [ch EXCEPT ![ScopeAround(p, n)] = Append(@, n)]
  PROVE  ArePushedTwice(p, n + 1, ch2)
<1>1. p \in Seq(Items) /\ n \in Nat \ {0}
  <2>1. p \in Seq(Items)
    BY DEF Nested
  <2> QED BY <2>1, ItemFacts
<1>2. DOMAIN ch = ScopesOf(p)
  BY DEF IsTree
<1>3. \A c \in ScopesOf(p) : c < n + 1 <=> c < n \/ c = n
  <2>1. \A c \in ScopesOf(p) : c \in Nat
    BY ScopeIsNested
  <2> QED BY <1>1, <2>1
<1>4. CASE p[n].kind \notin Begins
  <2>1. ch2 = ch
    BY <1>4
  <2>2. n \notin ScopesOf(p)
    BY <1>1, <1>4 DEF ScopesOf, TopScope
  <2>3. \A c \in ScopesOf(p) : c < n + 1 => c < n
    BY <1>3, <2>2
  <2> QED BY <2>1, <2>3 DEF ArePushedTwice
<1>5. CASE p[n].kind \in Begins
  <2>1. n \in ScopesOf(p) /\ n # TopScope
    BY <1>1, <1>5 DEF ScopesOf, TopScope
  <2>2. PICK h : h = ScopeAround(p, n)
    OBVIOUS
  <2>3. h \in ScopesOf(p) /\ h < n
    BY <2>1, <2>2, ScopeIsNested
  <2>4. h # n
    BY <1>1, <2>3
  <2>5. ch2[h] = Append(ch[h], n) /\ \A s \in ScopesOf(p) \ {h} : ch2[s] = ch[s]
    <3>1. CASE ch2 = [ch EXCEPT ![h] = Append(@, n)]
      BY <1>2, <2>3, <3>1
    <3>2. CASE ch2 = [Including(ch, n, <<>>) EXCEPT ![h] = Append(@, n)]
      <4>1. PICK map : map = Including(ch, n, <<>>)
        OBVIOUS
      <4>2. DOMAIN map = ScopesOf(p) /\ \A s \in ScopesOf(p) : map[s] = ch[s]
        BY <1>2, <2>1, <4>1 DEF Including
      <4> QED BY <2>3, <3>2, <4>1, <4>2
    <3> QED BY <1>5, <2>2, <3>1, <3>2
  <2>6. PICK q, r : q = ch[h] /\ r = ch2[h]
    OBVIOUS
  <2>7. q \in Seq(ScopesOf(p) \ {TopScope})
    BY <2>3, <2>6 DEF IsTree
  <2>8. /\ DOMAIN r = DOMAIN q \cup {Len(q) + 1} /\ Len(q) + 1 \notin DOMAIN q
        /\ r[Len(q) + 1] = n /\ \A i \in DOMAIN q : r[i] = q[i]
    BY <2>1, <2>5, <2>6, <2>7, ElementAppended
  <2>9. ASSUME NEW c \in ScopesOf(p) \ {TopScope}, c < n
        PROVE  \E j, k \in DOMAIN ch2[ScopeAround(p, c)] :
                 j # k /\ ch2[ScopeAround(p, c)][j] = c /\ ch2[ScopeAround(p, c)][k] = c
    <3>1. PICK s : s = ScopeAround(p, c)
      OBVIOUS
    <3>2. s \in ScopesOf(p)
      BY <3>1, ScopeIsNested
    <3>3. PICK j \in DOMAIN ch[s], k \in DOMAIN ch[s] : j # k /\ ch[s][j] = c /\ ch[s][k] = c
      BY <2>9, <3>1 DEF ArePushedTwice
    <3>4. CASE s = h
      BY <2>6, <2>8, <3>1, <3>3, <3>4
    <3>5. CASE s # h
      BY <2>5, <3>1, <3>2, <3>3, <3>5
    <3> QED BY <3>4, <3>5
  <2>10. \E j, k \in DOMAIN r : j # k /\ r[j] = n /\ r[k] = n
    <3>1. PICK s \in ScopesOf(p) : n \in ToSet(ch[s])
      BY <2>1 DEF IsTree
    <3>2. s = h
      BY <2>2, <3>1 DEF IsTree
    <3>3. PICK j \in DOMAIN q : q[j] = n
      BY <2>6, <3>1, <3>2 DEF ToSet
    <3> QED BY <2>8, <3>3
  <2>11. ASSUME NEW c \in ScopesOf(p) \ {TopScope}, c < n + 1
         PROVE  \E j, k \in DOMAIN ch2[ScopeAround(p, c)] :
                  j # k /\ ch2[ScopeAround(p, c)][j] = c /\ ch2[ScopeAround(p, c)][k] = c
    <3>1. c < n \/ c = n
      BY <1>3, <2>11
    <3> QED BY <2>2, <2>6, <2>9, <2>10, <3>1
  <2> QED BY <2>11 DEF ArePushedTwice
<1> QED BY <1>4, <1>5
-----------------------------------------------------------------------------
(* The steps of the passes keep it.                                         *)

(* At the start there is no item.                                          *)
LEMMA InitSlots == Init => SlotParts
<1>1. SUFFICES ASSUME Init PROVE SlotParts
  OBVIOUS
<1>2. program = <<>> /\ next = 1 /\ gathered = <<>> /\ status = "first"
  BY <1>1 DEF Init
<1>3. DOMAIN program = {} /\ DOMAIN gathered = {}
  BY <1>2
<1>4. ScopesOf(program) \ {TopScope} = {} /\ EndedFunctions(program, next) = {}
  BY <1>3 DEF ScopesOf, EndedFunctions
<1> QED BY <1>2, <1>3, <1>4 DEF SlotParts, ElsesEndIfs, ArePushedTwice, AreGathered

(* Nothing is gathered in the first pass.                                   *)
LEMMA NothingIsGathered ==
  ASSUME NEW p \in Seq(Items), NEW ch
  PROVE  ArePushedTwice(p, 1, ch) /\ EndedFunctions(p, 1) = {}
<1>1. \A c \in DOMAIN p : ~(c < 1)
  OBVIOUS
<1>2. \A c \in ScopesOf(p) \ {TopScope} : ~(c < 1)
  BY <1>1 DEF ScopesOf
<1> QED BY <1>1, <1>2 DEF ArePushedTwice, EndedFunctions

(* An item of the first pass.                                               *)
LEMMA WrittenSlots ==
  ASSUME ProgramPart, SlotParts, status = "first", NEW x \in Items, Write(x),
         x.kind = "else" => ~IsFunction(program, Body(program, Len(program) + 1)),
         status' \in {"first", "error"}, UNCHANGED <<next, gathered>>
  PROVE  SlotParts'
<1>1. PICK p, q, n : p = program /\ q = program' /\ n = Len(p) + 1
  OBVIOUS
<1>2. p \in Seq(Items) /\ q = Append(p, x) /\ next = 1 /\ next' = 1 /\ Len(p) \in Nat
  BY <1>1 DEF ProgramPart, Nested, Write
<1>3. /\ q \in Seq(Items) /\ DOMAIN q = DOMAIN p \cup {n} /\ n \notin DOMAIN p
      /\ q[n] = x /\ \A i \in DOMAIN p : q[i] = p[i]
  BY <1>1, <1>2, ElementAppended
<1>4. ArePushedTwice(q, 1, children') /\ EndedFunctions(q, 1) = {} /\ EndedFunctions(p, 1) = {}
  BY <1>2, <1>3, NothingIsGathered
<1>5. AreGathered(q, 1, gathered')
  BY <1>1, <1>2, <1>4 DEF SlotParts, AreGathered
<1>6. ASSUME NEW i \in DOMAIN q, q[i].kind = "else" PROVE ~IsFunction(q, Body(q, i))
  <2>1. PICK b : b = Body(p, i)
    OBVIOUS
  <2>2. i \in 1..(Len(p) + 1) /\ i \in Nat \ {0}
    BY <1>1, <1>2, <1>3
  <2>3. Body(q, i) = b
    BY <1>2, <2>1, <2>2, LongerProgram
  <2>4. ~IsFunction(p, b)
    <3>1. CASE i \in DOMAIN p
      BY <1>1, <1>3, <1>6, <2>1, <3>1 DEF SlotParts, ElsesEndIfs
    <3>2. CASE i = n
      BY <1>1, <1>3, <1>6, <2>1, <3>2
    <3> QED BY <1>3, <3>1, <3>2
  <2>5. b \in DOMAIN p
    <3>1. b \in Around(p, i) /\ b # TopScope /\ b \in 0..(i - 1)
      BY <2>1, <2>2, <2>4, BodyFacts DEF IsFunction
    <3> QED BY <1>1, <1>2, <2>2, <3>1 DEF TopScope
  <2> QED BY <1>3, <2>3, <2>4, <2>5 DEF IsFunction
<1>7. ElsesEndIfs(q)
  BY <1>6 DEF ElsesEndIfs
<1> QED BY <1>1, <1>2, <1>4, <1>5, <1>7 DEF SlotParts

(* Every item of the second pass that ends no function.                     *)
LEMMA VisitedSlots ==
  ASSUME ProgramPart, Parts, SlotParts, NEW kinds, Visit(kinds), status' = "second",
         ArePushedTwice(program, next + 1, children'), gathered' = gathered,
         ~(program[next].kind \in Ends /\ IsFunction(program, Body(program, next)))
  PROVE  SlotParts'
<1>1. PICK p, n, g : p = program /\ n = next /\ g = gathered
  OBVIOUS
<1>2. n \in DOMAIN p /\ Nested(p) /\ next' = n + 1 /\ program' = p /\ status = "second"
  BY <1>1, VisitedItem DEF Parts
<1>3. AreGathered(p, n, g)
  BY <1>1 DEF SlotParts
<1>4. EndedFunctions(p, n + 1) = EndedFunctions(p, n)
  BY <1>1, <1>2, EndedFunctionsStep
<1>5. AreGathered(p, n + 1, g)
  <2>1. ASSUME NEW f \in DOMAIN g PROVE IsGathered(p, n + 1, f, g[f])
    BY <1>2, <1>3, <2>1, GatheredStays DEF AreGathered
  <2> QED BY <1>3, <1>4, <2>1 DEF AreGathered
<1> QED BY <1>1, <1>2, <1>5 DEF SlotParts

(* A statement.                                                             *)
LEMMA VisitedStatementSlots ==
  ASSUME ProgramPart, Parts, SlotParts, NEW kinds, Visit(kinds), kinds \subseteq {"use", "let"},
         UNCHANGED <<status, children, gathered>>
  PROVE  SlotParts'
<1>1. PICK p, n : p = program /\ n = next
  OBVIOUS
<1>2. n \in DOMAIN p /\ Nested(p) /\ status = "second" /\ p[n].kind \in {"use", "let"}
  BY <1>1, VisitedItem DEF Parts
<1>3. p[n].kind \notin Begins /\ p[n].kind \notin Ends
  BY <1>2 DEF Begins, Ends
<1>4. ArePushedTwice(p, n + 1, children')
  BY <1>1, <1>2, <1>3, PushedTwiceStays DEF SlotParts, Parts
<1> QED BY <1>1, <1>2, <1>3, <1>4, VisitedSlots

(* The beginning of a body.                                                 *)
LEMMA VisitedBodySlots ==
  ASSUME ProgramPart, Parts, SlotParts, NEW kinds, Visit(kinds), program[next].kind \in Begins,
         scopes' = <<next>> \o (IF program[next].kind \in Ends THEN Tail(scopes) ELSE scopes),
         NEW h, h = IF program[next].kind \in Ends THEN scopes[2] ELSE Head(scopes),
         \/ children' = [Including(children, next, <<>>) EXCEPT ![h] = Append(@, next)]
         \/ children' = [children EXCEPT ![h] = Append(@, next)],
         UNCHANGED <<status, gathered>>
  PROVE  SlotParts'
<1>1. PICK p, n, ch, ch2 : p = program /\ n = next /\ ch = children /\ ch2 = children'
  OBVIOUS
<1>2. n \in DOMAIN p /\ Nested(p) /\ status = "second" /\ p[n].kind \in Begins
  BY <1>1, VisitedItem DEF Parts
<1>3. ScopeAround(p, n) = h
  BY <1>1, <1>2, ScopeIsEntered DEF Parts
<1>4. ArePushedTwice(p, n, ch) /\ IsTree(p, ch)
  BY <1>1 DEF SlotParts, Parts
<1>5. \/ ch2 = [Including(ch, n, <<>>) EXCEPT ![h] = Append(@, n)]
      \/ ch2 = [ch EXCEPT ![h] = Append(@, n)]
  BY <1>1
<1>6. ArePushedTwice(p, n + 1, ch2)
  BY <1>2, <1>3, <1>4, <1>5, PushedTwiceStays
<1>7. ~(p[n].kind \in Ends /\ IsFunction(p, Body(p, n)))
  <2>1. p[n].kind \in Ends => p[n].kind = "else"
    BY <1>2 DEF Begins, Ends
  <2> QED BY <1>1, <1>2, <2>1 DEF SlotParts, ElsesEndIfs
<1> QED BY <1>1, <1>2, <1>6, <1>7, VisitedSlots

(* The end of a body.                                                       *)
LEMMA VisitedEndSlots ==
  ASSUME ProgramPart, Parts, SlotParts, VisitEnd, status' = "second"
  PROVE  SlotParts'
<1>1. PICK p, n, s, ch, vs, g : /\ p = program /\ n = next /\ s = Head(scopes) /\ ch = children
                                /\ vs = variables /\ g = gathered
  OBVIOUS
<1>2. Visit({"end"}) /\ UNCHANGED <<children, variables>>
  BY DEF VisitEnd, tree
<1>3. /\ n \in DOMAIN p /\ n \in Nat \ {0} /\ p[n].kind = "end" /\ Nested(p) /\ Active
      /\ next' = n + 1 /\ status = "second" /\ Position = n /\ program' = p
  BY <1>1, <1>2, VisitedItem DEF Parts
<1>4. s = Body(p, n) /\ s \in ScopesOf(p)
  BY <1>1, <1>3, WhereThePassIs DEF Parts
<1>5. s # TopScope /\ p[n].kind \in Ends /\ p[n].kind \notin Begins
  BY <1>3, <1>4 DEF Nested, Ends, Begins
<1>6. ArePushedTwice(p, n, ch) /\ IsTree(p, ch) /\ AreDeclared(p, n, vs) /\ AreGathered(p, n, g)
  BY <1>1 DEF SlotParts, Parts
<1>7. ArePushedTwice(p, n + 1, children')
  BY <1>1, <1>2, <1>3, <1>5, <1>6, PushedTwiceStays
<1>8. (ScopeType(s) = "function") <=> (p[s].kind = "function")
  BY <1>1, <1>5 DEF ScopeType
<1>9. CASE p[s].kind # "function"
  <2>1. gathered' = gathered
    BY <1>1, <1>8, <1>9 DEF VisitEnd
  <2>2. ~IsFunction(p, s)
    BY <1>5, <1>9 DEF IsFunction
  <2> QED BY <1>1, <1>2, <1>4, <1>7, <2>1, <2>2, VisitedSlots
<1>10. CASE p[s].kind = "function"
  <2>1. PICK all, parameters, locals : /\ all = VariablesFromScopeChain(s)
                                       /\ parameters = Selected(all, Parameters)
                                       /\ locals = Selected(all, Variable \ Parameters)
    OBVIOUS
  <2>2. PICK e : e = [parameters |-> parameters, locals |-> locals]
    OBVIOUS
  <2>3. gathered' = Including(g, s, e)
    BY <1>1, <1>8, <1>10, <2>1, <2>2 DEF VisitEnd
  <2>4. NamesDiffer(parameters) /\ NamesDiffer(locals)
    BY <1>1, <1>8, <1>10, <2>1 DEF VisitEnd
  <2>5. PICK chain : IsChainOf(p, ch, vs, chain) /\ all = Selected(chain[s], ProperVariables)
    BY <1>1, <1>4, <2>1, VariablesOfTheChain
  <2>6. IsGathered(p, n + 1, s, e)
    <3>1. IsGathered(p, n + 1, s, [parameters |-> parameters, locals |-> locals])
      BY <1>3, <1>4, <1>5, <1>6, <1>10, <2>1, <2>4, <2>5, FunctionHasGathered
    <3> QED BY <2>2, <3>1
  <2>7. EndedFunctions(p, n + 1) = EndedFunctions(p, n) \cup {s}
    <3>1. IsFunction(p, s)
      BY <1>10 DEF IsFunction
    <3> QED BY <1>3, <1>4, <1>5, <3>1, EndedFunctionsStep
  <2>8. s \notin EndedFunctions(p, n)
    <3>1. n \in 1..(Len(p) + 1)
      BY <1>3, ItemFacts DEF Nested
    <3>2. s \in Around(p, n)
      BY <1>3, <1>4, <3>1, ScopesAroundAnItem
    <3> QED BY <3>2 DEF EndedFunctions
  <2>9. PICK g2 : g2 = Including(g, s, e)
    OBVIOUS
  <2>10. DOMAIN g = EndedFunctions(p, n) /\ \A f \in DOMAIN g : IsGathered(p, n, f, g[f])
    BY <1>6 DEF AreGathered
  <2>11. DOMAIN g2 = EndedFunctions(p, n + 1) /\ g2[s] = e /\ \A f \in DOMAIN g : g2[f] = g[f]
    BY <2>7, <2>8, <2>9, <2>10 DEF Including
  <2>12. ASSUME NEW f \in DOMAIN g2 PROVE IsGathered(p, n + 1, f, g2[f])
    <3>1. CASE f = s
      BY <2>6, <2>11, <3>1
    <3>2. CASE f # s
      <4>1. f \in EndedFunctions(p, n) /\ IsGathered(p, n, f, g[f]) /\ g2[f] = g[f]
        BY <2>7, <2>10, <2>11, <2>12, <3>2
      <4> QED BY <1>3, <4>1, GatheredStays
    <3> QED BY <3>1, <3>2
  <2>13. AreGathered(p, n + 1, g2)
    BY <2>11, <2>12 DEF AreGathered
  <2> QED BY <1>1, <1>3, <1>7, <2>3, <2>9, <2>13 DEF SlotParts
<1> QED BY <1>9, <1>10

(* The items of the first pass, and its end.                                *)
LEMMA FirstPassSlots ==
  ASSUME ProgramPart, Parts, SlotParts, status = "first", FirstPass, Active'
  PROVE  SlotParts'
<1>1. Active /\ Position = Len(program) + 1
  BY DEF Active, Position
<1>2. Head(scopes) = Body(program, Len(program) + 1)
  BY <1>1, WhereThePassIs DEF Parts
<1>3. ASSUME NEW x \in Items, Write(x), x.kind # "else", status' \in {"first", "error"},
             UNCHANGED <<next, gathered>>
      PROVE  SlotParts'
  BY <1>3, WrittenSlots
<1>4. ASSUME NEW name \in Names, FirstVisitUse(name) PROVE SlotParts'
  <2>1. PICK x : x = Item("use", name, <<>>)
    OBVIOUS
  <2>2. x \in Items /\ x.kind # "else"
    BY <2>1 DEF Item, Items
  <2>3. Write(x) /\ UNCHANGED <<status, next, gathered>>
    BY <1>4, <2>1 DEF FirstVisitUse, results
  <2> QED BY <1>3, <2>2, <2>3
<1>5. ASSUME NEW name \in Names, FirstVisitLet(name) PROVE SlotParts'
  <2>1. PICK x : x = Item("let", name, <<>>)
    OBVIOUS
  <2>2. x \in Items /\ x.kind # "else"
    BY <2>1 DEF Item, Items
  <2>3. Write(x) /\ UNCHANGED <<status, next, gathered>>
    BY <1>5, <2>1 DEF FirstVisitLet, results
  <2> QED BY <1>3, <2>2, <2>3
<1>6. ASSUME NEW name \in Names, NEW parameters \in ParameterLists, FirstVisitFunction(name, parameters)
      PROVE  SlotParts'
  <2>1. PICK x : x = Item("function", name, parameters)
    OBVIOUS
  <2>2. x \in Items /\ x.kind # "else"
    BY <2>1 DEF Item, Items
  <2>3. Write(x) /\ UNCHANGED <<next, gathered>> /\ status' \in {"first", "error"}
    BY <1>6, <2>1 DEF FirstVisitFunction, results, Stop
  <2> QED BY <1>3, <2>2, <2>3
<1>7. ASSUME NEW kind \in Constructs, FirstVisitBody(kind) PROVE SlotParts'
  <2>1. PICK x : x = Item(kind, NONE, <<>>)
    OBVIOUS
  <2>2. x \in Items /\ x.kind # "else"
    BY <2>1, ScopeAssumption DEF Item, Items
  <2>3. Write(x) /\ UNCHANGED <<status, next, gathered>>
    BY <1>7, <2>1 DEF FirstVisitBody, results
  <2> QED BY <1>3, <2>2, <2>3
<1>8. ASSUME FirstVisitElse PROVE SlotParts'
  <2>1. PICK x : x = Item("else", NONE, <<>>)
    OBVIOUS
  <2>2. x \in Items
    BY <2>1 DEF Item, Items
  <2>3. Write(x) /\ UNCHANGED <<status, next, gathered>> /\ OpenItem = "if"
    BY <1>8, <2>1 DEF FirstVisitElse, results
  <2>4. Head(scopes) # TopScope /\ program[Head(scopes)].kind = "if"
    BY <2>3, NoneAssumption DEF OpenItem, Begins
  <2>5. ~IsFunction(program, Body(program, Len(program) + 1))
    BY <1>2, <2>4 DEF IsFunction
  <2> QED BY <2>2, <2>3, <2>5, WrittenSlots
<1>9. ASSUME FirstVisitEnd PROVE SlotParts'
  <2>1. PICK x : x = Item("end", NONE, <<>>)
    OBVIOUS
  <2>2. x \in Items /\ x.kind # "else"
    BY <2>1 DEF Item, Items
  <2>3. Write(x) /\ UNCHANGED <<status, next, gathered>>
    BY <1>9, <2>1 DEF FirstVisitEnd, results
  <2> QED BY <1>3, <2>2, <2>3
<1>10. ASSUME EndFirstPass PROVE SlotParts'
  <2>1. scopes = <<TopScope>> /\ next' = 1 /\ UNCHANGED <<program, children, gathered>>
    BY <1>10 DEF EndFirstPass, tree, results
  <2>2. next = 1
    BY DEF ProgramPart
  <2>3. Around(program, Len(program) + 1) = {TopScope}
    <3>1. Descending(scopes, Around(program, Len(program) + 1))
      BY <1>1 DEF Parts, StackPart
    <3>2. ToSet(<<TopScope>>) = {TopScope}
      BY DEF ToSet
    <3> QED BY <2>1, <3>1, <3>2 DEF Descending
  <2> QED BY <2>1, <2>2, <2>3 DEF SlotParts
<1> QED BY <1>4, <1>5, <1>6, <1>7, <1>8, <1>9, <1>10 DEF FirstPass

(* The items of the second pass.                                            *)
LEMMA SecondPassSlots ==
  ASSUME ProgramPart, Parts, SlotParts, status = "second", SecondPass, Active'
  PROVE  SlotParts'
<1>1. ASSUME VisitVariableExpression PROVE SlotParts'
  <2>1. Visit({"use"}) /\ UNCHANGED <<status, children, gathered>>
    BY <1>1 DEF VisitVariableExpression, tree
  <2>2. {"use"} \subseteq {"use", "let"}
    OBVIOUS
  <2> QED BY <2>1, <2>2, VisitedStatementSlots
<1>2. ASSUME VisitLetStatement PROVE SlotParts'
  <2>1. Visit({"let"}) /\ UNCHANGED <<status, children, gathered>>
    BY <1>2 DEF VisitLetStatement
  <2>2. {"let"} \subseteq {"use", "let"}
    OBVIOUS
  <2> QED BY <2>1, <2>2, VisitedStatementSlots
<1>3. ASSUME NEW kinds, kinds \subseteq {"function", "if", "while"}, Visit(kinds), Push(next),
             UNCHANGED <<status, gathered>>
      PROVE  SlotParts'
  <2>1. program[next].kind \in kinds
    BY <1>3 DEF Visit
  <2>2. program[next].kind \in Begins /\ program[next].kind \notin Ends
    BY <1>3, <2>1 DEF Begins, Ends
  <2>3. PICK h : h = IF program[next].kind \in Ends THEN scopes[2] ELSE Head(scopes)
    OBVIOUS
  <2>4. /\ scopes' = <<next>> \o (IF program[next].kind \in Ends THEN Tail(scopes) ELSE scopes)
        /\ children' = [Including(children, next, <<>>) EXCEPT ![h] = Append(@, next)]
    BY <1>3, <2>2, <2>3 DEF Push
  <2> QED BY <1>3, <2>2, <2>3, <2>4, VisitedBodySlots
<1>4. ASSUME VisitFunctionStatement PROVE SlotParts'
  <2>1. Visit({"function"}) /\ Push(next) /\ UNCHANGED <<status, gathered>>
    BY <1>4 DEF VisitFunctionStatement
  <2>2. {"function"} \subseteq {"function", "if", "while"}
    OBVIOUS
  <2> QED BY <1>3, <2>1, <2>2
<1>5. ASSUME VisitBeginBody PROVE SlotParts'
  <2>1. Visit({"if", "while"}) /\ Push(next) /\ UNCHANGED <<status, gathered>>
    BY <1>5 DEF VisitBeginBody
  <2>2. {"if", "while"} \subseteq {"function", "if", "while"}
    OBVIOUS
  <2> QED BY <1>3, <2>1, <2>2
<1>6. ASSUME VisitElse PROVE SlotParts'
  <2>1. /\ Visit({"else"}) /\ UNCHANGED <<status, gathered>>
        /\ children' = [children EXCEPT ![scopes[2]] = Append(@, next)]
        /\ scopes' = <<next>> \o Tail(scopes)
    BY <1>6 DEF VisitElse
  <2>2. program[next].kind \in Begins /\ program[next].kind \in Ends
    BY <2>1 DEF Visit, Begins, Ends
  <2>3. PICK h : h = IF program[next].kind \in Ends THEN scopes[2] ELSE Head(scopes)
    OBVIOUS
  <2>4. /\ scopes' = <<next>> \o (IF program[next].kind \in Ends THEN Tail(scopes) ELSE scopes)
        /\ children' = [children EXCEPT ![h] = Append(@, next)]
    BY <2>1, <2>2, <2>3
  <2> QED BY <2>1, <2>2, <2>3, <2>4, VisitedBodySlots
<1>7. ASSUME VisitEnd PROVE SlotParts'
  <2>1. status' = "second"
    <3>1. status' \in {status, "assertion"}
      BY <1>7 DEF VisitEnd
    <3> QED BY <3>1 DEF Active
  <2> QED BY <1>7, <2>1, VisitedEndSlots
<1>8. ~RejectUndeclared /\ ~RejectLet /\ ~RejectParameters /\ ~ComputeVariableOffsets
  BY DEF RejectUndeclared, RejectLet, RejectParameters, ComputeVariableOffsets, Reject, Stop, Active
<1> QED BY <1>1, <1>2, <1>4, <1>5, <1>6, <1>7, <1>8 DEF SecondPass
-----------------------------------------------------------------------------
(* The words of the Variables.                                              *)

(* The Variables that are given words in each scope, and where they begin:  *)
(* a function begins anew, a sub scope after the scope around it.           *)
AllocationOf(p, vs, g) ==
  [s \in ScopesOf(p) |->
    IF s # TopScope /\ p[s].kind = "function" THEN g[s].parameters \o g[s].locals
    ELSE Selected(vs[s], ProperVariables)]
FirstAfter(p, al, s, first) ==
  IF IsFunction(p, s) THEN 0 ELSE first[ScopeAround(p, s)] + Len(al[ScopeAround(p, s)])
BeginsWords(p, al, first) ==
  /\ first \in [ScopesOf(p) -> Nat]
  /\ \A s \in ScopesOf(p) : first[s] = FirstAfter(p, al, s, first)
FirstWords(p, al) == CHOOSE first : BeginsWords(p, al, first)

(* The scopes of a function, and how many words they have.                  *)
ScopesIn(p, f) == {s \in ScopesOf(p) : FunctionAround(p, s + 1) = f}
WordsOf(p, al, first, f) == Max({first[s] + Len(al[s]) : s \in ScopesIn(p, f)})

(* Every scope has its own Variables, each of them once.                    *)
HasVariablesOf(q, p, n, s) ==
  /\ q \in Seq(Variable)
  /\ \A j, k \in DOMAIN q : q[j] = q[k] => j = k
  /\ ToSet(q) = LetsOf(p, n, s) \cup ParameterVariables(p, n, s)
IsAllocation(p, n, al) == \A s \in ScopesOf(p) : HasVariablesOf(al[s], p, n, s)

(* The words begin somewhere.                                               *)
LEMMA WordsBegin ==
  ASSUME NEW p, Nested(p), NEW al, \A s \in ScopesOf(p) : al[s] \in Seq(Variable)
  PROVE  BeginsWords(p, al, FirstWords(p, al))
<1> DEFINE D == ScopesOf(p)
           V == Nat
           Base == {s \in D : IsFunction(p, s)}
           base == [s \in Base |-> 0]
           outer == [s \in D \ Base |-> ScopeAround(p, s)]
           step == [s \in D \ Base |-> [v \in V |-> v + Len(al[ScopeAround(p, s)])]]
           rank == [s \in D |-> s]
<1>1. \A s \in D : s \in Nat
  BY ScopeIsNested
<1>2. \A s \in D \ Base : ScopeAround(p, s) \in D /\ ScopeAround(p, s) < s
  BY ScopeIsNested DEF IsFunction
<1>3. \A s \in D : Len(al[s]) \in Nat
  OBVIOUS
<1>4. Recursion(D, V, rank, Base, base, outer, step)
  <2>1. rank \in [D -> Nat] /\ Base \in SUBSET D
    <3> HIDE DEF D
    <3> QED BY <1>1
  <2>2. base \in [Base -> V]
    OBVIOUS
  <2>3. outer \in [D \ Base -> D]
    <3> HIDE DEF D, Base
    <3> QED BY <1>2
  <2>4. step \in [D \ Base -> [V -> V]]
    <3>1. \A s \in D \ Base : Len(al[ScopeAround(p, s)]) \in Nat
      BY <1>2, <1>3
    <3> HIDE DEF D, Base
    <3> QED BY <3>1
  <2>5. \A s \in D \ Base : rank[outer[s]] < rank[s]
    <3> HIDE DEF D, Base
    <3> QED BY <1>2
  <2> HIDE DEF D, V, Base, base, outer, step, rank
  <2> QED BY <2>1, <2>2, <2>3, <2>4, <2>5 DEF Recursion
<1>5. PICK first \in [D -> V] : Satisfies(first, D, Base, base, outer, step)
  <2> HIDE DEF D, V, Base, base, outer, step, rank
  <2> QED BY <1>4, RecursiveFunctionExists
<1>6. ASSUME NEW s \in D PROVE first[s] = FirstAfter(p, al, s, first)
  <2>1. first[s] = IF s \in Base THEN base[s] ELSE step[s][first[outer[s]]]
    BY <1>5 DEF Satisfies
  <2>2. CASE s \in Base
    BY <2>1, <2>2 DEF FirstAfter
  <2>3. CASE s \notin Base
    <3>1. PICK a : a = ScopeAround(p, s)
      OBVIOUS
    <3>2. outer[s] = a /\ a \in D
      BY <1>2, <2>3, <3>1
    <3>3. first[a] \in V
      <4> HIDE DEF D, V
      <4> QED BY <3>2
    <3>4. step[s][first[a]] = first[a] + Len(al[a])
      BY <2>3, <3>1, <3>3
    <3> QED BY <2>1, <2>3, <3>1, <3>2, <3>4 DEF FirstAfter
  <2> QED BY <2>2, <2>3
<1>7. BeginsWords(p, al, first)
  BY <1>5, <1>6 DEF BeginsWords
<1> QED BY <1>7 DEF FirstWords

(* The words of a sub scope come after those of the scopes around it.       *)
LEMMA WordsComeAfter ==
  ASSUME NEW p, Nested(p), NEW al, \A s \in ScopesOf(p) : al[s] \in Seq(Variable),
         NEW first, BeginsWords(p, al, first), NEW t \in ScopesOf(p)
  PROVE  \A s \in ScopesOf(p) :
           t \in Around(p, s + 1) /\ t # s /\ FunctionAround(p, s + 1) = FunctionAround(p, t + 1) =>
             first[t] + Len(al[t]) <= first[s]
<1> DEFINE D == ScopesOf(p)
           Inner(s) == t \in Around(p, s + 1) /\ t # s /\ FunctionAround(p, s + 1) = FunctionAround(p, t + 1)
           S == {s \in D : Inner(s) => first[t] + Len(al[t]) <= first[s]}
           rank == [s \in D |-> s]
<1>1. \A s \in D : s \in Nat /\ s + 1 \in 1..(Len(p) + 1) /\ Len(al[s]) \in Nat /\ first[s] \in Nat
  BY ScopeIsNested DEF BeginsWords
<1>2. rank \in [D -> Nat]
  <2> HIDE DEF D
  <2> QED BY <1>1
<1>3. ASSUME NEW s \in D, \A r \in D : rank[r] < rank[s] => r \in S, Inner(s)
      PROVE  first[t] + Len(al[t]) <= first[s]
  <2>1. PICK a : a = ScopeAround(p, s)
    OBVIOUS
  <2>2. t <= s /\ t < s /\ s # TopScope
    <3>1. t <= s
      BY <1>3, ScopeIsNested
    <3> QED BY <1>1, <1>3, <3>1 DEF TopScope
  <2>3. a \in D /\ a < s /\ Around(p, s + 1) = Around(p, a + 1) \cup {s}
    BY <2>1, <2>2, ScopeIsNested
  <2>4. ~IsFunction(p, s)
    <3>1. SUFFICES ASSUME IsFunction(p, s) PROVE FALSE
      OBVIOUS
    <3>2. s \in FunctionsAround(p, s + 1)
      BY <3>1, ScopeIsNested DEF FunctionsAround
    <3>3. s <= FunctionAround(p, s + 1)
      BY <1>1, <3>2, FunctionsAroundAnItem
    <3>4. FunctionAround(p, t + 1) < t + 1 /\ FunctionAround(p, t + 1) \in D
      BY <1>1, FunctionsAroundAnItem
    <3>5. FunctionAround(p, t + 1) \in Nat /\ t \in Nat /\ s \in Nat
      BY <1>1, <3>4
    <3>6. s <= FunctionAround(p, t + 1)
      BY <1>3, <3>3
    <3> QED BY ONLY <2>2, <3>4, <3>5, <3>6
  <2>5. first[s] = first[a] + Len(al[a])
    BY <2>1, <2>4 DEF BeginsWords, FirstAfter
  <2>6. FunctionAround(p, s + 1) = FunctionAround(p, a + 1)
    BY <2>3, <2>4 DEF FunctionAround
  <2>7. CASE t = a
    BY <1>1, <2>5, <2>7
  <2>8. CASE t # a
    <3>1. Inner(a)
      BY <1>3, <2>2, <2>3, <2>6, <2>8
    <3>2. a \in S
      BY <1>3, <2>3
    <3>3. first[t] + Len(al[t]) <= first[a]
      BY <3>1, <3>2
    <3>4. first[t] \in Nat /\ Len(al[t]) \in Nat /\ first[a] \in Nat /\ Len(al[a]) \in Nat
      BY <1>1, <2>3
    <3> QED BY ONLY <2>5, <3>3, <3>4
  <2> QED BY <2>7, <2>8
<1>4. ASSUME NEW s \in D, \A r \in D : rank[r] < rank[s] => r \in S PROVE s \in S
  <2> HIDE DEF D, rank
  <2> QED BY <1>3, <1>4
<1>5. \A s \in D : s \in S
  <2> HIDE DEF D, S, rank
  <2> QED BY <1>2, <1>4, RankInduction
<1> QED BY <1>5

(* Finitely many of a function's values have a bound.                       *)
LEMMA FirstValuesAreBounded ==
  ASSUME NEW h \in [Nat -> Nat]
  PROVE  \A n \in Nat : \E m \in Nat : \A i \in 0..n : h[i] <= m
<1> DEFINE IsBounded(n) == \E m \in Nat : \A i \in 0..n : h[i] <= m
           S == {n \in Nat : IsBounded(n)}
<1>1. 0 \in S
  <2>1. \A i \in 0..0 : h[i] <= h[0]
    <3>1. \A i \in 0..0 : i = 0
      OBVIOUS
    <3>2. h[0] \in Nat
      OBVIOUS
    <3> QED BY <3>1, <3>2
  <2> QED BY <2>1
<1>2. ASSUME NEW n \in Nat, n \in S PROVE n + 1 \in S
  <2>1. PICK m \in Nat : \A i \in 0..n : h[i] <= m
    BY <1>2
  <2>2. h[n + 1] \in Nat
    OBVIOUS
  <2>3. \A i \in 0..(n + 1) : h[i] <= m + h[n + 1]
    <3> TAKE i \in 0..(n + 1)
    <3>1. i \in 0..n \/ i = n + 1
      OBVIOUS
    <3>2. CASE i \in 0..n
      <4>1. h[i] <= m /\ h[i] \in Nat
        BY <2>1, <3>2
      <4> QED BY <2>2, <4>1
    <3>3. CASE i = n + 1
      BY <2>2, <3>3
    <3> QED BY <3>1, <3>2, <3>3
  <2>4. m + h[n + 1] \in Nat
    BY <2>2
  <2> QED BY <2>3, <2>4
<1>3. \A n \in Nat : n \in S
  <2> HIDE DEF S
  <2> QED BY <1>1, <1>2, Induction
<1> QED BY <1>3

(* A function has words for each of its scopes.                             *)
LEMMA ScopesHaveTheirWords ==
  ASSUME NEW p, Nested(p), NEW al, \A s \in ScopesOf(p) : al[s] \in Seq(Variable),
         NEW first, BeginsWords(p, al, first), NEW f, NEW s \in ScopesIn(p, f)
  PROVE  WordsOf(p, al, first, f) \in Nat /\ first[s] + Len(al[s]) <= WordsOf(p, al, first, f)
<1> DEFINE end(r) == first[r] + Len(al[r])
           h == [i \in Nat |-> IF i \in ScopesIn(p, f) THEN end(i) ELSE 0]
           E == {end(r) : r \in ScopesIn(p, f)}
<1>1. \A r \in ScopesIn(p, f) : r \in 0..Len(p) /\ end(r) \in Nat
  <2> TAKE r \in ScopesIn(p, f)
  <2>1. r \in ScopesOf(p) /\ r \in Nat /\ r + 1 \in 1..(Len(p) + 1)
    BY ScopeIsNested DEF ScopesIn
  <2>2. first[r] \in Nat /\ Len(al[r]) \in Nat /\ Len(p) \in Nat
    BY <2>1 DEF BeginsWords, Nested
  <2> QED BY <2>1, <2>2
<1>2. h \in [Nat -> Nat]
  <2> HIDE DEF end
  <2> QED BY <1>1
<1>3. PICK m \in Nat : \A i \in 0..Len(p) : h[i] <= m
  <2>1. Len(p) \in Nat
    BY DEF Nested
  <2> HIDE DEF h
  <2> QED BY <1>2, <2>1, FirstValuesAreBounded
<1>4. E \in SUBSET (0..m) /\ end(s) \in E
  <2>1. \A r \in ScopesIn(p, f) : end(r) \in Nat /\ end(r) <= m
    <3> TAKE r \in ScopesIn(p, f)
    <3>1. r \in 0..Len(p) /\ r \in Nat /\ end(r) \in Nat
      BY <1>1
    <3>2. h[r] = end(r)
      BY <3>1
    <3> HIDE DEF h
    <3> QED BY <1>3, <3>1, <3>2
  <2> HIDE DEF end
  <2> QED BY <2>1
<1>5. Max(E) \in 0..m /\ \A e \in E : e <= Max(E)
  <2> HIDE DEF E, end
  <2> QED BY <1>3, <1>4, GreatestElement
<1>6. WordsOf(p, al, first, f) = Max(E)
  BY DEF WordsOf
<1>7. first[s] + Len(al[s]) <= Max(E) /\ Max(E) \in Nat
  <2>1. PICK e, top : e = end(s) /\ top = Max(E)
    OBVIOUS
  <2>2. e \in E /\ top \in 0..m /\ \A x \in E : x <= top
    <3> HIDE DEF E, end
    <3> QED BY <1>4, <1>5, <2>1
  <2>3. e <= top /\ top \in Nat
    BY ONLY <1>3, <2>2
  <2> QED BY <2>1, <2>3
<1> QED BY ONLY <1>6, <1>7

(* The Variables that a program declares, and the scopes that have them.    *)
LEMMA AllocatedOnce ==
  ASSUME NEW p, Nested(p), NEW n, ParametersDifferBefore(p, n), NEW al, IsAllocation(p, n, al),
         NEW s \in ScopesOf(p), NEW v \in ToSet(al[s])
  PROVE  /\ v \in Variable /\ v.type = "variable"
         /\ DeclaredIn(p, v) = s /\ v.allocation = FunctionAround(p, s + 1)
         /\ v.isParameter => v \in ParameterVariables(p, n, s)
         /\ ~v.isParameter => v \in LetsOf(p, n, s)
<1>1. v \in LetsOf(p, n, s) \cup ParameterVariables(p, n, s) /\ al[s] \in Seq(Variable)
  BY DEF IsAllocation, HasVariablesOf
<1>2. v \in Variable
  BY <1>1, ElementType DEF ToSet
<1>3. v \in LetsOf(p, n, s) => v.type = "variable" /\ ~v.isParameter
  BY DEF LetsOf, NewVariable
<1>4. v \in ParameterVariables(p, n, s) => v.type = "variable" /\ v.isParameter
  BY DEF ParameterVariables, NewVariable
<1>5. v \in DeclaredVariables(p, n, s)
  BY <1>1 DEF DeclaredVariables
<1>6. DeclaredIn(p, v) = s /\ v.allocation = FunctionAround(p, s + 1)
  BY <1>5, VariableIsDeclared
<1> QED BY <1>1, <1>2, <1>3, <1>4, <1>6

(* The offsets of the Variables of a scope are those of its words.          *)
IsOffsetsOf(p, al, first, o) ==
  /\ DOMAIN o = UNION {ToSet(al[s]) : s \in ScopesOf(p)}
  /\ \A s \in ScopesOf(p) : \A k \in DOMAIN al[s] : o[al[s][k]] = first[s] + k - 1

(* A Variable lies in the words of its scope.                               *)
LEMMA OffsetInScope ==
  ASSUME NEW p, Nested(p), NEW n, ParametersDifferBefore(p, n), NEW al, IsAllocation(p, n, al),
         NEW first, BeginsWords(p, al, first), NEW o, IsOffsetsOf(p, al, first, o),
         NEW v \in DOMAIN o
  PROVE  \E s \in ScopesOf(p) : \E k \in DOMAIN al[s] :
           /\ v = al[s][k] /\ v \in ToSet(al[s]) /\ DeclaredIn(p, v) = s
           /\ o[v] = first[s] + k - 1 /\ k \in 1..Len(al[s]) /\ first[s] \in Nat /\ Len(al[s]) \in Nat
<1>1. PICK s \in ScopesOf(p) : v \in ToSet(al[s])
  BY DEF IsOffsetsOf
<1>2. PICK k \in DOMAIN al[s] : v = al[s][k]
  BY <1>1 DEF ToSet
<1>3. DeclaredIn(p, v) = s
  BY <1>1, AllocatedOnce
<1>4. o[v] = first[s] + k - 1
  BY <1>2 DEF IsOffsetsOf
<1>5. al[s] \in Seq(Variable) /\ first[s] \in Nat
  BY DEF IsAllocation, HasVariablesOf, BeginsWords
<1>6. k \in 1..Len(al[s]) /\ Len(al[s]) \in Nat
  BY <1>2, <1>5
<1> QED BY <1>1, <1>2, <1>3, <1>4, <1>5, <1>6

(* Two Variables of a function have different words if the body of one is   *)
(* inside that of the other.                                                *)
LEMMA OffsetsDiffer ==
  ASSUME NEW p, Nested(p), NEW n, ParametersDifferBefore(p, n), NEW al, IsAllocation(p, n, al),
         NEW first, BeginsWords(p, al, first), NEW o, IsOffsetsOf(p, al, first, o),
         NEW u \in DOMAIN o, NEW v \in DOMAIN o, u # v, u.allocation = v.allocation,
         DeclaredIn(p, v) \in Around(p, u.item) \cup {DeclaredIn(p, u)}
  PROVE  o[u] # o[v]
<1>1. PICK s, j :
        /\ s \in ScopesOf(p) /\ j \in DOMAIN al[s]
        /\ u = al[s][j] /\ u \in ToSet(al[s]) /\ DeclaredIn(p, u) = s
        /\ o[u] = first[s] + j - 1 /\ j \in 1..Len(al[s]) /\ first[s] \in Nat /\ Len(al[s]) \in Nat
  BY OffsetInScope
<1>2. PICK t, k :
        /\ t \in ScopesOf(p) /\ k \in DOMAIN al[t]
        /\ v = al[t][k] /\ v \in ToSet(al[t]) /\ DeclaredIn(p, v) = t
        /\ o[v] = first[t] + k - 1 /\ k \in 1..Len(al[t]) /\ first[t] \in Nat /\ Len(al[t]) \in Nat
  BY OffsetInScope
<1>3. u.allocation = FunctionAround(p, s + 1) /\ v.allocation = FunctionAround(p, t + 1)
  BY <1>1, <1>2, AllocatedOnce
<1>4. CASE s = t
  <2>1. j # k
    BY <1>1, <1>2, <1>4
  <2> QED BY <1>1, <1>2, <1>4, <2>1
<1>5. CASE s # t
  <2>1. t \in Around(p, u.item)
    BY <1>1, <1>2, <1>5
  <2>2. s \in Nat /\ t \in Nat /\ s + 1 \in 1..(Len(p) + 1) /\ t + 1 \in 1..(Len(p) + 1)
    <3>1. s \in Nat /\ s + 1 \in 1..(Len(p) + 1)
      BY <1>1, ScopeIsNested
    <3>2. t \in Nat /\ t + 1 \in 1..(Len(p) + 1)
      BY <1>2, ScopeIsNested
    <3> QED BY <3>1, <3>2
  <2>3. CASE u.isParameter
    <3>1. u \in ParameterVariables(p, n, s)
      BY <1>1, <2>3, AllocatedOnce
    <3>2. u.item = s /\ u.allocation = s
      BY <3>1 DEF ParameterVariables, NewVariable
    <3>3. s \in Nat \ {0}
      <4>1. DOMAIN ParametersOf(p, s) # {}
        BY <3>1 DEF ParameterVariables
      <4> QED BY <2>2, <4>1 DEF ParametersOf, TopScope
    <3>4. t < s
      <4>1. Around(p, s) \in SUBSET (0..(s - 1))
        BY <3>3, OpenBodies
      <4> QED BY <2>1, <2>2, <3>2, <4>1
    <3>5. FunctionAround(p, t + 1) < t + 1 /\ FunctionAround(p, t + 1) \in ScopesOf(p)
      BY <2>2, FunctionsAroundAnItem
    <3>6. FunctionAround(p, t + 1) = s
      BY <1>3, <3>2
    <3> QED BY <2>2, <3>4, <3>5, <3>6
  <2>4. CASE ~u.isParameter
    <3>1. u \in LetsOf(p, n, s)
      BY <1>1, <2>4, AllocatedOnce
    <3>2. u.item \in DOMAIN p /\ Body(p, u.item) = s
      BY <3>1 DEF LetsOf, NewVariable
    <3>3. u.item \in 1..(Len(p) + 1)
      BY <3>2, ItemFacts DEF Nested
    <3>4. Around(p, s + 1) = Around(p, u.item)
      BY <3>2, <3>3, ScopesAroundAnItem
    <3>5. \A r \in ScopesOf(p) : al[r] \in Seq(Variable)
      BY DEF IsAllocation, HasVariablesOf
    <3>6. first[t] + Len(al[t]) <= first[s]
      <4>1. t \in Around(p, s + 1) /\ t # s /\ FunctionAround(p, s + 1) = FunctionAround(p, t + 1)
        BY <1>3, <1>5, <2>1, <3>4
      <4>2. s \in ScopesOf(p) /\ t \in ScopesOf(p)
        BY <1>1, <1>2
      <4> QED BY <3>5, <4>1, <4>2, WordsComeAfter
    <3>7. \A x, y, z, i, m \in Nat : i # 0 /\ m <= z /\ x + z <= y => y + i - 1 # x + m - 1
      OBVIOUS
    <3>8. /\ first[t] \in Nat /\ first[s] \in Nat /\ Len(al[t]) \in Nat /\ j \in Nat /\ k \in Nat
          /\ j # 0 /\ k <= Len(al[t])
      BY <1>1, <1>2
    <3>9. first[s] + j - 1 # first[t] + k - 1
      BY <3>6, <3>7, <3>8
    <3> QED BY <1>1, <1>2, <3>9
  <2> QED BY <2>3, <2>4
<1> QED BY <1>4, <1>5

(* Every Variable lies in the words of its function.                        *)
LEMMA OffsetInFunction ==
  ASSUME NEW p, Nested(p), NEW n, ParametersDifferBefore(p, n), NEW al, IsAllocation(p, n, al),
         NEW first, BeginsWords(p, al, first), NEW o, IsOffsetsOf(p, al, first, o),
         NEW v \in DOMAIN o
  PROVE  o[v] \in 0..(WordsOf(p, al, first, v.allocation) - 1)
<1>1. PICK s, k :
        /\ s \in ScopesOf(p) /\ k \in DOMAIN al[s]
        /\ v = al[s][k] /\ v \in ToSet(al[s])
        /\ o[v] = first[s] + k - 1 /\ k \in 1..Len(al[s]) /\ first[s] \in Nat /\ Len(al[s]) \in Nat
  BY OffsetInScope
<1>2. PICK f : f = v.allocation
  OBVIOUS
<1>3. s \in ScopesIn(p, f)
  BY <1>1, <1>2, AllocatedOnce DEF ScopesIn
<1>4. \A r \in ScopesOf(p) : al[r] \in Seq(Variable)
  BY DEF IsAllocation, HasVariablesOf
<1>5. PICK w : w = WordsOf(p, al, first, f)
  OBVIOUS
<1>6. w \in Nat /\ first[s] + Len(al[s]) <= w
  BY <1>3, <1>4, <1>5, ScopesHaveTheirWords
<1>7. o[v] \in 0..(w - 1)
  BY <1>1, <1>6
<1> QED BY <1>2, <1>5, <1>7

(* The let statements are the ones that have words.                         *)
LEMMA LetsHaveOffsets ==
  ASSUME NEW p, Nested(p), NEW n, n = Len(p) + 1, ParametersDifferBefore(p, n),
         NEW al, IsAllocation(p, n, al),
         NEW first, BeginsWords(p, al, first), NEW o, IsOffsetsOf(p, al, first, o)
  PROVE  {v.item : v \in {v \in DOMAIN o : ~v.isParameter}} = {i \in DOMAIN p : p[i].kind = "let"}
<1>1. ASSUME NEW v \in DOMAIN o, ~v.isParameter PROVE v.item \in DOMAIN p /\ p[v.item].kind = "let"
  <2>1. PICK s \in ScopesOf(p) : v \in ToSet(al[s])
    BY OffsetInScope
  <2>2. v \in LetsOf(p, n, s)
    BY <1>1, <2>1, AllocatedOnce
  <2> QED BY <2>2 DEF LetsOf, NewVariable
<1>2. ASSUME NEW i \in DOMAIN p, p[i].kind = "let"
      PROVE  \E v \in DOMAIN o : ~v.isParameter /\ v.item = i
  <2>1. PICK v, s : v = NewVariable(i, p[i].name, "variable", FunctionAround(p, i), FALSE) /\ s = Body(p, i)
    OBVIOUS
  <2>2. i \in 1..(Len(p) + 1) /\ i < n
    <3>1. i \in Nat /\ i \in 1..Len(p) /\ Len(p) \in Nat
      BY ItemFacts DEF Nested
    <3> QED BY <3>1
  <2>3. s \in ScopesOf(p)
    BY <2>1, <2>2, ScopesAroundAnItem
  <2>4. v \in LetsOf(p, n, s)
    BY <1>2, <2>1, <2>2 DEF LetsOf
  <2>5. v \in ToSet(al[s])
    BY <2>3, <2>4 DEF IsAllocation, HasVariablesOf
  <2>6. v \in DOMAIN o
    BY <2>3, <2>5 DEF IsOffsetsOf
  <2>7. ~v.isParameter /\ v.item = i
    BY <2>1 DEF NewVariable
  <2> QED BY <2>6, <2>7
<1> QED BY <1>1, <1>2
-----------------------------------------------------------------------------
(* After the second pass every function has ended.                          *)
Complete ==
  /\ Nested(program) /\ IsTree(program, children)
  /\ AreDeclared(program, next, variables) /\ AreGathered(program, next, gathered)
  /\ ParametersDifferBefore(program, next)
  /\ next = Len(program) + 1 /\ Around(program, next) = {TopScope}

(* What is selected from different elements differs.                        *)
LEMMA SelectedDiffer ==
  ASSUME NEW T, NEW q \in Seq(T), NEW W, \A j, k \in DOMAIN q : q[j] = q[k] => j = k
  PROVE  \A j, k \in DOMAIN Selected(q, W) : Selected(q, W)[j] = Selected(q, W)[k] => j = k
<1>1. PICK r, h : r = Selected(q, W) /\ IsSelection(r, q, W, T, h)
  BY SelectedElements
<1>2. r \in Seq(T)
  BY <1>1 DEF IsSelection
<1>3. ASSUME NEW j \in DOMAIN r, NEW k \in DOMAIN r, r[j] = r[k], j < k PROVE FALSE
  <2>1. h[j] \in DOMAIN q /\ h[k] \in DOMAIN q /\ q[h[j]] = q[h[k]] /\ h[j] < h[k]
    BY <1>1, <1>3 DEF IsSelection
  <2>2. h[j] = h[k] /\ h[j] \in Nat
    BY <2>1
  <2> QED BY ONLY <2>1, <2>2
<1>4. \A j, k \in DOMAIN r : r[j] = r[k] => j = k
  <2> TAKE j, k \in DOMAIN r
  <2>1. j \in Nat /\ k \in Nat
    BY <1>2
  <2>2. j = k \/ j < k \/ k < j
    BY <2>1
  <2> QED BY <1>3, <2>2
<1> QED BY <1>1, <1>4

(* A sequence has the elements of another at its beginning.                 *)
BeginsWith(q, r) == \A k \in DOMAIN r : k \in DOMAIN q /\ q[k] = r[k]

(* What a function has gathered is its Variables, each of them once.        *)
LEMMA GatheredOnce ==
  ASSUME NEW p, NEW n, NEW f, NEW g, IsGathered(p, n, f, g)
  PROVE  /\ HasVariablesOf(g.parameters \o g.locals, p, n, f)
         /\ BeginsWith(g.parameters \o g.locals, g.parameters)
<1>1. PICK q, r, a : q = g.parameters /\ r = g.locals /\ a = q \o r
  OBVIOUS
<1>2. q \in Seq(Variable) /\ r \in Seq(Variable) /\ NamesDiffer(q) /\ NamesDiffer(r)
  BY <1>1 DEF IsGathered
<1>3. /\ a \in Seq(Variable) /\ Len(a) = Len(q) + Len(r)
      /\ \A i \in 1..Len(q) : a[i] = q[i]
      /\ \A i \in (Len(q) + 1)..Len(a) : i - Len(q) \in DOMAIN r /\ a[i] = r[i - Len(q)]
      /\ ToSet(a) = ToSet(q) \cup ToSet(r)
  <2>1. /\ q \o r \in Seq(Variable) /\ Len(q \o r) = Len(q) + Len(r)
        /\ \A i \in 1..Len(q) : (q \o r)[i] = q[i]
        /\ \A i \in (Len(q) + 1)..Len(q \o r) : i - Len(q) \in DOMAIN r /\ (q \o r)[i] = r[i - Len(q)]
        /\ ToSet(q \o r) = ToSet(q) \cup ToSet(r)
    BY ONLY <1>2, ElementsOfConcatenation
  <2>2. a = q \o r
    BY <1>1
  <2> QED BY ONLY <2>1, <2>2
<1>4. Len(q) \in Nat /\ Len(a) \in Nat /\ DOMAIN q = 1..Len(q) /\ DOMAIN a = 1..Len(a) /\ Len(r) \in Nat
  BY <1>2, <1>3
<1>5. \A i \in 1..Len(q) : q[i].isParameter
  <2>1. ToSet(q) = ParameterVariables(p, n, f)
    BY <1>1 DEF IsGathered
  <2>2. \A v \in ParameterVariables(p, n, f) : v.isParameter
    BY DEF ParameterVariables, NewVariable
  <2> QED BY <1>4, <2>1, <2>2 DEF ToSet
<1>6. \A i \in DOMAIN r : ~r[i].isParameter
  <2>1. ToSet(r) = LetsOf(p, n, f)
    BY <1>1 DEF IsGathered
  <2>2. \A v \in LetsOf(p, n, f) : ~v.isParameter
    BY DEF LetsOf, NewVariable
  <2> QED BY <2>1, <2>2 DEF ToSet
<1>7. \A j, k \in DOMAIN a : a[j] = a[k] => j = k
  <2> SUFFICES ASSUME NEW j \in DOMAIN a, NEW k \in DOMAIN a, a[j] = a[k] PROVE j = k
    OBVIOUS
  <2>1. j \in 1..Len(a) /\ k \in 1..Len(a)
    BY <1>4
  <2>2. (j \in 1..Len(q) \/ j \in (Len(q) + 1)..Len(a)) /\ (k \in 1..Len(q) \/ k \in (Len(q) + 1)..Len(a))
    BY <1>4, <2>1
  <2>3. CASE j \in 1..Len(q) /\ k \in 1..Len(q)
    BY <1>2, <1>3, <1>4, <2>3 DEF NamesDiffer
  <2>4. CASE j \in (Len(q) + 1)..Len(a) /\ k \in (Len(q) + 1)..Len(a)
    <3>1. /\ j - Len(q) \in DOMAIN r /\ k - Len(q) \in DOMAIN r
          /\ r[j - Len(q)] = r[k - Len(q)]
      BY <1>3, <2>4
    <3>2. j - Len(q) = k - Len(q)
      BY <1>2, <3>1 DEF NamesDiffer
    <3> QED BY <1>4, <2>1, <3>2
  <2>5. CASE j \in 1..Len(q) /\ k \in (Len(q) + 1)..Len(a)
    <3>1. a[j].isParameter
      BY <1>3, <1>5, <2>5
    <3>2. ~a[k].isParameter
      BY <1>3, <1>6, <2>5
    <3> QED BY <3>1, <3>2
  <2>6. CASE k \in 1..Len(q) /\ j \in (Len(q) + 1)..Len(a)
    <3>1. a[k].isParameter
      BY <1>3, <1>5, <2>6
    <3>2. ~a[j].isParameter
      BY <1>3, <1>6, <2>6
    <3> QED BY <3>1, <3>2
  <2> QED BY <2>2, <2>3, <2>4, <2>5, <2>6
<1>8. BeginsWith(a, q)
  BY <1>3, <1>4 DEF BeginsWith
<1>9. ToSet(a) = LetsOf(p, n, f) \cup ParameterVariables(p, n, f)
  BY <1>1, <1>3 DEF IsGathered
<1>10. HasVariablesOf(a, p, n, f)
  BY <1>3, <1>7, <1>9 DEF HasVariablesOf
<1> QED BY <1>1, <1>8, <1>10

(* So every scope is given words for its own Variables, each of them once.  *)
LEMMA AllocationIsComplete ==
  ASSUME NEW p, Nested(p), NEW n, n = Len(p) + 1, NEW vs, AreDeclared(p, n, vs),
         NEW g, AreGathered(p, n, g), Around(p, n) = {TopScope}
  PROVE  IsAllocation(p, n, AllocationOf(p, vs, g))
<1>1. PICK al : al = AllocationOf(p, vs, g)
  OBVIOUS
<1>2. ASSUME NEW s \in ScopesOf(p), s # TopScope, p[s].kind = "function"
      PROVE  HasVariablesOf(al[s], p, n, s)
  <2>1. s \in EndedFunctions(p, n)
    <3>1. s \in DOMAIN p
      BY <1>2 DEF ScopesOf
    <3>2. s \in Nat /\ s \in 1..Len(p) /\ Len(p) \in Nat
      BY <3>1, ItemFacts DEF Nested
    <3>3. s < n
      BY <3>2
    <3> QED BY <1>2, <3>1, <3>3 DEF EndedFunctions
  <2>2. IsGathered(p, n, s, g[s])
    BY <2>1 DEF AreGathered
  <2>3. al[s] = g[s].parameters \o g[s].locals
    BY <1>1, <1>2 DEF AllocationOf
  <2>4. PICK h : h = g[s]
    OBVIOUS
  <2>5. IsGathered(p, n, s, h)
    BY <2>2, <2>4
  <2>6. HasVariablesOf(h.parameters \o h.locals, p, n, s)
    BY ONLY <2>5, GatheredOnce
  <2> QED BY ONLY <2>3, <2>4, <2>6
<1>3. ASSUME NEW s \in ScopesOf(p), ~(s # TopScope /\ p[s].kind = "function")
      PROVE  HasVariablesOf(al[s], p, n, s)
  <2>1. PICK q : q = vs[s]
    OBVIOUS
  <2>2. q \in Seq(Variable) /\ NamesDiffer(q) /\ ToSet(q) = DeclaredVariables(p, n, s)
    BY <2>1 DEF AreDeclared
  <2>3. al[s] = Selected(q, ProperVariables)
    BY <1>1, <1>3, <2>1 DEF AllocationOf
  <2>4. al[s] \in Seq(Variable) /\ ToSet(al[s]) = ToSet(q) \cap ProperVariables
    BY <2>2, <2>3, SelectedAll
  <2>5. \A j, k \in DOMAIN al[s] : al[s][j] = al[s][k] => j = k
    <3>1. \A j, k \in DOMAIN q : q[j] = q[k] => j = k
      BY <2>2 DEF NamesDiffer
    <3> QED BY <2>2, <2>3, <3>1, SelectedDiffer
  <2>6. ASSUME NEW v \in DeclaredVariables(p, n, s)
        PROVE  v \in ProperVariables <=> v \in LetsOf(p, n, s) \cup ParameterVariables(p, n, s)
    <3>1. v \in Variable
      BY <2>2, <2>6, ElementType DEF ToSet
    <3>2. v \in LetsOf(p, n, s) \cup ParameterVariables(p, n, s) => v.type = "variable"
      BY DEF LetsOf, ParameterVariables, NewVariable
    <3>3. v \in BuiltinsOf(s) \cup FunctionsOf(p, s) => v.type # "variable"
      BY DEF BuiltinsOf, FunctionsOf, NewVariable
    <3> QED BY <2>6, <3>1, <3>2, <3>3 DEF DeclaredVariables, ProperVariables
  <2>7. ToSet(al[s]) = LetsOf(p, n, s) \cup ParameterVariables(p, n, s)
    BY <2>2, <2>4, <2>6 DEF DeclaredVariables
  <2> QED BY <2>4, <2>5, <2>7 DEF HasVariablesOf
<1>4. IsAllocation(p, n, al)
  BY <1>2, <1>3 DEF IsAllocation
<1> QED BY <1>1, <1>4

(* The allocation at the end of the second pass.                            *)
Allocation == AllocationOf(program, variables, gathered)

(* What is allocated in a scope at the end is all that it has declared, and *)
(* words are given out from the outermost scope inwards.                    *)
LEMMA AllocatedInScope ==
  ASSUME Complete
  PROVE  /\ IsAllocation(program, next, Allocation)
         /\ \A s \in ScopesOf(program) : AllocatedIn(s) = Allocation[s] /\ Allocation[s] \in Seq(Variable)
         /\ \A s \in ScopesOf(program) : (ScopeType(s) # "sub") <=> IsFunction(program, s)
         /\ BeginsWords(program, Allocation, FirstWords(program, Allocation))
<1>1. PICK p, n, vs, g : p = program /\ n = next /\ vs = variables /\ g = gathered
  OBVIOUS
<1>2. IsAllocation(p, n, AllocationOf(p, vs, g))
  BY <1>1, AllocationIsComplete DEF Complete
<1>3. PICK al : al = Allocation
  OBVIOUS
<1>4. IsAllocation(p, n, al)
  BY <1>1, <1>2, <1>3 DEF Allocation
<1>5. \A s \in ScopesOf(p) : al[s] \in Seq(Variable)
  BY <1>4 DEF IsAllocation, HasVariablesOf
<1>6. Nested(p)
  BY <1>1 DEF Complete
<1>7. BeginsWords(p, al, FirstWords(p, al))
  BY <1>5, <1>6, WordsBegin
<1>8. \A s \in ScopesOf(program) : (ScopeType(s) # "sub") <=> IsFunction(program, s)
  BY DEF ScopeType, IsFunction
<1>9. \A s \in ScopesOf(program) : AllocatedIn(s) = Allocation[s]
  <2> TAKE s \in ScopesOf(program)
  <2>1. (ScopeType(s) = "function") <=> (s # TopScope /\ program[s].kind = "function")
    BY DEF ScopeType
  <2> QED BY <2>1 DEF AllocatedIn, Allocation, AllocationOf
<1> QED BY <1>1, <1>3, <1>4, <1>5, <1>7, <1>8, <1>9

(* FirstOffset is where the words of a scope begin.                         *)
LEMMA FirstOffsets ==
  ASSUME Complete
  PROVE  \A s \in ScopesOf(program) : FirstOffset(s) = FirstWords(program, Allocation)[s]
<1> DEFINE IsFirst(h) ==
             h = [s \in DOMAIN children |->
                   IF ScopeType(s) # "sub" THEN 0 ELSE h[Parent(s)] + Len(AllocatedIn(Parent(s)))]
<1>1. PICK p, al, w : p = program /\ al = Allocation /\ w = FirstWords(program, Allocation)
  OBVIOUS
<1>2. Nested(p) /\ DOMAIN children = ScopesOf(p)
  BY <1>1 DEF Complete, IsTree
<1>3. w \in [ScopesOf(p) -> Nat] /\ \A s \in ScopesOf(p) : w[s] = FirstAfter(p, al, s, w)
  BY <1>1, AllocatedInScope DEF BeginsWords
<1>4. ASSUME NEW s \in ScopesOf(p), ScopeType(s) = "sub"
      PROVE  /\ Parent(s) = ScopeAround(p, s) /\ Parent(s) \in ScopesOf(p) /\ Parent(s) < s /\ s \in Nat
             /\ AllocatedIn(Parent(s)) = al[Parent(s)]
  <2>1. s # TopScope
    BY <1>4 DEF ScopeType
  <2>2. Parent(s) = ScopeAround(p, s) /\ Parent(s) \in ScopesOf(p) /\ Parent(s) < s
    BY <1>1, <2>1, ParentIsAround DEF Complete
  <2>3. s \in Nat
    BY <1>2, ScopeIsNested
  <2> QED BY <1>1, <2>2, <2>3, AllocatedInScope
<1>5. \A s \in ScopesOf(p) : (ScopeType(s) # "sub") <=> IsFunction(p, s)
  BY <1>1, AllocatedInScope
<1>6. ASSUME NEW s \in ScopesOf(p)
      PROVE  w[s] = IF ScopeType(s) # "sub" THEN 0 ELSE w[Parent(s)] + Len(AllocatedIn(Parent(s)))
  <2>1. w[s] = IF IsFunction(p, s) THEN 0 ELSE w[ScopeAround(p, s)] + Len(al[ScopeAround(p, s)])
    BY <1>3 DEF FirstAfter
  <2> QED BY <1>4, <1>5, <2>1
<1>7. \E h : IsFirst(h)
  <2>1. IsFirst(w)
    BY <1>2, <1>3, <1>6
  <2> QED BY <2>1
<1> DEFINE r == CHOOSE h : IsFirst(h)
<1>8. IsFirst(r)
  BY <1>7
<1>9. \A s : FirstOffset(s) = r[s]
  BY DEF FirstOffset
<1> HIDE DEF r
<1>10. ASSUME NEW s \in ScopesOf(p)
       PROVE  r[s] = IF ScopeType(s) # "sub" THEN 0 ELSE r[Parent(s)] + Len(AllocatedIn(Parent(s)))
  BY <1>2, <1>8
<1> HIDE DEF IsFirst
<1> DEFINE S == {s \in ScopesOf(p) : r[s] = w[s]}
           rank == [s \in ScopesOf(p) |-> s]
<1>11. rank \in [ScopesOf(p) -> Nat]
  BY <1>2, ScopeIsNested
<1>12. ASSUME NEW s \in ScopesOf(p), \A t \in ScopesOf(p) : rank[t] < rank[s] => t \in S PROVE s \in S
  <2>1. CASE ScopeType(s) # "sub"
    BY <1>6, <1>10, <2>1
  <2>2. CASE ScopeType(s) = "sub"
    <3>1. Parent(s) \in ScopesOf(p) /\ Parent(s) < s
      BY <1>4, <2>2
    <3>2. r[Parent(s)] = w[Parent(s)]
      BY <1>12, <3>1
    <3> QED BY <1>6, <1>10, <2>2, <3>2
  <2> QED BY <2>1, <2>2
<1>13. \A s \in ScopesOf(p) : s \in S
  <2> HIDE DEF S, rank
  <2> QED BY <1>11, <1>12, RankInduction
<1> QED BY <1>1, <1>9, <1>13

(* The words of a function are those of its scopes.                         *)
LEMMA FunctionWords ==
  ASSUME Complete
  PROVE  \A f \in ScopesOf(program) :
           IsFunction(program, f) =>
             ParamAndLocalCount(f) = WordsOf(program, Allocation, FirstWords(program, Allocation), f)
<1> DEFINE IsOwner(h) ==
             h = [t \in DOMAIN variables |-> IF ScopeType(t) # "sub" THEN t ELSE h[Parent(t)]]
<1>1. PICK p, al, w : p = program /\ al = Allocation /\ w = FirstWords(program, Allocation)
  OBVIOUS
<1>2. Nested(p) /\ DOMAIN variables = ScopesOf(p)
  BY <1>1 DEF Complete, AreDeclared
<1>3. \A s \in ScopesOf(p) : (ScopeType(s) # "sub") <=> IsFunction(p, s)
  BY <1>1, AllocatedInScope
<1>4. \A s \in ScopesOf(p) : s \in Nat /\ s + 1 \in 1..(Len(p) + 1)
  BY <1>2, ScopeIsNested
<1>5. ASSUME NEW s \in ScopesOf(p), ScopeType(s) # "sub" PROVE FunctionAround(p, s + 1) = s
  <2>1. s \in FunctionsAround(p, s + 1)
    BY <1>2, <1>3, <1>5, ScopeIsNested DEF FunctionsAround
  <2>2. s <= FunctionAround(p, s + 1) /\ FunctionAround(p, s + 1) < s + 1
    BY <1>2, <1>4, <2>1, FunctionsAroundAnItem
  <2>3. FunctionAround(p, s + 1) \in Nat
    BY <1>2, <1>4, FunctionsAroundAnItem
  <2>4. s \in Nat
    BY <1>4
  <2> QED BY ONLY <2>2, <2>3, <2>4
<1>6. ASSUME NEW s \in ScopesOf(p), ScopeType(s) = "sub"
      PROVE  /\ Parent(s) \in ScopesOf(p) /\ Parent(s) < s
             /\ FunctionAround(p, s + 1) = FunctionAround(p, Parent(s) + 1)
  <2>1. s # TopScope
    BY <1>6 DEF ScopeType
  <2>2. /\ Parent(s) \in ScopesOf(p) /\ Parent(s) < s
        /\ Around(p, s + 1) = Around(p, Parent(s) + 1) \cup {s}
    BY <1>1, <2>1, ParentIsAround DEF Complete
  <2>3. ~IsFunction(p, s)
    BY <1>3, <1>6
  <2> QED BY <2>2, <2>3 DEF FunctionAround
<1>7. \E h : IsOwner(h)
  <2> DEFINE around == [t \in ScopesOf(p) |-> FunctionAround(p, t + 1)]
  <2>1. \A t \in ScopesOf(p) : around[t] = IF ScopeType(t) # "sub" THEN t ELSE around[Parent(t)]
    BY <1>5, <1>6
  <2>2. IsOwner(around)
    BY <1>2, <2>1
  <2> QED BY <2>2
<1> DEFINE o == CHOOSE h : IsOwner(h)
<1>8. IsOwner(o)
  BY <1>7
<1>9. \A f : ParamAndLocalCount(f) =
        Max({FirstOffset(s) + Len(AllocatedIn(s)) :
               s \in {s \in DOMAIN variables : s = f \/ (ScopeType(s) = "sub" /\ o[s] = f)}})
  BY DEF ParamAndLocalCount
<1> HIDE DEF o
<1>10. ASSUME NEW s \in ScopesOf(p)
       PROVE  o[s] = IF ScopeType(s) # "sub" THEN s ELSE o[Parent(s)]
  BY <1>2, <1>8
<1> HIDE DEF IsOwner
<1> DEFINE S == {s \in ScopesOf(p) : o[s] = FunctionAround(p, s + 1)}
           rank == [s \in ScopesOf(p) |-> s]
<1>11. rank \in [ScopesOf(p) -> Nat]
  BY <1>4
<1>12. ASSUME NEW s \in ScopesOf(p), \A t \in ScopesOf(p) : rank[t] < rank[s] => t \in S PROVE s \in S
  <2>1. CASE ScopeType(s) # "sub"
    BY <1>5, <1>10, <2>1
  <2>2. CASE ScopeType(s) = "sub"
    <3>1. o[Parent(s)] = FunctionAround(p, Parent(s) + 1)
      BY <1>6, <1>12, <2>2
    <3> QED BY <1>6, <1>10, <2>2, <3>1
  <2> QED BY <2>1, <2>2
<1>13. \A s \in ScopesOf(p) : s \in S
  <2> HIDE DEF S, rank
  <2> QED BY <1>11, <1>12, RankInduction
<1>14. ASSUME NEW f \in ScopesOf(p), IsFunction(p, f)
       PROVE  ParamAndLocalCount(f) = WordsOf(p, al, w, f)
  <2>1. {s \in DOMAIN variables : s = f \/ (ScopeType(s) = "sub" /\ o[s] = f)} = ScopesIn(p, f)
    <3>1. \A s \in ScopesOf(p) :
            (s = f \/ (ScopeType(s) = "sub" /\ o[s] = f)) <=> FunctionAround(p, s + 1) = f
      BY <1>3, <1>5, <1>13, <1>14
    <3> QED BY <1>2, <3>1 DEF ScopesIn
  <2>2. \A s \in ScopesIn(p, f) : FirstOffset(s) = w[s] /\ AllocatedIn(s) = al[s]
    BY <1>1, FirstOffsets, AllocatedInScope DEF ScopesIn
  <2>3. {FirstOffset(s) + Len(AllocatedIn(s)) : s \in ScopesIn(p, f)} = {w[s] + Len(al[s]) : s \in ScopesIn(p, f)}
    BY <2>2
  <2>4. ParamAndLocalCount(f) = Max({FirstOffset(s) + Len(AllocatedIn(s)) : s \in ScopesIn(p, f)})
    BY <1>9, <2>1
  <2> QED BY <2>3, <2>4 DEF WordsOf
<1> QED BY <1>1, <1>14

(* The offsets of the last step are those of the words of the scopes.       *)
LEMMA OffsetsAreComputed ==
  ASSUME Complete, ComputeVariableOffsets
  PROVE  IsOffsetsOf(program, Allocation, FirstWords(program, Allocation), offsets')
<1>1. PICK p, n, vs, al, w, o : /\ p = program /\ n = next /\ vs = variables /\ al = Allocation
                                /\ w = FirstWords(program, Allocation) /\ o = offsets'
  OBVIOUS
<1>2. /\ Nested(p) /\ AreDeclared(p, n, vs) /\ ParametersDifferBefore(p, n)
      /\ DOMAIN variables = ScopesOf(p)
  BY <1>1 DEF Complete, AreDeclared
<1>3. IsAllocation(p, n, al) /\ \A s \in ScopesOf(p) : AllocatedIn(s) = al[s]
  BY <1>1, AllocatedInScope
<1>4. \A s \in ScopesOf(p) : FirstOffset(s) = w[s]
  BY <1>1, FirstOffsets
<1>5. o = [v \in UNION {ToSet(AllocatedIn(s)) : s \in DOMAIN variables} |->
             FirstOffset(CHOOSE s \in DOMAIN variables : v \in ToSet(variables[s]))
               + IndexIn(AllocatedIn(CHOOSE s \in DOMAIN variables : v \in ToSet(variables[s])), v) - 1]
  BY <1>1 DEF ComputeVariableOffsets
<1>6. {ToSet(AllocatedIn(s)) : s \in DOMAIN variables} = {ToSet(al[s]) : s \in ScopesOf(p)}
  BY <1>2, <1>3
<1>7. DOMAIN o = UNION {ToSet(al[s]) : s \in ScopesOf(p)}
  BY <1>5, <1>6
<1>8. ASSUME NEW s \in ScopesOf(p), NEW k \in DOMAIN al[s] PROVE o[al[s][k]] = w[s] + k - 1
  <2>1. PICK v : v = al[s][k]
    OBVIOUS
  <2>2. v \in ToSet(al[s])
    BY <2>1 DEF ToSet
  <2>3. v \in LetsOf(p, n, s) \cup ParameterVariables(p, n, s)
    BY <1>3, <2>2 DEF IsAllocation, HasVariablesOf
  <2>4. v \in ToSet(vs[s])
    BY <1>2, <2>3 DEF AreDeclared, DeclaredVariables
  <2>5. ASSUME NEW t \in ScopesOf(p), v \in ToSet(vs[t]) PROVE t = s
    <3>1. v \in DeclaredVariables(p, n, t) /\ v \in DeclaredVariables(p, n, s)
      BY <1>2, <2>4, <2>5 DEF AreDeclared
    <3>2. DeclaredIn(p, v) = t /\ DeclaredIn(p, v) = s
      BY <1>2, <3>1, VariableIsDeclared
    <3> QED BY <3>2
  <2>6. (CHOOSE t \in DOMAIN variables : v \in ToSet(variables[t])) = s
    <3>1. \A t \in DOMAIN variables : v \in ToSet(variables[t]) => t = s
      BY <1>1, <1>2, <2>5
    <3>2. s \in DOMAIN variables /\ v \in ToSet(variables[s])
      BY <1>1, <1>2, <2>4
    <3> QED BY <3>1, <3>2
  <2>7. IndexIn(al[s], v) = k
    <3>1. \A j \in DOMAIN al[s] : al[s][j] = v => j = k
      BY <1>3, <2>1 DEF IsAllocation, HasVariablesOf
    <3> QED BY <2>1, <3>1 DEF IndexIn
  <2>8. v \in DOMAIN o
    BY <1>7, <2>2
  <2>9. o[v] = FirstOffset(s) + IndexIn(AllocatedIn(s), v) - 1
    BY <1>5, <2>6, <2>8
  <2>10. o[v] = w[s] + IndexIn(al[s], v) - 1
    BY <1>3, <1>4, <2>9
  <2> QED BY <2>1, <2>7, <2>10
<1>9. IsOffsetsOf(p, al, w, o)
  BY <1>7, <1>8 DEF IsOffsetsOf
<1> QED BY <1>1, <1>9

(* A function's parameters have its first words.                            *)
LEMMA ParametersComeFirst ==
  ASSUME Complete, NEW o, IsOffsetsOf(program, Allocation, FirstWords(program, Allocation), o)
  PROVE  \A f \in DOMAIN gathered : \A k \in DOMAIN gathered[f].parameters :
           o[gathered[f].parameters[k]] = k - 1
<1> SUFFICES ASSUME NEW f \in DOMAIN gathered, NEW k \in DOMAIN gathered[f].parameters
             PROVE  o[gathered[f].parameters[k]] = k - 1
  OBVIOUS
<1>1. PICK p, n, g, al, w : /\ p = program /\ n = next /\ g = gathered[f] /\ al = Allocation
                            /\ w = FirstWords(program, Allocation)
  OBVIOUS
<1>2. f \in EndedFunctions(p, n) /\ IsGathered(p, n, f, g)
  BY <1>1 DEF Complete, AreGathered
<1>3. f \in ScopesOf(p) /\ p[f].kind = "function" /\ f # TopScope
  <2>1. f \in DOMAIN p /\ p[f].kind = "function"
    BY <1>2 DEF EndedFunctions
  <2>2. f \in Nat \ {0}
    <3>1. p \in Seq(Items)
      BY <1>1 DEF Complete, Nested
    <3> QED BY <2>1, <3>1, ItemFacts
  <2> QED BY <2>1, <2>2 DEF ScopesOf, TopScope, Begins
<1>4. al[f] = g.parameters \o g.locals
  BY <1>1, <1>3 DEF Allocation, AllocationOf
<1>5. k \in DOMAIN (g.parameters \o g.locals) /\ (g.parameters \o g.locals)[k] = g.parameters[k]
  <2>1. k \in DOMAIN g.parameters
    BY <1>1
  <2>2. BeginsWith(g.parameters \o g.locals, g.parameters)
    BY ONLY <1>2, GatheredOnce
  <2> QED BY ONLY <2>1, <2>2 DEF BeginsWith
<1>6. o[al[f][k]] = w[f] + k - 1
  BY <1>1, <1>3, <1>4, <1>5 DEF IsOffsetsOf
<1>7. w[f] = 0
  <2>1. BeginsWords(p, al, w) /\ IsFunction(p, f)
    BY <1>1, <1>3, AllocatedInScope DEF IsFunction
  <2> QED BY <1>3, <2>1 DEF BeginsWords, FirstAfter
<1>8. k \in Nat
  <2>1. g.parameters \in Seq(Variable)
    BY <1>2 DEF IsGathered
  <2> QED BY <1>1, <2>1
<1>9. o[g.parameters[k]] = k - 1
  BY <1>4, <1>5, <1>6, <1>7, <1>8
<1> QED BY <1>1, <1>9

(* At the end of the second pass.                                           *)
LEMMA SecondPassIsComplete ==
  ASSUME ProgramPart, Parts, SlotParts, ComputeVariableOffsets
  PROVE  Complete
<1>1. status = "second" /\ next > Len(program)
  BY DEF ComputeVariableOffsets
<1>2. next = Len(program) + 1
  <2>1. Len(program) \in Nat /\ next \in 1..(Len(program) + 1)
    BY DEF ProgramPart, Nested
  <2> QED BY <1>1, <2>1
<1> QED BY <1>1, <1>2 DEF Complete, ProgramPart, Parts, SlotParts, ParametersDifferBefore

(* The last step leaves the Variables with their words.                     *)
HaveWords ==
  status = "success" =>
    Complete /\ IsOffsetsOf(program, Allocation, FirstWords(program, Allocation), offsets)

(* The last step of the second pass computes the words of that allocation.  *)
LEMMA WordsAreComputed ==
  ASSUME ProgramPart, Parts, SlotParts, ComputeVariableOffsets
  PROVE  HaveWords'
<1>1. Complete
  BY SecondPassIsComplete
<1>2. UNCHANGED <<program, next, variables, children, gathered>>
  BY DEF ComputeVariableOffsets, tree
<1>3. Complete' /\ Allocation' = Allocation
  BY <1>1, <1>2 DEF Complete, Allocation
<1>4. IsOffsetsOf(program, Allocation, FirstWords(program, Allocation), offsets')
  BY <1>1, OffsetsAreComputed
<1> QED BY <1>2, <1>3, <1>4 DEF HaveWords

(* With these words the slots are disjoint.                                 *)
LEMMA WordsAreDisjoint == HaveWords => SlotsDisjoint
<1> SUFFICES ASSUME HaveWords, status = "success" PROVE SlotsDisjoint
  BY DEF SlotsDisjoint
<1>1. Complete
  BY DEF HaveWords
<1>2. PICK p, n, al, w, o : /\ p = program /\ n = next /\ al = Allocation
                            /\ w = FirstWords(program, Allocation) /\ o = offsets
  OBVIOUS
<1>3. IsOffsetsOf(p, al, w, o)
  BY <1>2 DEF HaveWords
<1>4. /\ Nested(p) /\ n = Len(p) + 1 /\ ParametersDifferBefore(p, n) /\ IsAllocation(p, n, al)
      /\ BeginsWords(p, al, w)
  BY <1>1, <1>2, AllocatedInScope DEF Complete
<1>5. {v.item : v \in {v \in DOMAIN o : ~v.isParameter}} = {i \in DOMAIN p : p[i].kind = "let"}
  BY <1>3, <1>4, LetsHaveOffsets
<1>6. ASSUME NEW v \in DOMAIN o PROVE o[v] \in 0..(ParamAndLocalCount(v.allocation) - 1)
  <2>1. o[v] \in 0..(WordsOf(p, al, w, v.allocation) - 1)
    BY <1>3, <1>4, OffsetInFunction
  <2>2. PICK s \in ScopesOf(p) : v \in ToSet(al[s])
    BY <1>3 DEF IsOffsetsOf
  <2>3. v.allocation = FunctionAround(p, s + 1)
    BY <1>4, <2>2, AllocatedOnce
  <2>4. s + 1 \in 1..(Len(p) + 1)
    BY <1>4, ScopeIsNested
  <2>5. v.allocation \in ScopesOf(p) /\ IsFunction(p, v.allocation)
    BY <1>4, <2>3, <2>4, FunctionsAroundAnItem DEF FunctionsAround
  <2>6. ParamAndLocalCount(v.allocation) = WordsOf(p, al, w, v.allocation)
    BY <1>1, <1>2, <2>5, FunctionWords
  <2> QED BY <2>1, <2>6
<1>7. \A f \in DOMAIN gathered : \A k \in DOMAIN gathered[f].parameters : o[gathered[f].parameters[k]] = k - 1
  BY <1>1, <1>2, <1>3, ParametersComeFirst
<1>8. ASSUME NEW u \in DOMAIN o, NEW v \in DOMAIN o, u # v, u.allocation = v.allocation,
             DeclaredIn(p, v) \in Around(p, u.item) \cup {DeclaredIn(p, u)}
      PROVE  o[u] # o[v]
  BY <1>3, <1>4, <1>8, OffsetsDiffer
<1> QED BY <1>2, <1>5, <1>6, <1>7, <1>8 DEF SlotsDisjoint

(* Neither pass gives words, and both gather as they should.                *)
LEMMA SlotInvariantStep ==
  Invariant /\ SlotInvariant /\ HaveWords /\ [Next]_vars => SlotInvariant' /\ HaveWords'
<1>1. SUFFICES ASSUME Invariant, SlotInvariant, HaveWords, [Next]_vars PROVE SlotInvariant' /\ HaveWords'
  OBVIOUS
<1>2. CASE UNCHANGED vars
  <2>1. UNCHANGED <<program, status, next, scopes, functionStack, variables, children,
                    outerFunction, resolved, gathered, referred, offsets>>
    BY <1>2 DEF vars, tree, results
  <2>2. SlotInvariant'
    BY <1>1, <2>1 DEF SlotInvariant, Active, SlotParts
  <2>3. Allocation' = Allocation /\ (Complete => Complete')
    BY <2>1 DEF Allocation, Complete
  <2>4. HaveWords'
    BY <1>1, <2>1, <2>3 DEF HaveWords
  <2> QED BY <2>2, <2>4
<1>3. CASE Next
  <2>1. (FirstPass /\ status = "first") \/ (SecondPass /\ status = "second")
    BY <1>3, Passes
  <2>2. ProgramPart /\ Parts /\ SlotParts
    BY <1>1, <2>1 DEF Invariant, SlotInvariant, Active
  <2>3. SlotInvariant'
    BY <2>1, <2>2, FirstPassSlots, SecondPassSlots DEF SlotInvariant
  <2>4. CASE ComputeVariableOffsets
    BY <2>2, <2>3, <2>4, WordsAreComputed
  <2>5. CASE ~ComputeVariableOffsets
    <3>1. status' # "success"
      BY <2>1, <2>5 DEF FirstPass, SecondPass, FirstVisitUse, FirstVisitLet, FirstVisitFunction,
         FirstVisitBody, FirstVisitElse, FirstVisitEnd, EndFirstPass, Stop,
         VisitVariableExpression, RejectUndeclared, VisitLetStatement, RejectLet,
         VisitFunctionStatement, RejectParameters, VisitBeginBody, VisitElse, VisitEnd, Reject
    <3> QED BY <2>3, <3>1 DEF HaveWords
  <2> QED BY <2>4, <2>5
<1> QED BY <1>1, <1>2, <1>3

(* Every function has all its variables once, each of them in a word of its *)
(* context, and two that can be used in the same code in different words.   *)
THEOREM SpecSlotsDisjoint == Spec => []SlotsDisjoint
<1>1. Init => SlotInvariant /\ HaveWords
  <2>1. Init => HaveWords
    BY DEF Init, HaveWords
  <2> QED BY <2>1, InitSlots DEF SlotInvariant
<1> QED BY <1>1, SlotInvariantStep, SpecInvariant, WordsAreDisjoint, PTL DEF Spec
=============================================================================
