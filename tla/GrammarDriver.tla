---------------------------- MODULE GrammarDriver ----------------------------
(***************************************************************************)
(* The tables of the LL(1) parser (src/grammar.py): the loops of           *)
(* GrammarDriver.__init__ that compute FIRST, EPS, FOLLOW and PREDICT, one *)
(* step for each rule.                                                     *)
(***************************************************************************)
EXTENDS Grammar, Integers

CONSTANT NONE      \* No symbol

VARIABLES
  phase,           \* "first", "follow", "predict", "parse"; "assertion" on a conflict
  rule,            \* The rule that the loop handles next
  didSomething,
  canBeEpsilon,    \* The symbols that can be epsilon
  first,           \* first[X]: the finals that X can start with
  follow,          \* follow[X]: the finals that can come after X
  predictions      \* predictions[<<A, t>>]: the rule for A when the token is t

tables == <<canBeEpsilon, first, follow, predictions>>
driverVars == <<phase, rule, didSomething, tables>>

-----------------------------------------------------------------------------
Right(r) == Rules[r].right

CanBeEpsilon(X) == X \in canBeEpsilon

(* The symbols of right[i..j] can all be epsilon.                           *)
AllCanBeEpsilon(right, i, j) == \A k \in i..j : CanBeEpsilon(right[k])

(* A -> B C: first(B) is part of first(A), and so is first(C) of the first  *)
(* symbol C that cannot be epsilon.  The symbols between them are not       *)
(* looked at.                                                               *)
FirstOf(r) ==
  LET firstDefNonEpsilon == SelectInSeq(Right(r), LAMBDA X : ~CanBeEpsilon(X))
  IN IF Right(r) = <<"epsilon">> THEN {}
     ELSE first[Right(r)[1]]
            \cup IF firstDefNonEpsilon = 0 THEN {} ELSE first[Right(r)[firstDefNonEpsilon]]

(* What is added to follow(X) for the finals that start what comes after X  *)
(* in the rule, up to the first symbol that cannot be epsilon.              *)
FollowInRuleNextOnly(r, X) ==
  UNION {first[Right(r)[i + 1]] : i \in {i \in 1..(Len(Right(r)) - 1) : Right(r)[i] = X}}
FollowInRule(r, X) ==
  UNION {first[Right(r)[j]] : j \in {j \in DOMAIN Right(r) :
    \E i \in 1..(j - 1) : Right(r)[i] = X /\ AllCanBeEpsilon(Right(r), i + 1, j - 1)}}

EndsRule(r, X) ==
  \E i \in DOMAIN Right(r) : Right(r)[i] = X /\ AllCanBeEpsilon(Right(r), i + 1, Len(Right(r)))

FollowAfter(r) ==
  LET inRule == [X \in Symbols |-> follow[X] \cup FollowInRule(r, X)]
  IN [X \in Symbols |-> inRule[X] \cup IF EndsRule(r, X) THEN inRule[Rules[r].left] ELSE {}]

(* The tokens that predict rule r.                                          *)
PredictSetFromFirst(r) ==
  UNION {first[Right(r)[i]] : i \in {i \in DOMAIN Right(r) : AllCanBeEpsilon(Right(r), 1, i - 1)}}
PredictSet(r) ==
  UNION {first[Right(r)[i]] : i \in {i \in DOMAIN Right(r) : AllCanBeEpsilon(Right(r), 1, i - 1)}}
    \cup IF AllCanBeEpsilon(Right(r), 1, Len(Right(r))) THEN follow[Rules[r].left] ELSE {}

-----------------------------------------------------------------------------
(* One iteration over the rules, again if anything was added.               *)
AdvanceForever(added, nextPhase) ==
  /\ rule' = IF rule < Len(Rules) THEN rule + 1 ELSE 1
  /\ didSomething' = TRUE
  /\ UNCHANGED phase
Advance(added, nextPhase) ==
  LET did == didSomething \/ added
  IN IF rule < Len(Rules)
     THEN rule' = rule + 1 /\ didSomething' = did /\ UNCHANGED phase
     ELSE rule' = 1 /\ didSomething' = FALSE /\ phase' = IF did THEN phase ELSE nextPhase

HandleFirst ==
  LET A == Rules[rule].left
  IN /\ phase = "first"
     /\ first' = [first EXCEPT ![A] = @ \cup FirstOf(rule)]
     /\ canBeEpsilon' = canBeEpsilon
          \cup IF AllCanBeEpsilon(Right(rule), 1, Len(Right(rule))) THEN {A} ELSE {}
     /\ Advance(first' # first \/ canBeEpsilon' # canBeEpsilon, "follow")
     /\ UNCHANGED <<follow, predictions>>

HandleFollow ==
  /\ phase = "follow"
  /\ follow' = FollowAfter(rule)
  /\ Advance(follow' # follow, "predict")
  /\ UNCHANGED <<canBeEpsilon, first, predictions>>

HandlePredict ==
  LET A == Rules[rule].left
      predicted == {<<A, t>> : t \in PredictSet(rule)}
  IN /\ phase = "predict"
     /\ predictions' = [p \in predicted |-> rule] @@ predictions
     /\ IF predicted \cap DOMAIN predictions # {}
        THEN phase' = "assertion" /\ UNCHANGED <<rule, didSomething>>
        ELSE Advance(FALSE, "parse")
     /\ UNCHANGED <<canBeEpsilon, first, follow>>

DriverInit ==
  /\ phase = "first"
  /\ rule = 1
  /\ didSomething = FALSE
  /\ canBeEpsilon = {"epsilon"} \cup {Rules[r].left : r \in {r \in DOMAIN Rules : Right(r) = <<"epsilon">>}}
  /\ first = [X \in Symbols |-> IF X \in Finals THEN {X} ELSE {}]
  /\ follow = [X \in Symbols |-> {}]
  /\ predictions = <<>>

DriverNext == HandleFirst \/ HandleFollow \/ HandlePredict

-----------------------------------------------------------------------------
(* The tables, defined by what they mean.                                   *)

RECURSIVE NullableFrom(_)
NullableFrom(S) ==
  LET more == S \cup {Rules[r].left : r \in {r \in DOMAIN Rules : ToSet(Right(r)) \subseteq S}}
  IN IF more = S THEN S ELSE NullableFrom(more)

(* The symbols that derive the empty sequence.                              *)
Nullable == NullableFrom({"epsilon"})

NullableBetween(r, i, j) == \A k \in i..j : Right(r)[k] \in Nullable

RECURSIVE ReachableFrom(_, _)
ReachableFrom(edges, S) ==
  LET more == S \cup {e[2] : e \in {e \in edges : e[1] \in S}}
  IN IF more = S THEN S ELSE ReachableFrom(edges, more)

(* <<A, X>>: something derived from A starts with X.                        *)
Starts == UNION {{<<Rules[r].left, Right(r)[i]>> :
                    i \in {i \in DOMAIN Right(r) : NullableBetween(r, 1, i - 1)}} : r \in DOMAIN Rules}

(* <<X, A>>: something derived from A ends with X.                          *)
Ends == UNION {{<<Right(r)[i], Rules[r].left>> :
                  i \in {i \in DOMAIN Right(r) : NullableBetween(r, i + 1, Len(Right(r)))}} : r \in DOMAIN Rules}

(* <<X, Y>>: Y can come directly after X in a rule.                         *)
Neighbours == UNION {{<<Right(r)[ij[1]], Right(r)[ij[2]]>> :
                 ij \in {ij \in (DOMAIN Right(r)) \X (DOMAIN Right(r)) :
                           ij[1] < ij[2] /\ NullableBetween(r, ij[1] + 1, ij[2] - 1)}} : r \in DOMAIN Rules}

FirstFinals == [X \in Symbols |-> ReachableFrom(Starts, {X}) \cap Finals]

FollowFinals ==
  [X \in Symbols |-> UNION {FirstFinals[n[2]] :
     n \in {n \in Neighbours : n[1] \in ReachableFrom(Ends, {X})}}]

(* The rules for A that can lead to the token t.                            *)
RulesFor(A, t) ==
  {r \in DOMAIN Rules : Rules[r].left = A /\
     \/ \E i \in DOMAIN Right(r) : NullableBetween(r, 1, i - 1) /\ t \in FirstFinals[Right(r)[i]]
     \/ NullableBetween(r, 1, Len(Right(r))) /\ t \in FollowFinals[A]}

RulesForAll == [p \in Nonfinals \X Finals |-> RulesFor(p[1], p[2])]

(* The tables have least fixpoints for this grammar, although the FIRST     *)
(* loop looks at two symbols of a rule only; and the grammar is LL(1), so   *)
(* that no assertion fails (GrammarDriver.__init__).                        *)
TablesExact ==
  /\ phase # "assertion"
  /\ phase # "first" =>
       canBeEpsilon = Nullable /\ first = FirstFinals
  /\ phase \in {"predict", "parse"} => follow = FollowFinals
  /\ phase = "parse" =>
       RulesForAll = [p \in Nonfinals \X Finals |->
                        IF p \in DOMAIN predictions THEN {predictions[p]} ELSE {}]
=============================================================================
