------------------------------- MODULE Parser --------------------------------
(***************************************************************************)
(* The parser (src/parser.py) and the Gatherers that build the parse tree  *)
(* (src/grammar_rules.py), with the tables of GrammarDriver.               *)
(*                                                                         *)
(* The scanner is the environment: any token of a source's alphabet may    *)
(* come next, and eos comes at its length.  What a constructor makes of    *)
(* its items is abstracted to the tokens in it, by their positions.        *)
(***************************************************************************)
EXTENDS GrammarDriver

CONSTANTS
  Sources,      \* Kinds of sources: [tokens: their alphabet, length: bound on their tokens]
  KeptTokens    \* Tokens that no rule throws away

ASSUME ParserAssumption ==
  /\ Sources \subseteq [tokens: SUBSET Finals, length: Nat]
  /\ KeptTokens \subseteq Finals

VARIABLES
  stack,        \* Symbols still to come, the next one first
  ctorStack,    \* Gatherers: [rule, ix, gathered]
  source,       \* The kind of source that is parsed
  token,        \* The token the scanner gave last
  pos,          \* Its position in the source
  program,      \* The tokens of the parse tree, when it is complete
  success,
  kept,         \* The positions of the KeptTokens consumed (history)
  forms         \* What may still come after the tokens consumed (history)

parserVars == <<stack, ctorStack, source, token, pos, program, success, kept, forms>>
vars == <<driverVars, parserVars>>

-----------------------------------------------------------------------------
(* Gatherers.                                                               *)

NewGatherer(r) == [rule |-> r, ix |-> 0, gathered |-> <<>>]

AddInFront(gatherer, item) ==
  [gatherer EXCEPT !.ix = @ + 1,
     !.gathered = IF Rules[gatherer.rule].mask[gatherer.ix + 1] THEN item \o @ ELSE @]
Add(gatherer, item) ==
  [gatherer EXCEPT !.ix = @ + 1,
     !.gathered = IF Rules[gatherer.rule].mask[gatherer.ix + 1] THEN @ \o item ELSE @]

Done(gatherer) == gatherer.ix = Len(Rules[gatherer.rule].mask)

(* A Gatherer that is done gives its result to the one below it; the result *)
(* of the last one is the program.                                          *)
Gathered(gatherers, result) == [gatherers |-> gatherers, program |-> result]

GatherOnce(gatherers, item) ==
  LET top == Add(Head(gatherers), item)
  IN CASE ~Done(top) -> Gathered(<<top>> \o Tail(gatherers), program)
       [] Done(top) /\ Len(gatherers) = 1 -> Gathered(<<>>, top.gathered)
       [] OTHER -> Gathered(<<Add(gatherers[2], top.gathered)>> \o Tail(Tail(gatherers)), program)
RECURSIVE Gather(_, _)
Gather(gatherers, item) ==
  LET top == Add(Head(gatherers), item)
  IN CASE ~Done(top) -> Gathered(<<top>> \o Tail(gatherers), program)
       [] Done(top) /\ Len(gatherers) = 1 -> Gathered(<<>>, top.gathered)
       [] OTHER -> Gather(Tail(gatherers), top.gathered)

GatherItem(item) ==
  LET after == Gather(ctorStack, item)
  IN ctorStack' = after.gatherers /\ program' = after.program

-----------------------------------------------------------------------------
(* What the grammar allows, without the tables: the sequences of symbols    *)
(* that may follow, each starting with a token.                             *)

RECURSIVE Expand(_)
Expand(S) ==
  LET open == {f \in S : f # <<>> /\ Head(f) \in Nonfinals}
      Expansions(f) == {IF Right(r) = <<"epsilon">> THEN Tail(f) ELSE Right(r) \o Tail(f) :
                          r \in {r \in DOMAIN Rules : Rules[r].left = Head(f)}}
  IN IF open = {} THEN S ELSE Expand((S \ open) \cup UNION {Expansions(f) : f \in open})

AfterToken(S, t) == Expand({Tail(f) : f \in {f \in S : f # <<>> /\ Head(f) = t}})

-----------------------------------------------------------------------------
(* Parser.parse.                                                            *)

NextToken(s) ==
  /\ token' \in IF token = "eos" \/ pos >= s.length THEN {"eos"} ELSE s.tokens \cup {"eos"}
  /\ pos' = pos + 1

Start ==
  /\ phase = "parse" /\ token = NONE
  /\ \E s \in Sources : source' = s /\ NextToken(s)
  /\ UNCHANGED <<driverVars, stack, ctorStack, program, success, kept, forms>>

(* The loop goes on while the stack is not empty and nothing has failed.    *)
IsParsing == token # NONE /\ stack # <<>> /\ success # FALSE

SkipEpsilon ==
  /\ IsParsing /\ Head(stack) = "epsilon"
  /\ GatherItem(<<>>)
  /\ stack' = Tail(stack)
  /\ UNCHANGED <<driverVars, source, token, pos, success, kept, forms>>

Consume ==
  LET isKept == token \in KeptTokens
  IN /\ IsParsing /\ Head(stack) = token
     /\ stack' = Tail(stack)
     /\ GatherItem(IF isKept THEN <<pos>> ELSE <<>>)
     /\ NextToken(source)
     /\ kept' = IF isKept THEN Append(kept, pos) ELSE kept
     /\ forms' = AfterToken(forms, token)
     /\ UNCHANGED <<driverVars, source, success>>

Predict ==
  /\ IsParsing /\ <<Head(stack), token>> \in DOMAIN predictions
  /\ LET r == predictions[<<Head(stack), token>>]
     IN /\ stack' = Right(r) \o Tail(stack)
        /\ ctorStack' = IF Rules[r].mask = NoGatherer THEN ctorStack
                        ELSE <<NewGatherer(r)>> \o ctorStack
  /\ success' = TRUE
  /\ UNCHANGED <<driverVars, source, token, pos, program, kept, forms>>

Fail ==
  /\ IsParsing /\ Head(stack) \notin {"epsilon", token}
  /\ <<Head(stack), token>> \notin DOMAIN predictions
  /\ success' = FALSE
  /\ UNCHANGED <<driverVars, stack, ctorStack, source, token, pos, program, kept, forms>>

-----------------------------------------------------------------------------
Init ==
  /\ DriverInit
  /\ stack = <<"program">>
  /\ ctorStack = <<>>
  /\ source = NONE
  /\ token = NONE
  /\ pos = 0
  /\ program = NONE
  /\ success = NONE
  /\ kept = <<>>
  /\ forms = Expand({<<"program">>})

Next ==
  \/ DriverNext /\ UNCHANGED parserVars
  \/ Start
  \/ SkipEpsilon \/ Consume \/ Predict \/ Fail

(* One process runs the loops.                                              *)
Spec == Init /\ [][Next]_vars /\ WF_vars(Next)

-----------------------------------------------------------------------------
(* Properties.                                                              *)

(* A source is accepted if the grammar derives it, and rejected at the      *)
(* first token with which nothing derived from it can start (Parser.parse). *)
AcceptsExactly ==
  /\ success = FALSE => \A f \in forms : f = <<>> \/ Head(f) # token
  /\ stack = <<>> => success = TRUE /\ <<>> \in forms
  /\ \A t \in Finals : IsParsing /\ t = Head(stack) => \E f \in forms : f # <<>> /\ Head(f) = t

RECURSIVE SumOf(_)
SumOf(s) == IF s = <<>> THEN 0 ELSE Head(s) + SumOf(Tail(s))

(* Every symbol on the stack and every Gatherer but the last will fill one  *)
(* place of a Gatherer, and no full one is left on the stack: none waits    *)
(* for more items than come, and none gets an item when it is full          *)
(* (Gatherer.add would index past its mask).                                *)
GatherersBalanced ==
  /\ \A k \in DOMAIN ctorStack : ~Done(ctorStack[k])
  /\ ctorStack # <<>> =>
    SumOf([k \in DOMAIN ctorStack |-> Len(Rules[ctorStack[k].rule].mask) - ctorStack[k].ix])
      = Len(stack) + Len(ctorStack) - 1

(* Every name, literal and operator of the source is in the tree once, in   *)
(* its order (the masks of the rules, flatten_items and the functions that  *)
(* nest continuations).                                                     *)
NothingLost ==
  /\ ctorStack # <<>> =>
       FlattenSeq(Reverse([k \in DOMAIN ctorStack |-> ctorStack[k].gathered])) = kept
  /\ stack = <<>> => program = kept

(* The loops over the rules end, and so does parsing.                       *)
Terminates == <>(phase = "assertion" \/ success = FALSE \/ stack = <<>>)
=============================================================================
