--------------------------- MODULE ContextsInvariant --------------------------
(***************************************************************************)
(* The inductive invariant of Contexts.                                    *)
(*                                                                         *)
(* Two contexts of the interpreter may share one FunctionContext of the    *)
(* compiled code: a call through a variable reuses the context of the      *)
(* Function.  The newer of the two is then the current one, and only what  *)
(* current contexts hold is related to the heap.  The invariant says that  *)
(* calls in progress, the contexts around them and the functions in their  *)
(* variables are current.                                                  *)
(*                                                                         *)
(* A statement changes the state in several steps (it creates contexts,    *)
(* enters a call, stores a value, leaves a call), so the parts of the      *)
(* invariant take the state as arguments.                                  *)
(***************************************************************************)
EXTENDS Contexts

Names == Variables \cup InnerFunctions

InterpreterFunction == [statement : Functions, outer : Nat]
AllInterpreterValues ==
  ({"number"} \X Numbers) \cup {UNDEFINED}
    \cup ({"function"} \X [statement : InnerFunctions, outer : Nat])
Symbols == UNION {[D -> AllInterpreterValues] : D \in SUBSET Names}
InterpreterContext == [function : InterpreterFunction, symbols : Symbols]

AllHeapValues ==
  ({"number"} \X Numbers) \cup ({"function"} \X [code : InnerFunctions, context : Nat])
HeapWords == AllHeapValues \cup {UNSET}
Slots == UNION {[D -> HeapWords] : D \in SUBSET Variables}
HeapContext == [function : Functions, outer : Nat, slots : Slots, result : HeapWords]

Frame == [code : Functions, context : Nat]

(* Context c is the newest one with its FunctionContext.                    *)
Current(c, tw) == \A d \in DOMAIN tw : d > c => tw[d] # tw[c]

(* A function of the interpreter has an outer context, of the function      *)
(* around it.                                                               *)
ValueNested(value, cs) ==
  value[1] = "function" =>
    /\ value[2].outer \in DOMAIN cs
    /\ cs[value[2].outer].function.statement = Outer[value[2].statement]

(* A Function of the compiled code has a context made for its code.         *)
WordNested(word, hs) ==
  word \in {"function"} \X [code : InnerFunctions, context : Nat] =>
    /\ word[2].context \in DOMAIN hs
    /\ hs[word[2].context].function = word[2].code

(* SameValue, and the function is created in a current context.             *)
Same(value, word, hs, tw) ==
  CASE value[1] = "undefined" -> TRUE
    [] value[1] = "number" -> word = value
    [] value[1] = "function" ->
         /\ word # UNSET /\ word[1] = "function"
         /\ word[2].code = value[2].statement
         /\ hs[word[2].context].outer = tw[value[2].outer]
         /\ Current(value[2].outer, tw)

Types(cs, st, tg, hs, fr, tw) ==
  /\ cs \in Seq(InterpreterContext)
  /\ st \in Seq(Nat \ {0})
  /\ tg \in Seq(Targets \cup {NONE})
  /\ hs \in Seq(HeapContext)
  /\ fr \in Seq(Frame)
  /\ tw \in Seq(Nat \ {0})
  /\ Len(cs) > 0 /\ Len(hs) > 0 /\ Len(tw) = Len(cs)
  /\ Len(st) > 0 /\ Len(fr) = Len(st) /\ Len(tg) = Len(st) - 1

(* The contexts of the interpreter are nested as the functions are, and     *)
(* hold the hoisted functions.                                              *)
ContextsNested(cs) ==
  /\ cs[1].function = [statement |-> Main, outer |-> 0]
  /\ \A c \in DOMAIN cs : c # 1 =>
       /\ cs[c].function.statement \in InnerFunctions
       /\ cs[c].function.outer \in 1..(c - 1)
       /\ cs[cs[c].function.outer].function.statement = Outer[cs[c].function.statement]

SymbolsNested(cs) ==
  \A c \in DOMAIN cs :
    LET f == cs[c].function.statement
    IN /\ DOMAIN cs[c].symbols \subseteq VariablesOf(f) \cup InnerOf(f)
       /\ \A g \in InnerOf(f) :
            g \in DOMAIN cs[c].symbols
              /\ cs[c].symbols[g] = <<"function", [statement |-> g, outer |-> c]>>
       /\ \A x \in DOMAIN cs[c].symbols : ValueNested(cs[c].symbols[x], cs)

(* So are those of the compiled code.                                       *)
HeapNested(hs) ==
  /\ hs[1].function = Main /\ hs[1].outer = 0
  /\ \A k \in DOMAIN hs : k # 1 =>
       /\ hs[k].function \in InnerFunctions
       /\ hs[k].outer \in 1..(k - 1)
       /\ hs[hs[k].outer].function = Outer[hs[k].function]

WordsNested(hs) ==
  \A k \in DOMAIN hs :
    /\ DOMAIN hs[k].slots = VariablesOf(hs[k].function)
    /\ \A v \in DOMAIN hs[k].slots : WordNested(hs[k].slots[v], hs)
    /\ WordNested(hs[k].result, hs)

TwinsMatch(cs, hs, tw) ==
  /\ tw[1] = 1
  /\ \A c \in DOMAIN cs :
       /\ tw[c] \in DOMAIN hs
       /\ hs[tw[c]].function = cs[c].function.statement
       /\ c # 1 => hs[tw[c]].outer = tw[cs[c].function.outer]

FramesMatch(cs, st, fr, tw) ==
  /\ st[Len(st)] = 1
  /\ \A i \in DOMAIN st :
       /\ st[i] \in DOMAIN cs
       /\ Current(st[i], tw)
       /\ fr[i].code = cs[st[i]].function.statement
       /\ fr[i].context = tw[st[i]]

TargetsVisible(tg, fr) ==
  \A i \in DOMAIN tg : tg[i] # NONE => tg[i] \in Visible(fr[i + 1].code)

OutersCurrent(cs, tw) ==
  \A c \in DOMAIN cs : c # 1 /\ Current(c, tw) => Current(cs[c].function.outer, tw)

SymbolsMatch(cs, hs, tw) ==
  \A c \in DOMAIN cs : Current(c, tw) =>
    \A v \in DOMAIN cs[c].symbols \cap Variables :
      Same(cs[c].symbols[v], hs[tw[c]].slots[v], hs, tw)

Inv(cs, st, tg, hs, fr, tw) ==
  /\ Types(cs, st, tg, hs, fr, tw)
  /\ ContextsNested(cs)
  /\ SymbolsNested(cs)
  /\ HeapNested(hs)
  /\ WordsNested(hs)
  /\ TwinsMatch(cs, hs, tw)
  /\ FramesMatch(cs, st, fr, tw)
  /\ TargetsVisible(tg, fr)
  /\ OutersCurrent(cs, tw)
  /\ SymbolsMatch(cs, hs, tw)

Invariant == Inv(contexts, stack, targets, heapContexts, frames, twin)
=============================================================================
