---------------------------- MODULE LexicalScoping ----------------------------
(***************************************************************************)
(* The scoping rules of the language, stated on a program p alone.          *)
(*                                                                         *)
(* A program is a sequence of items: declarations, uses of names, and the  *)
(* beginnings and ends of bodies.  A body is named by the item that begins *)
(* it, the top level by 0.                                                 *)
(***************************************************************************)
EXTENDS Integers, Sequences, SequencesExt

CONSTANTS
  Names,
  Builtins         \* The names of builtin functions

ASSUME BuiltinsAssumption == Builtins \subseteq Names /\ IsFiniteSet(Builtins)

TopScope == 0

Begins == {"function", "if", "else", "while"}
Ends == {"else", "end"}

(* Bodies that are open before item i, and inside the body that b begins.   *)
BegunBefore(p, i) == {j \in 1..(i - 1) : p[j].kind \in Begins}
EndedBefore(p, i) == {j \in 1..(i - 1) : p[j].kind \in Ends}
Level(p, i) == Cardinality(BegunBefore(p, i)) - Cardinality(EndedBefore(p, i))
LevelInside(p, b) == Level(p, b + 1)

(* The bodies around item i, with the top level.                            *)
Around(p, i) ==
  {TopScope} \cup {b \in BegunBefore(p, i) :
    \A j \in EndedBefore(p, i) : b < j => Level(p, j) # LevelInside(p, b)}

Body(p, i) == Max(Around(p, i))
IsFunction(p, b) == b = TopScope \/ p[b].kind = "function"
FunctionAround(p, i) == Max({b \in Around(p, i) : IsFunction(p, b)})

(* Names are declared in a body by let statements, functions and parameters.*)
ParametersOf(p, b) == IF b = TopScope THEN <<>> ELSE p[b].parameters
DeclarationsIn(p, b, name) ==
  {j \in DOMAIN p : p[j].kind \in {"let", "function"} /\ p[j].name = name /\ Body(p, j) = b}
    \cup {-k : k \in {k \in DOMAIN ParametersOf(p, b) : ParametersOf(p, b)[k] = name}}
    \cup {j \in {0} : b = TopScope /\ name \in Builtins}

(* A function is declared in all of its body, a variable after its let.     *)
DeclaredBefore(p, i, b, name) ==
  {j \in DeclarationsIn(p, b, name) : j <= i \/ p[j].kind = "function"}

(* The body and the declaration that a use of a name at item i refers to.   *)
Meaning(p, i) ==
  LET bs == {b \in Around(p, i) : DeclaredBefore(p, i, b, p[i].name) # {}}
  IN IF bs = {} THEN {}
     ELSE {<<Max(bs), j>> : j \in DeclaredBefore(p, i, Max(bs), p[i].name)}

IsRedeclared(p) ==
  \E b \in {TopScope} \cup DOMAIN p, name \in Names :
    Cardinality(DeclarationsIn(p, b, name)) > 1

IsUndeclared(p) == \E i \in DOMAIN p : p[i].kind = "use" /\ Meaning(p, i) = {}
=============================================================================
