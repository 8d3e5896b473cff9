----------------------------- MODULE MCContexts ------------------------------
(* A program for Contexts, and the expressions in it:                       *)
(*   function outer(x) { let y ...; function inner() { ... } ... }          *)
(* and a variable a of the top level.                                       *)
EXTENDS Contexts

OneInner == ("outer" :> "main") @@ ("inner" :> "outer")
OneInnerScope == ("a" :> "main") @@ ("x" :> "outer") @@ ("y" :> "outer")

NumberOrFunction == ({"number"} \X Numbers) \cup {<<"function", "inner">>}
OuterFunction == {<<"function", "outer">>}
AnyNumber == {"number"} \X Numbers
LocalOrFunction == {<<"variable", "y">>, <<"function", "inner">>}

(* Numbers are only copied.                                                 *)
NumberSymmetry == Permutations(Numbers)
=============================================================================
