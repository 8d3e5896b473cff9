----------------------------- MODULE ObjectGraph -----------------------------
(***************************************************************************)
(* What the memory manager promises the compiled program, with no address,  *)
(* chunk or collector in it.  The heap is a finite graph: an object is an   *)
(* identity with a function from field numbers to values, and a value is    *)
(* <<"object", id>> or <<"word", w>>.  The program holds values in roots.   *)
(*                                                                          *)
(* Pointers cannot be forged: a value that appears in a root or a field was *)
(* held by a root, or by a field of an object a root refers to, or is the   *)
(* object just allocated.  A collection changes no root and no field and    *)
(* removes precisely the objects the roots do not reach.                    *)
(***************************************************************************)

VARIABLES
  objects,   \* identity -> (field number -> value), for the allocated objects
  roots      \* location -> value, for the locations the program can read

vars == <<objects, roots>>

IsWord(v) == v[1] = "word"
Held == {roots[l] : l \in DOMAIN roots}
HeldObjects == {i \in DOMAIN objects : <<"object", i>> \in Held}
Loadable == UNION {{objects[i][k] : k \in DOMAIN objects[i]} : i \in HeldObjects}
Known(v) == IsWord(v) \/ v \in Held \/ v \in Loadable

Successors(i) ==
  {j \in DOMAIN objects : \E k \in DOMAIN objects[i] : objects[i][k] = <<"object", j>>}

(* The objects the roots reach: the least set that holds the objects of the *)
(* roots and is closed under the fields.                                    *)
Closed(S) == HeldObjects \subseteq S /\ \A i \in S : Successors(i) \subseteq S
Reachable ==
  {i \in DOMAIN objects : \A S \in SUBSET DOMAIN objects : Closed(S) => i \in S}

Init ==
  /\ \A i \in DOMAIN objects, j \in DOMAIN objects : i = j
  /\ \A i \in DOMAIN objects : \A k \in DOMAIN objects[i] : IsWord(objects[i][k])
  /\ \A l \in DOMAIN roots : IsWord(roots[l]) \/ roots[l] \in {<<"object", i>> : i \in DOMAIN objects}

(* The program copies values between its roots and changes at most one      *)
(* field of one object it holds.                                            *)
ProgramStep ==
  /\ \A l \in DOMAIN roots' : Known(roots'[l])
  /\ DOMAIN objects' = DOMAIN objects
  /\ \/ objects' = objects
     \/ \E i \in HeldObjects : \E k \in DOMAIN objects[i] :
          /\ k \in DOMAIN objects'[i]
          /\ objects' = [objects EXCEPT ![i][k] = objects'[i][k]]
          /\ Known(objects'[i][k])

(* A new object is distinct from every other, its fields hold known values, *)
(* and no other object changes.                                             *)
Allocate ==
  \E i \in DOMAIN objects' \ DOMAIN objects :
    /\ DOMAIN objects' = DOMAIN objects \cup {i}
    /\ \A j \in DOMAIN objects : objects'[j] = objects[j]
    /\ \A k \in DOMAIN objects'[i] : Known(objects'[i][k])
    /\ \A l \in DOMAIN roots' : Known(roots'[l]) \/ roots'[l] = <<"object", i>>

(* The collection removes every unreachable object and nothing else.        *)
Collect ==
  /\ objects' = [i \in Reachable |-> objects[i]]
  /\ roots' = roots

Next == ProgramStep \/ Allocate \/ Collect

Spec == Init /\ [][Next]_vars
=============================================================================
