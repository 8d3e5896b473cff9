--------------------------- MODULE MCRealAssembler ---------------------------
(* Values for the constants of RealAssembler that a .cfg cannot write.      *)
EXTENDS RealAssembler

RegistersOfMachine == <<"ebx", "ecx", "edx">>

Indirect(variable, parameters) ==
  [kind |-> "call", callee |-> <<variable>>, parameters |-> parameters]

Read == {<<"x">>}
SumWithCall == {<<"x", CALL, "y">>}
SumAndQuotient == {<<"y", "x", "y">>}
CallOfRead == {Indirect("x", <<<<"y">>>>)}
CallOfSum == {Indirect("x", <<<<"y", "y">>>>)}
=============================================================================
