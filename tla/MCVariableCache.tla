--------------------------- MODULE MCVariableCache ---------------------------
(* Values for the constants of VariableCache that a .cfg cannot write.      *)
EXTENDS VariableCache

Direct(parameters) == [kind |-> "call", callee |-> <<>>, parameters |-> parameters]
Indirect(variable, parameters) ==
  [kind |-> "call", callee |-> <<variable>>, parameters |-> parameters]

Reads == {<<v>> : v \in Variables}
Constant == {<<>>}
ReadsAndConstant == Reads \cup Constant
CallBetween == {<<v, CALL>> : v \in Variables}
ReadsAndCallBetween == ReadsAndConstant \cup CallBetween
DirectCalls == {Direct(<<s>>) : s \in Reads}
AnyCalls == {Direct(<<>>)} \cup {Indirect(v, <<>>) : v \in Variables}
              \cup {Indirect(v, <<<<w>>>>) : v, w \in Variables}
CallsOfCalls == {Indirect(v, <<<<CALL>>>>) : v \in Variables}
=============================================================================
