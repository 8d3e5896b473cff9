-------------------------- MODULE MCScopeAnalyser ----------------------------
(* Parameter lists for ScopeAnalyser.                                       *)
EXTENDS ScopeAnalyser

NoneOrOne == {<<>>, <<"x">>}
NoneOneOrTwo == {<<>>, <<"x">>, <<"x", "x">>}
=============================================================================
