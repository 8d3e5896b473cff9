------------------------------- MODULE Grammar -------------------------------
(***************************************************************************)
(* The grammar of the language (src/grammar_rules.py), in the order of the *)
(* dictionary that GrammarDriver keeps it in: the rules of a nonfinal are  *)
(* together.  Tokens have their names without "token_".                    *)
(***************************************************************************)
EXTENDS Sequences, SequencesExt

(* A rule replaces its left side by its right side.  Its Gatherer is told   *)
(* of an item for every symbol of the right side, and keeps those that its  *)
(* mask says; a rule without a Gatherer passes its item on.                 *)
Rule(left, right, mask) == [left |-> left, right |-> right, mask |-> mask]
NoGatherer == <<>>

LOCAL T == TRUE
LOCAL F == FALSE

Rules == <<
  Rule("program", <<"statement_list", "eos">>, <<T, F>>),
  Rule("statement_list", <<"epsilon">>, NoGatherer),
  Rule("statement_list", <<"statement", "statement_list">>, <<T, T>>),
  Rule("statement",
    <<"identifier_or_array_or_function_call", "assignment_continuation">>,
    <<T, T>>),
  Rule("statement",
    <<"keyword_let", "identifier", "maybe_type", "assign", "expression", "semicolon">>,
    <<F, T, T, F, T, F>>),
  Rule("statement",
    <<"keyword_function", "identifier", "left_paren", "formal_parameter_list",
      "right_paren", "maybe_type", "left_curly", "statement_list", "right_curly">>,
    <<F, T, F, T, F, T, F, T, F>>),
  Rule("statement", <<"keyword_return", "expression_or_none", "semicolon">>, <<F, T, F>>),
  Rule("statement",
    <<"keyword_if", "left_paren", "bool_expression", "right_paren", "left_curly",
      "statement_list", "right_curly", "maybe_else_if">>,
    <<F, F, T, F, F, T, F, T>>),
  Rule("statement",
    <<"keyword_while", "left_paren", "bool_expression", "right_paren", "left_curly",
      "statement_list", "right_curly">>,
    <<F, F, T, F, F, T, F>>),
  Rule("assignment_continuation", <<"assign", "expression", "semicolon">>, <<F, T, F>>),
  Rule("assignment_continuation", <<"semicolon">>, <<F>>),
  Rule("maybe_type", <<"epsilon">>, NoGatherer),
  Rule("maybe_type", <<"colon", "type">>, <<F, T>>),
  Rule("type", <<"identifier", "maybe_type_template_continuation">>, <<T, T>>),
  Rule("type",
    <<"left_bracket", "type_list", "right_bracket", "arrow", "type">>,
    <<F, T, F, F, T>>),
  Rule("maybe_type_template_continuation", <<"epsilon">>, NoGatherer),
  Rule("maybe_type_template_continuation", <<"less_than", "type", "greater_than">>, <<F, T, F>>),
  Rule("type_list", <<"epsilon">>, NoGatherer),
  Rule("type_list", <<"type", "type_list_continuation">>, <<T, T>>),
  Rule("type_list_continuation", <<"epsilon">>, NoGatherer),
  Rule("type_list_continuation", <<"comma", "type", "type_list_continuation">>, <<F, T, T>>),
  Rule("expression_or_none", <<"epsilon">>, NoGatherer),
  Rule("expression_or_none", <<"expression">>, <<T>>),
  Rule("formal_parameter_list", <<"epsilon">>, NoGatherer),
  Rule("formal_parameter_list",
    <<"identifier", "maybe_type", "formal_parameter_list_continuation">>,
    <<T, T, T>>),
  Rule("formal_parameter_list_continuation", <<"epsilon">>, NoGatherer),
  Rule("formal_parameter_list_continuation",
    <<"comma", "identifier", "maybe_type", "formal_parameter_list_continuation">>,
    <<F, T, T, T>>),
  Rule("maybe_else_if", <<"keyword_else", "maybe_else_if_continuation">>, <<F, T>>),
  Rule("maybe_else_if", <<"epsilon">>, NoGatherer),
  Rule("maybe_else_if_continuation",
    <<"keyword_if", "left_paren", "bool_expression", "right_paren", "left_curly",
      "statement_list", "right_curly", "maybe_else_if">>,
    <<F, F, T, F, F, T, F, T>>),
  Rule("maybe_else_if_continuation",
    <<"left_curly", "statement_list", "right_curly">>,
    <<F, T, F>>),
  Rule("bool_expression", <<"expression", "bool_op", "expression">>, <<T, T, T>>),
  Rule("expression",
    <<"keyword_new", "identifier", "left_paren", "parameter_list", "right_paren">>,
    <<F, T, F, T, F>>),
  Rule("expression", <<"add_term", "add_term_tail">>, <<T, T>>),
  Rule("add_term_tail", <<"epsilon">>, NoGatherer),
  Rule("add_term_tail", <<"add_op", "add_term", "add_term_tail">>, <<T, T, T>>),
  Rule("add_term", <<"mul_term", "mul_term_tail">>, <<T, T>>),
  Rule("mul_term_tail", <<"epsilon">>, NoGatherer),
  Rule("mul_term_tail", <<"mul_op", "mul_term", "mul_term_tail">>, <<T, T, T>>),
  Rule("mul_term", <<"number">>, <<T>>),
  Rule("mul_term", <<"string">>, <<T>>),
  Rule("mul_term", <<"identifier_or_array_or_function_call">>, <<T>>),
  Rule("mul_term", <<"left_paren", "expression", "right_paren">>, <<F, T, F>>),
  Rule("parameter_list", <<"epsilon">>, NoGatherer),
  Rule("parameter_list", <<"expression", "parameter_list_continuation">>, <<T, T>>),
  Rule("parameter_list_continuation", <<"epsilon">>, NoGatherer),
  Rule("parameter_list_continuation",
    <<"comma", "expression", "parameter_list_continuation">>,
    <<F, T, T>>),
  Rule("add_op", <<"plus">>, <<T>>),
  Rule("add_op", <<"minus">>, <<T>>),
  Rule("mul_op", <<"multiplication">>, <<T>>),
  Rule("mul_op", <<"division">>, <<T>>),
  Rule("bool_op", <<"equals">>, <<T>>),
  Rule("bool_op", <<"not_equals">>, <<T>>),
  Rule("bool_op", <<"less_than">>, <<T>>),
  Rule("bool_op", <<"less_or_equals">>, <<T>>),
  Rule("bool_op", <<"greater_than">>, <<T>>),
  Rule("bool_op", <<"greater_or_equals">>, <<T>>),
  Rule("identifier_or_array_or_function_call",
    <<"identifier", "array_or_function_call_continuation">>,
    <<T, T>>),
  Rule("array_or_function_call_continuation", <<"epsilon">>, NoGatherer),
  Rule("array_or_function_call_continuation",
    <<"left_bracket", "expression", "right_bracket",
      "array_or_function_call_continuation">>,
    <<F, T, F, T>>),
  Rule("array_or_function_call_continuation",
    <<"left_paren", "parameter_list", "right_paren",
      "array_or_function_call_continuation">>,
    <<F, T, F, T>>)
>>

Nonfinals == {Rules[r].left : r \in DOMAIN Rules}
Symbols == Nonfinals \cup UNION {ToSet(Rules[r].right) : r \in DOMAIN Rules}
Finals == Symbols \ (Nonfinals \cup {"epsilon"})
=============================================================================
