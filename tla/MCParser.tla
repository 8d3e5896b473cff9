------------------------------ MODULE MCParser -------------------------------
(* Sources for Parser: any statement up to four tokens, and longer ones of  *)
(* expressions, of control flow, and of functions and their types.          *)
EXTENDS Parser

Kept == {"plus", "division", "equals", "identifier", "number"}

AnyStatement ==
  [tokens |-> Kept \cup
     {"left_paren", "right_paren", "left_curly", "right_curly", "left_bracket", "right_bracket",
      "assign", "semicolon", "comma", "colon", "less_than", "greater_than", "arrow",
      "keyword_let", "keyword_function", "keyword_return", "keyword_if", "keyword_else",
      "keyword_while", "keyword_new"},
   length |-> 4]

Expressions ==
  [tokens |-> {"identifier", "plus", "division", "left_paren", "right_paren", "left_bracket",
               "right_bracket", "comma", "assign", "semicolon", "keyword_new"},
   length |-> 6]

ControlFlow ==
  [tokens |-> {"keyword_if", "keyword_else", "keyword_while", "left_paren", "right_paren",
               "left_curly", "right_curly", "identifier", "less_than"},
   length |-> 11]

Functions ==
  [tokens |-> {"keyword_function", "keyword_return", "identifier", "colon", "less_than",
               "greater_than", "left_paren", "right_paren", "left_curly", "right_curly",
               "semicolon"},
   length |-> 8]

SomeSources == {AnyStatement, Expressions, ControlFlow, Functions}
=============================================================================
