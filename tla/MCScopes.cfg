\* Every source of six items: lets, uses, functions with up to two parameters,
\* if and while statements, with a let in those of the top level only, and a
\* builtin of a known name.
SPECIFICATION Spec
CONSTANTS
  Names = {"x", "print"}
  Builtins = {"print"}
  ParameterLists <- NoneOneOrTwo
  Constructs = {"if", "while"}
  LetsInSubscopes = FALSE
  NONE = NONE
  MaxItems = 6
INVARIANTS TypeOK ResolvesLexically RejectsExactly CapturesAreKnown SlotsDisjoint
CHECK_DEADLOCK FALSE
