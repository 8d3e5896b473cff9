\* A let statement in the body of an if or while statement of a function.
SPECIFICATION Spec
CONSTANTS
  Names = {"x", "print"}
  Builtins = {"print"}
  ParameterLists <- NoneOrOne
  Constructs = {"if", "while"}
  LetsInSubscopes = TRUE
  NONE = NONE
  MaxItems = 5
INVARIANTS NoAssertionFails
CHECK_DEADLOCK FALSE
