\* A function inside a function: parameters, locals and outer variables, functions
\* as values, calls by name and through a variable, of the compiled code and of
\* the interpreter.
SPECIFICATION Spec
SYMMETRY NumberSymmetry
CONSTANTS
  Functions = {"main", "outer", "inner"}
  Main = "main"
  Outer <- OneInner
  Variables = {"a", "x", "y"}
  Scope <- OneInnerScope
  Parameters = {"x"}
  Numbers = {n1, n2}
  NONE = NONE
  Assigned <- NumberOrFunction
  Arguments <- AnyNumber
  Returned <- LocalOrFunction
  Targets = {"a"}
  UNSET = UNSET
  MaxContexts = 4
  MaxCalls = 3
  OverlappingCalls = FALSE
INVARIANTS TypeOK SameValues LexicalChain
CHECK_DEADLOCK FALSE
