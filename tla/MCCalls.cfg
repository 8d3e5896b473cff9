\* Two variables and elements of arrays; calls inside expressions and through
\* variables; no call changes a variable.
SPECIFICATION Spec
CONSTANTS
  CALL = CALL
  ELEMENT = ELEMENT
  Variables = {"x", "y"}
  Targets = {"x", ELEMENT}
  Assignments <- ReadsAndCallBetween
  Conditions <- Reads
  Calls <- AnyCalls
  Constructs = {"if", "else", "while"}
  LoopsInBranches = FALSE
  MaxItems = 4
  Shared = {}
INVARIANTS FreshReads FollowsSource
CHECK_DEADLOCK FALSE
