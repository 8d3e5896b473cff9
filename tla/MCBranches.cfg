\* Nested if, else, while and return statements over one variable, which calls
\* between them may change.
SPECIFICATION Spec
CONSTANTS
  CALL = CALL
  ELEMENT = ELEMENT
  Variables = {"x"}
  Targets = {"x"}
  Assignments <- ReadsAndConstant
  Conditions <- Reads
  Calls <- DirectCalls
  Constructs = {"if", "else", "while", "return"}
  LoopsInBranches = FALSE
  MaxItems = 6
  Shared = {"x"}
INVARIANTS TypeOK FreshReads FollowsSource CacheHolds
PROPERTIES ReachesNextEvent
CHECK_DEADLOCK FALSE
