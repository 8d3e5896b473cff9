\* A loop that changes a variable, inside an if statement that has read it.
SPECIFICATION Spec
CONSTANTS
  CALL = CALL
  ELEMENT = ELEMENT
  Variables = {"x"}
  Targets = {"x"}
  Assignments <- Constant
  Conditions <- Reads
  Calls <- DirectCalls
  Constructs = {"if", "while"}
  LoopsInBranches = TRUE
  MaxItems = 6
  Shared = {}
INVARIANT FreshReads
CHECK_DEADLOCK FALSE
