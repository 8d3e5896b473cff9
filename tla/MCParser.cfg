\* The tables of the LL(1) parser, and every source of four kinds parsed with them.
SPECIFICATION Spec
CONSTANTS
  NONE = NONE
  Sources <- SomeSources
  KeptTokens <- Kept
INVARIANTS TablesExact AcceptsExactly GatherersBalanced NothingLost
PROPERTIES Terminates
CHECK_DEADLOCK FALSE
