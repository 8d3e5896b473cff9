\* Straight-line programs of four instructions and loops, optimised, and
\* control flow graphs of two to four blocks, analysed.
SPECIFICATION Spec
CONSTANTS
  NONE = NONE
  ARG = ARG
  Sources <- SomeSources
  Args = {"x", "y"}
  ArgValues = {0, 2}
  Fuel = 20
INVARIANTS SameOutput DefinedVariablesExact  DominatorsSound
CHECK_DEADLOCK FALSE
