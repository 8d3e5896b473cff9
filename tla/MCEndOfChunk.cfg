\* A one-element array at the very end of the chunk.
SPECIFICATION Spec
CONSTANTS
  ChunkWords = 12
  StackWords = 4
  MaxSpills = 1
  PushedRegisters = 2
  ContextSlots = 0
  FunctionWords = 2
  ArraySizes = {1}
  SpillCounts = {1}
  PlainWords = {}
  Calls = {"array"}
  StressModes = {FALSE}
INVARIANT NoDanglingPointers
CHECK_DEADLOCK FALSE
