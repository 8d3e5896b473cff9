\* Three one-element arrays and two registers: cycles, sharing, garbage, a
\* full chunk and out of memory.
SPECIFICATION Spec
CONSTANTS
  ChunkWords = 13
  StackWords = 4
  MaxSpills = 1
  PushedRegisters = 2
  ContextSlots = 0
  FunctionWords = 2
  ArraySizes = {1}
  SpillCounts = {1}
  PlainWords = {}
  Calls = {"array"}
  StressModes = {FALSE}
INVARIANTS TypeOK NoDanglingPointers WorklistComplete ForwardingConsistent OutOfMemoryIsReal
PROPERTIES  RequestServed
CHECK_DEADLOCK FALSE
