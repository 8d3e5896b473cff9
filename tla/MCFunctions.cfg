\* --gc-stress, main with a spilled temporary or with one call: function contexts
\* with their outer contexts, Function objects and handles, a collection before
\* every allocation, and the builtin that forces one.
SPECIFICATION Spec
CONSTANTS
  ChunkWords = 16
  StackWords = 6
  MaxSpills = 2
  PushedRegisters = 1
  ContextSlots = 1
  FunctionWords = 2
  ArraySizes = {}
  SpillCounts = {1, 2}
  PlainWords <- Strings
  Calls = {"context", "function", "test_do_gc"}
  StressModes = {TRUE}
INVARIANTS GraphInvariant HeapLayout CopyFits
 
CHECK_DEADLOCK FALSE
