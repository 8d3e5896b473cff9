\* Branches, loops, sums with calls in them, elements of arrays and calls
\* through variables, with the three registers of the machine.
SPECIFICATION Spec
CONSTANTS
  CALL = CALL
  ELEMENT = ELEMENT
  NO_REGISTER = NO_REGISTER
  Variables = {"x", "y"}
  Targets = {"x", ELEMENT}
  Assignments <- SumWithCall
  Conditions <- Read
  Calls <- CallOfRead
  Constructs = {"if", "else", "while"}
  LoopsInBranches = FALSE
  MaxItems = 4
  Operators = {"add"}
  RealRegisters <- RegistersOfMachine
INVARIANTS TypeOK ReadsItsValue ProperColouring RegisterIsFound ReplacementsStay
CHECK_DEADLOCK FALSE
