SPECIFICATION Spec
CONSTANTS
  Names = {"A", "B"}
  CondValues <- MCCondValues
  Balanced = TRUE
  MaxLines = 8
  MaxLevel = 4
  MaxIncludes = 2
INVARIANT CountersShape
INVARIANT UnterminatedIsReported
PROPERTY ImplementsCondStack
CHECK_DEADLOCK FALSE
