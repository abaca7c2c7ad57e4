SPECIFICATION Spec
CONSTANTS
  Labels = {"L"}
  Page = 16
  EnvWords = 13
  StackWords = 16
  MaxLines = 3
  MaxCommands = 3
  MaxMem = 48
INVARIANT TypeOK
INVARIANT CodeKept
INVARIANT RefsWait
INVARIANT BreakpointsStay
INVARIANT RunsInstructions
CHECK_DEADLOCK FALSE
