SPECIFICATION Spec
CONSTANTS
  LineRoom = 4
  Page = 3
  EscapeSize = 8
  StringSize = 5
  DataLines <- MCDataLines
  TextLines <- MCTextLines
  MaxLines = 4
INVARIANT TypeOK
INVARIANT BuffersInside
INVARIANT JumpsLand
INVARIANT OperandsResolve
INVARIANT ImportsUsed
INVARIANT ListingAssembles
INVARIANT SameObject
CHECK_DEADLOCK FALSE
