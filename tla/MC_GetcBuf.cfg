SPECIFICATION Spec
CONSTANTS
  Size = 4
  MaxLen = 5
  PastEnd = 2
  EOF = "EOF"
  Zero = "Zero"
  Char <- MCChar
  Streams <- MCStreams
  Markers <- MCMarkers
INVARIANT RingHoldsLast
INVARIANT AssertsHold
PROPERTY ReadsAsCursor
