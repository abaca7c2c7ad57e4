SPECIFICATION Spec
CONSTANTS
  a = a
  b = b
  c = c
  d = d
  v = v
  w = w
  Keys = {a, b, c, d}
  Values = {v, w}
  keyhash <- MCkeyhash
  NoKey = NoKey
  NoData = NoData
  Tomb = 7777
  MinSize = 2
  Sizes = {2, 4, 8}
  FirstSizes = {1, 4}
  Blind = FALSE
INVARIANT LoadCounted
INVARIANT ProbeEnds
PROPERTY ImplementsMap
