SPECIFICATION Spec
CONSTANTS
  a = a
  long = long
  x = x
  y = y
  z = z
  Names = {a, long}
  strlen <- MCstrlen
  MaxLen = 21
  MinAlloc = 64
  Fill = Fill
  CLIB = CLIB
  Sig = Sig
  Missing = Missing
  DataFileName = 3
  NameLimit = 20
  MaxFiles = 2
  Contents <- MCContents
  Stubs <- MCStubs
  Infos <- MCInfos
  MaxChanges = 1
INVARIANT TypeOK
INVARIANT StoreInside
INVARIANT OffsetsTile
INVARIANT PackWhole
INVARIANT ExtractedIsCopied
INVARIANT RepackSame
CHECK_DEADLOCK FALSE
