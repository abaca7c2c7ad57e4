SPECIFICATION Spec
CONSTANTS
  MaxColours = 2
  MAX_OLD_SPRITES = 4
  UsesAlpha = {2}
  defpal <- MCdefpal
  Files <- MCFiles
  Options <- MCOptions
  Edits <- MCEdits
INVARIANT TocCovers
INVARIANT ExtractedIsStored
INVARIANT TgaFits
INVARIANT RepackSame
INVARIANT IndexMatches
CHECK_DEADLOCK FALSE
