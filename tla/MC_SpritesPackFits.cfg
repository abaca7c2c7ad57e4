SPECIFICATION Spec
CONSTANTS
  MaxColours = 2
  MAX_OLD_SPRITES = 4
  UsesAlpha = {2}
  defpal <- MCdefpal
  Files <- MCFiles
  Options <- MCOptions
  Edits <- MCEdits
INVARIANT PackFits
CHECK_DEADLOCK FALSE
