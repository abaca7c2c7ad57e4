SPECIFICATION Spec
CONSTANTS
    OLD_SPRITES = 3
    CELLS <- MCCells
    OBJECTS <- MCObjects
    CONTENTS <- MCContents
    TARGETS <- MCTargets
    COMMANDS <- MCCommands
    JUNK <- MCJunk
    MAX_RUNS = 1
    MAX_CLOCK = 2
INVARIANT PrefixApplied
INVARIANT RoomKept
INVARIANT ExtractedAreScripts
INVARIANT FlagsCleared
PROPERTY ToolEnds
CHECK_DEADLOCK FALSE
