\* A game that ends in the lines of its dialogs is never done with: violated.
SPECIFICATION Spec
CONSTANTS
    OLD_SPRITES = 3
    CELLS <- MCCells
    OBJECTS <- MCObjects
    CONTENTS <- MCContents
    TARGETS <- MCTargets
    COMMANDS <- MCCommands
    JUNK <- MCJunk
    MAX_RUNS = 1
    MAX_CLOCK = 2
PROPERTY BonusSkipped
CHECK_DEADLOCK FALSE
