SPECIFICATION FairSpec
CONSTANTS
    CPU <- MCCPU
    Boot = 0
    SIZE = 2
    WORD = 4
    FIFO = 2
    Args <- MCArgs
    Callers <- MCCallers
    Typed <- MCTyped
    None = None
INVARIANTS BracketsMatch InputIntact SleepsLongEnough
PROPERTIES OutputInOrder SleepersWoken
