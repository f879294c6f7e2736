\* Applications may free a timer that runs.
SPECIFICATION FreeSpec
CONSTANTS
    MAX_TIMER = 5
    FIFO_SIZE = 2
    Consoles = {c1}
    CursorTime = 2
    Slices = {1, 2}
    AppTimes = {0, 2}
INVARIANT ListedAreUsing
