\* Two consoles with an application each; leaked timers use up the rest.
SPECIFICATION Spec
CONSTANTS
    MAX_TIMER = 4
    FIFO_SIZE = 2
    Consoles = {c1, c2}
    CursorTime = 2
    Slices = {1}
    AppTimes = {0, 2}
SYMMETRY Symmetry
INVARIANTS TypeOK ListSound PostsWanted CursorAlive
