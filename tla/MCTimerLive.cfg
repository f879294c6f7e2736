\* One console and its application, more timers, ticking without end.
SPECIFICATION FairSpec
CONSTANTS
    MAX_TIMER = 5
    FIFO_SIZE = 2
    Consoles = {c1}
    CursorTime = 2
    Slices = {1, 2}
    AppTimes = {0, 2}
PROPERTIES ClockSpec TimersFire CursorBlinks
