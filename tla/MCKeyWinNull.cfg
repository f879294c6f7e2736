\* The last console is closed.
SPECIFICATION Spec
CONSTANTS
    MAX_SHEETS = 4
    MAX_CONSOLES = 2
    FIFO_SIZE = 2
    SYS_SIZE = 2
INVARIANT NothingLeft
CONSTRAINT Tame
