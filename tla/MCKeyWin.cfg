\* Two consoles, and two windows besides background and mouse.
SPECIFICATION FairSpec
CONSTANTS
    MAX_SHEETS = 4
    MAX_CONSOLES = 2
    FIFO_SIZE = 2
    SYS_SIZE = 2
INVARIANTS TypeOK ExitsMatch WindowsOwned Highlight
PROPERTY CloseCompletes
CONSTRAINT Tame
