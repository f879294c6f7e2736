\* Two commands and a half fit into keycmd.
SPECIFICATION FairSpec
CONSTANTS
    KEYCMD_SIZE = 4
    FIFO_SIZE = 3
    Locks = {CapsLock}
INVARIANTS TypeOK OneOutstanding InPairs
PROPERTY LedsFollow
