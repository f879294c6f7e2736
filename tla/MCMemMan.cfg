SPECIFICATION Spec
CONSTANTS
    MEMMAN_FREES = 2
    Boot <- MCBoot
    Sizes = {1, 2, 3, 6}
    Unit = 2
    Word = 256
INVARIANTS TypeOK NoOverlap Coalesced Conservation
PROPERTY HeapSpec
