\* Small buffers, which fill up and wrap.
SPECIFICATION Spec
CONSTANTS
    KEY_SIZE = 2
    MOUSE_SIZE = 2
    Codes = {a}
INVARIANTS TypeOK AwakeOnInput
PROPERTIES QueueSpec PacketsKept Resync Served
