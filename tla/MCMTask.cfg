\* Two consoles share their level.
SPECIFICATION FairSpec
CONSTANTS
    MAX_TASKS = 4
    MAX_TASKS_LV = 2
    MAX_TASKLEVELS = 4
    FIFO_SIZE = 2
INVARIANTS TypeOK RunQueues CurrentTask TopLevelWatched NoLostWakeup SlotReuse
PROPERTIES Responsive RoundRobin ExitCompletes
