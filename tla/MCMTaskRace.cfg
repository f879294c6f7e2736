\* Two consoles, scheduler calls interrupted.
SPECIFICATION RaceSpec
CONSTANTS
    MAX_TASKS = 4
    MAX_TASKS_LV = 3
    MAX_TASKLEVELS = 4
    FIFO_SIZE = 1
INVARIANT AwakeTaskRuns
