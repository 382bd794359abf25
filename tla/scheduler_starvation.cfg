SPECIFICATION SchedSpec
CONSTANTS
    MAX_THREADS = 4
    Tids = {idle, a, b, c}
    Idle = idle
    CoreService = a
    NoThread = none
    TIME_SLICE = 1
    GEN_WIDTH = 2
PROPERTIES
    ReadyRuns
