SPECIFICATION KbdSpec
CONSTANTS
    MAX_THREADS = 3
    Tids = {idle, a, b}
    Idle = idle
    CoreService = a
    NoThread = none
    TIME_SLICE = 1
    GEN_WIDTH = 2
    FIFO_CAP = 2
    MaxCodes = 3
INVARIANTS
    HandlerReturns
