SPECIFICATION IpcSpec
CONSTANTS
    MAX_THREADS = 3
    Tids = {idle, a, b, c}
    Idle = idle
    CoreService = a
    NoThread = none
    TIME_SLICE = 1
    GEN_WIDTH = 3
    MAILBOX_CAP = 2
    MaxSends = 2
INVARIANTS
    SleeperIsRegistered
    WaiterIsReceiving
PROPERTIES
    NoLiveMessageDropped
    BlockedReceiverReturns
