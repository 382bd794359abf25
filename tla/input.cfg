SPECIFICATION InputSpec
CONSTANTS
    MAX_THREADS = 3
    Tids = {idle, a, b}
    Idle = idle
    CoreService = a
    NoThread = none
    TIME_SLICE = 1
    GEN_WIDTH = 2
    FIFO_CAP = 2
    MaxCodes = 3
    TtyProcs = {1}
    OutBytes = {27, 91, 54, 110, 97, 66}
    Scancodes = {42, 170, 30, 224}
    WsRow = 3
    WsCol = 9
    OUT_CSI_MAX_SEQ = 2
    QUEUE_LEN = 4
    MaxPoll = 1
    TtySteps = 4
    Ports = {1, 2}
    Devices <- MCDevices
    MaxSlots = 3
    CMD_RING = 4
    EP0_RING = 15
    HID_RING = 1
    EVENTS = 2
    NKEYS = 2
    MOUSE_ENTRIES = 1
    UsbFaults = 1
    UsbReports = 3
INVARIANTS
    ScancodesInOrder
    FifoLockHolderRuns
    OneSlotPerPort
    HeldKeysMatchReport
PROPERTIES
    PollAnswersTrue
