SPECIFICATION Spec
CONSTANTS
    SigPids = {1, 2}
    Sigs = {2, 9, 17}
    SigMasks <- MCSigMasks
    StackWords = 14
    MaxPush = 1
    SigSteps = 5
    Waiters = {1, 2}
    Words = {100}
    MaxTimeout = 2
    PipeProcs = {1, 2}
    FirstProc = 1
    MAX_PIPES = 2
    PIPE_BUF_SIZE = 2
    PROCESS_MAX_FDS = 6
    PipeData <- Data
    PipeWants <- Wants
    PipeSteps = 3
    MaxCols = 2
    MaxRows = 3
    ANSI_MAX_SEQ_LEN = 3
    Outputs <- MCOutputs
    PROMPT <- MCPrompt
    TermSteps = 4
    ShellKeys = {19, 25, 57, 14, 28, 42, 170, 58}
    INPUT_BUF = 3
    CMD_CACHE = 1
    SHELL_MAILBOX = 2
    MaxChunks = 4
    ShellSteps = 5
    FileProcs = {1, 2}
    FirstFileProc = 1
    LAST_FD = 4
    MAX_HANDLES = 2
    FS_MAILBOX = 1
    MaxLen = 1
    MaxLate = 1
    FileSteps = 3
    BLOCK_SIZE = 2
    PTRS = 2
    NDIR = 1
    CHUNK = 2
    BLOCK_CACHE_SLOTS = 2
    INODE_CACHE_SLOTS = 1
    PATH_CACHE_SLOTS = 1
    Drives <- MCDrives
    BootImages <- MCBootImages
    FilePaths <- MCFilePaths
    Faults = {0, 5, 7, 10}
    Offsets = {0, 3}
    Lengths = {1, 3}
    Ext2Steps = 2
    DiskClients = {1, 2}
    DiskUsers = {2}
    LBAs = {0, 1}
    MAX_DISKS = 2
    DiskSteps = 2
    QUEUE_SIZE = 2
    RX_BUFFER_COUNT = 3
    INDEX_MOD = 4
    RX_POLL_BUDGET = 1
    MaxFrames = 3
    Readers = {1, 2}
    Int80 = {1}
    MouseBytes = {0, 8, 72}
    MOUSE_FIFO = 1
    MouseSteps = 7
    CextFiles <- MCCextFiles
    NCext = 2
    PAGE = 2
    FIXED = 2
    LOAD_START = 40
    LOAD_GUARD = 2
    Frames0 = 8
    ServiceLines <- MCServiceLines
    MaxLines = 3
    DriverLists <- MCDriverLists
    Missing <- MCMissing
    MaxProcs = 4
INVARIANTS
    SleepersQueued
    RingIsQueue
    LoneReaderWoken
    ScreenShowsCells
    ChildOutputComplete
    RemoteFilesCounted
    ReadsMatchImage
    SectorIsTheOneAsked
    VirtioFramesIntact
    SleepingMouseReaderRegistered
    ModulesIntact
    OneProcessPerService
PROPERTIES
    HandlersReturn
    WakesAccounted
    TimedWaitsEnd
    PromptReturns
CHECK_DEADLOCK FALSE
