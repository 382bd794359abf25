SPECIFICATION Spec
CONSTANTS
    Path <- MCPath
    MemoryMap <- MCMemoryMap
    MaxPid = 4
    Budgets <- MCBudgets
    CODE = 10
    TLS = 20
    HEAP = 30
    STACK = 50
    MaxHeapPages = 8
    MAX_STACK_SIZE = 2
    FramebufferFrame = 32
    Offsets = {0, 1}
    Limits = {26, 82}
    HugeLow = {TRUE, FALSE}
    MAX_PROCESSES = 3
    MAX_THREADS = 3
    KSTACK_POOL_SIZE = 8
    KSTACK_FREE_LIST_CAP = 2
    EXEC_STACK = 2
    FORK_STACK = 1
    BrkAddrs = {58, 61, 66}
    Hints = {10, 31}
    Spots = {10, 31}
    Lengths = {1, 2}
    Faults = {44, 46}
    Devices = {30, 31, 32, 83}
CHECK_DEADLOCK FALSE
INVARIANTS
    FramesHaveOneOwner
    ProcessHasOwnTable
    PromisedPagesMapped
    KernelStackHasOneUser
PROPERTIES
    ForkCopies
    ReapedMemoryReturnsWithOffset
