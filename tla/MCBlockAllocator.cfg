\* One CPU: the heap's bookkeeping, its frames and its search, with a
\* two-frame loader stack copied into a two-page new stack.
CONSTANTS
    MemoryMap <- HeapMapTwoFrameStack
    ReservedTypes = {"runtime"}
    FRAME_BYTES = 4096
    UsizeFrames = 16
    None = None
    CPUS = {c1}
    SECTION_COUNT = 2
    SECTION_LEN = 4
    BLOCK_SIZE = 2
    BLOCK_PAGES_PER_MAP_PAGE = 2
    Sizes = {2, 4, 6}
    Aligns = {1, 4}
    MaxLive = 3
    AllocToCounts = {}
    MmioOffsets = {0}
    MmioSizes = {1}
    StackFrames <- LoaderStackTwoFrames
    STACK_PAGES = 2
    BOOT_RSP_OFFSET = 21
    MaxRegions = 0
SPECIFICATION Spec
INVARIANTS
    TypeOK
    AllocationsHeld
    PageBackedIffUsed
    HeapFrameOwnership
    NoAssertPanic
    KernelStackLive
PROPERTIES
    SearchIsFirstFit
