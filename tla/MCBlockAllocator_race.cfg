\* Two CPUs: alloc's search drops the read lock before marking.
CONSTANTS
    MemoryMap <- HeapMap
    ReservedTypes = {"runtime"}
    FRAME_BYTES = 4096
    UsizeFrames = 16
    None = None
    CPUS = {c1, c2}
    SECTION_COUNT = 2
    SECTION_LEN = 2
    BLOCK_SIZE = 2
    BLOCK_PAGES_PER_MAP_PAGE = 2
    Sizes = {2, 4, 6}
    Aligns = {1, 4}
    MaxLive = 1
    AllocToCounts = {}
    MmioOffsets = {0}
    MmioSizes = {1}
    StackFrames <- LoaderStack
    STACK_PAGES = 1
    BOOT_RSP_OFFSET = 5
    MaxRegions = 0
SPECIFICATION Spec
INVARIANT NoAssertPanic
