\* One CPU maps a two-frame MMIO region and reads it at offset 0 and at
\* offset 0x1000 (one page in): the second read should reach the second frame.
CONSTANTS
    MemoryMap <- HeapMap
    ReservedTypes = {"runtime"}
    FRAME_BYTES = 4096
    UsizeFrames = 16
    None = None
    CPUS = {c1}
    SECTION_COUNT = 2
    SECTION_LEN = 2
    BLOCK_SIZE = 2
    BLOCK_PAGES_PER_MAP_PAGE = 2
    Sizes = {2}
    Aligns = {1}
    MaxLive = 1
    AllocToCounts = {2}
    MmioOffsets = {0, 8}
    MmioSizes = {1}
    StackFrames <- LoaderStack
    STACK_PAGES = 1
    BOOT_RSP_OFFSET = 5
    MaxRegions = 1
SPECIFICATION Spec
INVARIANT MmioAccessTranslates
