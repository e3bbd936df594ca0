\* One CPU under weak fairness, mapping MMIO regions of one and two frames
\* with alloc_to between allocs and deallocs: every search / grow loop
\* terminates, and the regions and allocations stay intact.
CONSTANTS
    MemoryMap <- HeapMap
    ReservedTypes = {"runtime"}
    FRAME_BYTES = 4096
    UsizeFrames = 16
    None = None
    CPUS = {c1}
    SECTION_COUNT = 2
    SECTION_LEN = 2
    BLOCK_SIZE = 2
    BLOCK_PAGES_PER_MAP_PAGE = 2
    Sizes = {2, 4, 6}
    Aligns = {1, 4}
    MaxLive = 1
    AllocToCounts = {1, 2}
    MmioOffsets = {0, 9}
    MmioSizes = {1}
    StackFrames <- LoaderStack
    STACK_PAGES = 1
    BOOT_RSP_OFFSET = 5
    MaxRegions = 1
SPECIFICATION FairSpec
INVARIANTS
    AllocationsHeld
    HeapFrameOwnership
    MmioRegionIntact
PROPERTIES
    AllocCompletes
    ImplementsContract
