\* Two CPUs: the heap's bookkeeping under every interleaving of alloc,
\* dealloc and grow (the search/mark race ends in a panic, see _race), with
\* the loader's stack in a firmware region above the heap.
CONSTANTS
    MemoryMap <- HeapMapHighStack
    ReservedTypes = {"runtime"}
    FRAME_BYTES = 4096
    UsizeFrames = 16
    None = None
    CPUS = {c1, c2}
    SECTION_COUNT = 2
    SECTION_LEN = 2
    BLOCK_SIZE = 2
    BLOCK_PAGES_PER_MAP_PAGE = 2
    Sizes = {2, 6}
    Aligns = {1, 4}
    MaxLive = 1
    AllocToCounts = {}
    MmioOffsets = {0}
    MmioSizes = {1}
    StackFrames <- LoaderStackHigh
    STACK_PAGES = 1
    BOOT_RSP_OFFSET = 5
    MaxRegions = 0
SPECIFICATION Spec
INVARIANTS
    AllocationsHeld
    PageBackedIffUsed
    HeapFrameOwnership
    SomeCpuProgresses
    KernelStackLive
PROPERTY ImplementsContract
