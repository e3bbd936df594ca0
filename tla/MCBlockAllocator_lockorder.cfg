\* Two CPUs, one allocating and deallocating, one mapping an MMIO region
\* with alloc_to: alloc's marking loop holds map.write() while it waits for
\* the addressor, alloc_to holds the addressor while it waits for map.write().
CONSTANTS
    MemoryMap <- HeapMap
    ReservedTypes = {"runtime"}
    FRAME_BYTES = 4096
    UsizeFrames = 16
    None = None
    CPUS = {c1, c2}
    SECTION_COUNT = 2
    SECTION_LEN = 2
    BLOCK_SIZE = 2
    BLOCK_PAGES_PER_MAP_PAGE = 2
    Sizes = {2}
    Aligns = {1}
    MaxLive = 1
    AllocToCounts = {1}
    MmioOffsets = {0}
    MmioSizes = {1}
    StackFrames <- LoaderStack
    STACK_PAGES = 1
    BOOT_RSP_OFFSET = 5
    MaxRegions = 1
SPECIFICATION Spec
INVARIANT SomeCpuProgresses
