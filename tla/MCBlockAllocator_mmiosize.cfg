\* One CPU maps a one-frame MMIO region and reads a two-byte value at its
\* last byte: mapped_offset accepts the offset, and the value's second
\* byte lies past the region's only frame.
CONSTANTS
    MemoryMap <- HeapMap
    ReservedTypes = {"runtime"}
    FRAME_BYTES = 4096
    UsizeFrames = 16
    None = None
    CPUS = {c1}
    SECTION_COUNT = 2
    SECTION_LEN = 2
    BLOCK_SIZE = 2
    BLOCK_PAGES_PER_MAP_PAGE = 2
    Sizes = {2}
    Aligns = {1}
    MaxLive = 1
    AllocToCounts = {1}
    MmioOffsets = {7}
    MmioSizes = {2}
    StackFrames <- LoaderStack
    STACK_PAGES = 1
    BOOT_RSP_OFFSET = 5
    MaxRegions = 1
SPECIFICATION Spec
INVARIANT MmioAccessTranslates
