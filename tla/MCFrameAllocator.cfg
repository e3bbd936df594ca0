\* Two clients on an 8-frame machine (SmallMap).
CONSTANTS
    MemoryMap <- SmallMap
    ReservedTypes = {"runtime"}
    FRAME_BYTES = 4096
    UsizeFrames = 1073741824
    None = None
    Clients = {c1, c2}
    MaxOwned = 2
    Counts = {0, 2}
    MaxCounter = 12
SPECIFICATION Spec
CONSTRAINT CounterBound
INVARIANTS
    TypeOK
    FrameOwnership
    BootReservedKept
