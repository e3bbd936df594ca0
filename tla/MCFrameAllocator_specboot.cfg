CONSTANTS
    MemoryMap <- SpecScenarioMap
    ReservedTypes = {"runtime"}
    FRAME_BYTES = 4096
    UsizeFrames = 1073741824
    None = None
    Clients = {}
    MaxOwned = 2
    Counts = {0, 2}
    MaxCounter = 12
SPECIFICATION Spec
CONSTRAINT CounterBound
INVARIANT InitNoDoubleReserve
