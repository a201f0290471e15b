\* three regions over six pages of four addresses each, and a heap that begins inside a
\* page and ends with one: addresses 6 to 15, in three pages
CONSTANTS
    PageSize = 4
    HeapStart = 6
    HeapSize = 10
    MaxTables = 2
    MaxAddr = 24
    NoFrame = NoFrame
    MemoryMaps <- Maps
SPECIFICATION MemSpec
INVARIANTS
    FramesAreDistinct
    FramesAreUsable
    HeapFullyMapped
\* the kernel goes on (or panics) after init_heap
CHECK_DEADLOCK FALSE
