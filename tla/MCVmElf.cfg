SPECIFICATION MCSpec
CONSTANTS
    Levels = {"areas"}
    NumFrames = 6
    MaxRef = 2
    FrameSize = 8
    PmmBase = 16
    BootMaps <- MCBootMaps
    HeapStart = 12
    HeapSizes = {3, 6}
    HeapLimit = 32
    Counts = {0, 2, 3}
    Procs = {"p1", "p2"}
    NumPages = 2
    PerTable = 2
    NumCache = 1
    Zero = "zero"
    Files = {"f1", "f2"}
    Roots = {"p1"}
    ProtArgs = {{"r"}, {"r", "w"}}
    MapArgs <- SomeMappings
    PageSize = 2
    CodeBase = 0
    MmapBase = 4
    InterpBase = 8
    HeapBase = 8
    StackLow = 12
    StackTop = 14
    InitialCap = 2
    MaxAreas = 5
    FileSize = 3
    Offsets = {0, 2}
    Image <- UnalignedImage
    MaxLength = 2
INVARIANT PagesKeepContents
CHECK_DEADLOCK FALSE
