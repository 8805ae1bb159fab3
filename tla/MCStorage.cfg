CONSTANTS
    Layers = {"ext2", "files", "names", "tables"}
    FirstData = 1
    LastData = 10
    FirstIno = 11
    LastIno = 14
    Root = 2
    Direct = 2
    Ptrs = 2
    BlockSize = 2
    Chunk = 2
    DirSlots = 3
    MaxFile = 16
    MaxLinks = 3
    MaxDepth = 2
    Targets <- MCTargets
    Dirs <- MCDirs
    Sizes = {0, 3, 9}
    Offsets = {0, 5}
    Moves <- CrossMoves
    Devs = {0}
    Jobs <- MCJobs
    MaxIo = 7
    Procs = {p1, p2}
    Objs = {o1, o2}
    None = None
    First = 1
    InitialCap = 2
    DefaultLimit = 3
    HardLimit = 3
    Limits = {2, 3}
    MaxOpen = 3
SPECIFICATION MCSpec
CONSTRAINT FewDescriptors
VIEW View
SYMMETRY Symmetry
INVARIANTS  TablesSound
PROPERTIES CallsAsPromised   GrowthKeepsDescriptors
