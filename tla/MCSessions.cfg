SPECIFICATION MCSpec
CONSTANTS
    Settings = {"fork", "jobs"}
    Tcp = Tcp
    Reaper = Reaper
    Boot = Boot
    Kernel = {Tcp, Reaper, Boot}
    Users <- ThreeUsers
    InitTable <- UserTable
    First = 1
    Calls <- ForkCalls
    Quantum = 1
    ReapInterval = 1
    SleepTimes = {1}
    MaxProcs = 4
INVARIANTS NoHalt 
PROPERTY ReapedSafely
