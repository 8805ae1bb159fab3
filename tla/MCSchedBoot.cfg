SPECIFICATION MCFairSpec
CONSTANTS
    Settings = {"boot"}
    Tcp = Tcp
    Reaper = Reaper
    Boot = Boot
    Kernel = {Tcp, Reaper, Boot}
    Users <- TwoUsers
    InitTable <- BootTable
    First = Boot
    Calls <- BootCalls
    Quantum = 1
    ReapInterval = 1
    SleepTimes = {1}
    MaxProcs = 5
PROPERTY ReapingEnds
