SPECIFICATION MCSpec
CONSTANTS
    Settings = {"boot"}
    Tcp = Tcp
    Reaper = Reaper
    Boot = Boot
    Kernel = {Tcp, Reaper, Boot}
    Users <- TwoUsers
    InitTable <- UserTable
    First = 1
    Calls <- SelfStopCalls
    Quantum = 1
    ReapInterval = 1
    SleepTimes = {1}
    MaxProcs = 5
INVARIANT
    ResumeFrameValid
