\* Two processes on one pipe
CONSTANTS
    Procs = {p1, p2}
    Others = {o1}
    Queues = {"read_waiters", "write_waiters", "other queues"}
    WaitNodeMax = 2
    Size = 2
    PipeBuf = 2
    Lengths = {2, 3}
    MaxCalls = 2
SPECIFICATION FairSpec
INVARIANT PipeSound
PROPERTY HangupEndsCalls
CHECK_DEADLOCK FALSE
