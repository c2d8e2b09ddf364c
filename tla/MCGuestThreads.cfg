CONSTANTS
    Threads <- ThreeThreads
    ThreadObjects <- FourThreads
    Addrs = {a}
    None = None
    Programs <- AllPrograms
SPECIFICATION GuestSpec
CHECK_DEADLOCK FALSE
INVARIANTS LLSCIsAtomic AmoIsAtomic StartedOnce CleanShutdown
PROPERTIES LockIsReleased HaltEnds
