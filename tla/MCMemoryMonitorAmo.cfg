CONSTANTS
    Threads <- TwoThreads
    Addrs = {a}
    None = None
    Programs <- LLSCAndAmo
SPECIFICATION Spec
CHECK_DEADLOCK FALSE
INVARIANT ScIsAtomic
