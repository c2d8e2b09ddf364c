CONSTANT
    ThreadObjects <- ThreeThreads
SPECIFICATION EngineSpec
CHECK_DEADLOCK FALSE
INVARIANT ReturnsWhenDone
