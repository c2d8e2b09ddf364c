CONSTANTS
    NIrqs = 2
    Priorities <- TwoPriorities
    Masks <- TwoMasks
    Cpu = "cpu"
    Drivers <- CpuAndTimer
SPECIFICATION Spec
INVARIANTS LineIsExact StackIsOrdered
PROPERTY MostUrgentFirst
