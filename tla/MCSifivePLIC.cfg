CONSTANTS
    Irqs <- TwoWords
    Contexts <- BothModes
    Hart = "hart"
    Drivers <- HartAndSerial
    WordBits = 4
SPECIFICATION Spec
INVARIANTS EipIsExact ServedOnce
