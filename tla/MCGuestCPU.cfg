CONSTANTS
    Hart = "hart"
    NLines = 2
    Others <- OneOther
    MaxMessages = 3
    Width = 4
    ByteBits = 1
SPECIFICATION CPUSpec
INVARIANTS RaisedIsAnnounced ActionKept MeaningKept
PROPERTIES PendTakes 
