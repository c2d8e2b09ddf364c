SPECIFICATION Spec
INVARIANTS
    DeviceLinesFollow
    
PROPERTIES
    
    EveryCharacterIsRead
    UsedIsSeen
