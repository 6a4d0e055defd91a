CONSTANTS
    MaxSessions = 4
    HelloTimeout = 1
    IdleTimeout = 1
    Base11 = TRUE
    MaxMessages = 4
    MaxActs = 8
SPECIFICATION FairSpec
INVARIANTS
    DrainedBeforeInput
PROPERTIES
    ReadyOnce
    InOrder
    
