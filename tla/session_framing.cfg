CONSTANTS
    BuffSize = 12
    ReadSize = 4
    StartPad = 5
    EndPad = 4
    MaxStartChunk = 5
    Payloads <- SomeLengths
    Cuts = {1, 9, 20}
    MaxMessages = 4
    MaxBytes = 28
SPECIFICATION FairSpec
INVARIANTS
    TypeOK
    FramingIsValid
PROPERTIES
    FramesKept
    AllArrive
CHECK_DEADLOCK FALSE
