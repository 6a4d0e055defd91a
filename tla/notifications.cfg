CONSTANTS
    s1 = s1
    s2 = s2
    plain = plain
    ended = ended
    Sessions = {s1, s2}
    Types = {plain, ended}
    SessionEnd = ended
    Allowed <- OneWithoutEnds
    Filters <- PlainOnly
    EventlogSize = 2
    MaxBurst = 2
    MaxEvents = 3
    MaxTime = 2
SPECIFICATION FairSpec
INVARIANTS
    PlacesAreQueued
    WellFormed
    NoneIsSkipped
PROPERTIES
    StopsInTime
    SentInTheEnd
