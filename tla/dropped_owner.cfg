\* The owner of a confirmed commit sends a message that cannot be dispatched.
CONSTANTS
    s1 = s1
    s2 = s2
    l1 = l1
    l2 = l2
    v1 = v1
    v2 = v2
    Sessions = {s1, s2}
    NoSession = NoSession
    Base11 <- BothSessions
    Leaves = {l1}
    Values = {v1, v2}
    Default <- FactoryDefault
    Empty <- NothingSet
    PersistIds = {"p"}
    NoPersist = NoPersist
    NoFile = NoFile
    NoRoot = NoRoot
    HasStartup = FALSE
    StopOnLoadError = TRUE
    SilFaults = FALSE
    IoFaults = FALSE
    BadMessages = TRUE
    MaxTimeout = 1
SPECIFICATION Spec
PROPERTIES
    OwnerEndsCommit
