\* A distinct startup datastore, and one session limited to base:1.0.
CONSTANTS
    s1 = s1
    s2 = s2
    l1 = l1
    l2 = l2
    v1 = v1
    v2 = v2
    Sessions = {s1, s2}
    NoSession = NoSession
    Base11 <- FirstSession
    Leaves = {l1}
    Values = {v1, v2}
    Default <- FactoryDefault
    Empty <- NothingSet
    PersistIds = {"p"}
    NoPersist = NoPersist
    NoFile = NoFile
    NoRoot = NoRoot
    HasStartup = TRUE
    StopOnLoadError = FALSE
    SilFaults = FALSE
    IoFaults = FALSE
    BadMessages = FALSE
    MaxTimeout = 1
SPECIFICATION Spec
INVARIANTS
    CommitOwnerAlive
PROPERTIES
    LockedStartupIsStable
