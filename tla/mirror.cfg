\* No distinct startup, --startup-error=continue, no faults: every reversal goes through.
CONSTANTS
    s1 = s1
    s2 = s2
    l1 = l1
    l2 = l2
    v1 = v1
    v2 = v2
    Sessions = {s1, s2}
    NoSession = NoSession
    Base11 <- BothSessions
    Leaves = {l1, l2}
    Values = {v1, v2}
    Default <- FactoryDefault
    Empty <- NothingSet
    PersistIds = {"p"}
    NoPersist = NoPersist
    NoFile = NoFile
    NoRoot = NoRoot
    HasStartup = FALSE
    StopOnLoadError = FALSE
    SilFaults = FALSE
    IoFaults = FALSE
    BadMessages = TRUE
    MaxTimeout = 2
SPECIFICATION Spec
INVARIANTS
    CleanIsRunning
    EditsWillCommit
PROPERTIES
    PromiseKept
    GivingUpRestores
