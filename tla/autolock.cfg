CONSTANTS
    c1 = c1
    c2 = c2
    Sessions = {c1, c2}
    NoSession = NoSession
    Databases = {"running", "candidate"}
    MaxLate <- FirstLate
SPECIFICATION FairSpec
INVARIANTS
    TypeOK
    BeliefsAgree
PROPERTIES
    GetLocksEnds
