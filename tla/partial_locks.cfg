CONSTANTS
    s1 = s1
    s2 = s2
    top = top
    mid = mid
    a = a
    b = b
    Sessions = {s1, s2}
    NoSession = NoSession
    Nodes = {top, mid, a}
    Leaves = {a}
    Below <- Subtrees
    Values = {0, 1}
    MaxId = 3
    MaxPlocks = 2
SYMMETRY SwapSessions
SPECIFICATION Spec
INVARIANTS
    TypeOK
    MarksAreHeld
    OneOwnerPerNode
    GlobalExcludesPartial
PROPERTIES
    IdsAreUnique
    RequestsKeepMarks
