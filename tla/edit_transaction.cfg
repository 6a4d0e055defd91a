CONSTANTS
    leaf = leaf
    c1 = c1
    c2 = c2
    Points = {leaf, c1, c2}
    Leaves = {leaf}
    ValuesOf <- TwoValues
    Absent = Absent
    Marker = Marker
    Nothing = Nothing
    Refusing <- RefusingSome
SPECIFICATION FairSpec
INVARIANTS
    SystemAgrees
    ReservationsReleased
    EditsStayPending
PROPERTIES
    AllOrNothing
    RequestEnds
