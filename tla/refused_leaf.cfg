CONSTANTS
    leaf = leaf
    c1 = c1
    c2 = c2
    Points = {leaf, c1}
    Leaves = {leaf}
    ValuesOf <- TwoValues
    Absent = Absent
    Marker = Marker
    Nothing = Nothing
    Refusing <- RefusingAll
SPECIFICATION Spec
PROPERTIES
    AllOrNothing
