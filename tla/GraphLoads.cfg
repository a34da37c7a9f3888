SPECIFICATION Spec
CONSTANTS
    c1 = c1
    c2 = c2
    s1 = s1
    s2 = s2
    a1 = a1
    d1 = d1
    Cases = {c1, c2}
    Subjects = {s1, s2}
    Allegations = {a1}
    Records <- Shared
    InitialRecords <- NotYetBoth
    TypeOf <- OneType
    p1 = p1
    p2 = p2
    Loaders = {p1, p2}
    MaxFetches = 3
    MaxEdits = 1
    MaxOutages = 1
INVARIANTS TypeOK SettlesInTwo NothingLoose
PROPERTIES OneOutageLosesNothing
SYMMETRY Swap
CHECK_DEADLOCK FALSE
