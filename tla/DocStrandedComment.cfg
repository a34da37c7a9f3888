SPECIFICATION Spec
CONSTANTS
    p1 = p1
    p2 = p2
    c1 = c1
    c2 = c2
    s1 = s1
    s2 = s2
    a1 = a1
    d1 = d1
    Cases = {c1}
    Subjects = {s1}
    Allegations = {a1}
    Records <- Alone
    InitialRecords <- Alone
    TypeOf <- OneType
    Loaders = {p1}
    MaxFetches = 4
    MaxEdits = 1
    MaxOutages = 0
INVARIANTS CommentaryFollows
CHECK_DEADLOCK FALSE
