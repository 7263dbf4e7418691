SPECIFICATION Spec
CONSTANTS
    l1 = l1
    p1 = p1
    p2 = p2
    c1 = c1
    c2 = c2
    v1 = v1
    v2 = v2
    s1 = s1
    s2 = s2
    Lines = {l1}
    Orders = {p1, p2}
    Customers = {c1, c2}
    Values = {v1, v2}
    Sessions = {s1, s2}
    MaxStatements = 3
SYMMETRY Symmetry
INVARIANTS SubjectsInv
PROPERTIES ChangedSubjectsAreTold
