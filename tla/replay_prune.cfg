SPECIFICATION Spec
CONSTANTS
    a = a
    b = b
    c = c
    o1 = o1
    o2 = o2
    Objects = {o1}
    Strangers = {}
    Subs = {a}
    Kind <- OneObject
    Pk <- FirstObject
    Facets = {"object"}
    RegisteredFacets = {"object"}
    MaxEvents = 2
    MaxRepeats = 0
    ReplayLimit = 2
    DedupeSize = 1
    MaxSubscriptions = 1
    MaxMemberPks = 1
    MaxRequests = 2
INVARIANTS ReplayIsNeverSilent
CHECK_DEADLOCK FALSE
