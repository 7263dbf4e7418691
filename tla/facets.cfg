SPECIFICATION Spec
CONSTANTS
    a = a
    b = b
    c = c
    o1 = o1
    o2 = o2
    Objects = {o1}
    Strangers = {}
    Subs = {b}
    Kind <- OneFilter
    Pk <- FirstObject
    Facets = {"object", "workflow_state"}
    RegisteredFacets = {"object"}
    MaxEvents = 2
    MaxRepeats = 0
    ReplayLimit = 1
    DedupeSize = 1
    MaxSubscriptions = 1
    MaxMemberPks = 1
    MaxRequests = 1
INVARIANTS SubjectsThatLeaveAreRemoved
CHECK_DEADLOCK FALSE
