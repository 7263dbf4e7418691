SPECIFICATION ClientSpec
CONSTANTS
    b = b
    o1 = o1
    Objects = {o1}
    Strangers = {}
    Subs = {b}
    Kind <- OneFilter
    Pk <- FirstObject
    Facets = {"object"}
    RegisteredFacets = {"object"}
    MaxEvents = 3
    MaxRepeats = 0
    ReplayLimit = 1
    DedupeSize = 1
    MaxSubscriptions = 1
    MaxMemberPks = 1
    MaxRequests = 2
INVARIANTS NoFormerMemberStays
CHECK_DEADLOCK FALSE
