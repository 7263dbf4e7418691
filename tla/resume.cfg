SPECIFICATION FairClientSpec
CONSTANTS
    b = b
    o1 = o1
    x = x
    Objects = {o1}
    Strangers = {x}
    Subs = {b}
    Kind <- OneFilter
    Pk <- FirstObject
    Facets = {"object"}
    RegisteredFacets = {"object"}
    MaxEvents = 2
    MaxRepeats = 1
    ReplayLimit = 1
    DedupeSize = 1
    MaxSubscriptions = 1
    MaxMemberPks = 1
    MaxRequests = 2
INVARIANTS NoMemberIsMissing Inv ListInv
PROPERTIES StaleMembersAreCorrected
CHECK_DEADLOCK FALSE
