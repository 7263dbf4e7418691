SPECIFICATION Spec
CONSTANTS
    a = a
    b = b
    c = c
    o1 = o1
    o2 = o2
    Objects = {o1}
    Strangers = {}
    Subs = {a, b, c}
    Kind <- TwoObjectsAndAFilter
    Pk <- FirstObject
    Facets = {"object"}
    RegisteredFacets = {"object"}
    MaxEvents = 2
    MaxRepeats = 1
    ReplayLimit = 1
    DedupeSize = 1
    MaxSubscriptions = 2
    MaxMemberPks = 1
    MaxRequests = 2
SYMMETRY Symmetry
INVARIANTS
    SentInOrder
    NoRetainedEventIsSkipped
    GroupsFollowSubscriptions
    SessionTypeOK
    StaleMembersHaveAnEventAhead
PROPERTIES
    HeldCursorsAreAccepted
CHECK_DEADLOCK FALSE
