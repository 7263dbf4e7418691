SPECIFICATION Spec
CONSTANTS
    Messages <- TheMessages
    Registered = {"item"}
    Numeral <- TheNumeral
    TextOf <- TheText
    Keys = {1}
    GeneratedIds <- TheIds
    Limit <- TheLimits
    MaxSubscriptions = 2
INVARIANTS
    RequestsTypeOK
    ObjectsHaveTheTextOfEvents
    StoredFiltersAreWithinLimits
PROPERTIES
    GeneratedIdsAreFree
    ErrorsLeaveNoTrace
CHECK_DEADLOCK FALSE
