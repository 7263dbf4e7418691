SPECIFICATION Spec
CONSTANTS
    Labels = {"order", "line"}
    Instances <- TheInstances
    Sources <- TheSources
    ExtraFacets = {"billing"}
    MaxChanges = 5
INVARIANTS
    ProducedFacetsAreDelivered
    SubjectsAreAnnouncedOnce
CHECK_DEADLOCK FALSE
