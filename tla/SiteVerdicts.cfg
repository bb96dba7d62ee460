SPECIFICATION Spec
CONSTANTS
    f1 = f1
    f2 = f2
    p1 = p1
    p2 = p2
    s1 = s1
    s2 = s2
    Fields <- TwoFields
    Parcels <- OneParcel
    Scenarios <- OneScenario
    BatchLimit = 3
    Requests <- Both
    Values <- Decisive
    MaxSnapshots = 3
    MaxLookups = 1
    MaxPlans = 2
    MaxRevisions = 1
    MaxExpiries = 6
    MaxFaults = 0
CHECK_DEADLOCK FALSE
INVARIANT RunTellsSnapshot
