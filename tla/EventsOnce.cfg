SPECIFICATION Spec
CONSTANTS
    w1 = w1
    w2 = w2
    p1 = p1
    p2 = p2
    NumEvents = 2
    ProjectOf <- OneProject
    Publishers <- OnePublisher
    Workers <- TwoWorkers
    Limit = 2
    MaxDeliver = 2
    Pace = "slow"
    MaxCopies = 2
    MaxFailures = 1
    MaxFaults = 1
    MaxCrashes = 1
SYMMETRY ProcessSymmetry
CHECK_DEADLOCK FALSE
INVARIANT TypeOK
INVARIANT AckedMeansCompleted
INVARIANT StreamInProjectOrder
PROPERTY OrderlyHandling
