SPECIFICATION FairSpec
CONSTANTS
    w1 = w1
    w2 = w2
    p1 = p1
    p2 = p2
    NumEvents = 1
    ProjectOf <- OneProject
    Publishers <- OnePublisher
    Workers <- OneWorker
    Limit = 1
    MaxDeliver = 5
    Pace = "quick"
    MaxCopies = 1
    MaxFailures = 0
    MaxFaults = 0
    MaxCrashes = 1
CHECK_DEADLOCK FALSE
PROPERTY EveryEventHandled
