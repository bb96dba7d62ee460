SPECIFICATION FairSpec
CONSTANTS
    w1 = w1
    w2 = w2
    p1 = p1
    p2 = p2
    NumEvents = 2
    ProjectOf <- OneProject
    Publishers <- TwoPublishers
    Workers <- OneWorker
    Limit = 1
    MaxDeliver = 2
    Pace = "quick"
    MaxCopies = 1
    MaxFailures = 1
    MaxFaults = 1
    MaxCrashes = 1
CHECK_DEADLOCK FALSE
INVARIANT PublishedIsInStream
PROPERTY FailuresAreRetried
PROPERTY EveryEventSettles
