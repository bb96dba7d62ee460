SPECIFICATION FairSpec
CONSTANTS
    r1 = r1
    r2 = r2
    Runs <- OneRun
    NumTasks = 2
    MaxDecisions = 2
    MaxPosts = 2
    MaxFaults = 1
    MaxOverwrites = 1
CHECK_DEADLOCK FALSE
INVARIANT TypeOK
INVARIANT WorkInOrder
INVARIANT RunAndWorkflowAgree
PROPERTY RunsMoveForward
PROPERTY RunsComeToRest
PROPERTY ResumeTakesEffect
PROPERTY AskFirst
