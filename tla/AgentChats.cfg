SPECIFICATION FairSpec
CONSTANTS
    c1 = c1
    c2 = c2
    s1 = s1
    s2 = s2
    l1 = l1
    l2 = l2
    e = e
    k1 = k1
    k2 = k2
    Chats <- TwoChats
    Sessions <- OneSession
    Layouts <- OneLayout
    Empty = e
    Worlds <- OneWorld
    Constraints <- OneQuestion
    Default <- Defaults
    Rounds = 3
    Nudges = 2
    MaxScenarios = 2
    MaxRevisions = 2
    MaxEnds = 1
CHECK_DEADLOCK FALSE
INVARIANT ScenariosAreSound
PROPERTY EveryChatReturns
