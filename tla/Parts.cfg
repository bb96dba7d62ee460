SPECIFICATION Spec
CONSTANTS
    None = None
    Nowhere = Nowhere
    Unusable = Unusable
    GeometryFields = {"polygon"}
    LastTime = 2
    Sites = {s1, s2}
    Callers = {c1}
    Life = 1
    LastMoment = 1
    MaxRefreshes = 1
    Rfis = {r1}
    Details = {d1}
    Waiters = {w1, w2}
    MaxSnapshots = 2
    LastSnapshot = 2
    MaxDeaths = 1
    Servers = {api, mcp}
    Keys = {k1, k2}
    MaxRows = 2
    LastInstant = 2
    Candidates = {1, 2}
    ToLookUp = {1}
    Crowded = FALSE
    Explicit = {"slope"}
    Vague <- Answers
    Supported = {"slope", "codes"}
    Processes = {p1, p2}
    Evidence = {e1}
    Agents = {p1}
    MaxSaves = 2
    Snapshots = {1, 2}
    ParcelOf <- Parcels
    Buffers = {1, 2}
    Releases = {1, 2}
    Objects = {o1, o2}
    MaxWorlds = 2
    LastHour = 1
    MaxVersions = 2
    MaxLosses = 1
    Requests = {q1}
    Handlers = {h1, h2}
    Places = {b1, b2}
    MaxQuotes = 3
    MaxConfirms = 2
CHECK_DEADLOCK FALSE
INVARIANT EvaluationIsSound
INVARIANT ReadyIsProved
INVARIANT SiteRecordsAgree
INVARIANT LedgerIsTrue
INVARIANT DecisionIsEarned
INVARIANT ClaimsAreCurrent
INVARIANT WorldsAreWhole
INVARIANT ClaimsAreVerified
INVARIANT ConfirmedWasShown
PROPERTY OnlyExpires
PROPERTY NothingIsDropped
PROPERTY LostOnlyToOldCopies
PROPERTY ReplayIsFinal
