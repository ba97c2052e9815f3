SPECIFICATION boxSpec
CONSTANTS
    Hours = 3
    Windows <- MCWindows
    MaxRelease = 3
    MaxOwner = 1
    MaxStops = 1
    MaxUnsaved = 1
    Levels = {"disk"}
    Events = {"app"}
    dedupeWindow = 2
    sinceWindow = 3
    Retries = 2
    MaxFlips = 3
    MaxRestarts = 1
    MaxRefused = 2
    MaxChanges = 2
    Paths = {"x"}
    InRoots = {"x"}
    Requests = {r1, r2}
    MaxItems = 2
    MaxNames = 2
    MaxRestored = 1
    MaxAsked = 4
    MaxTrashStops = 1
    Swift = TRUE
    Sources = {"a", "b"}
    Folders <- MCFolders
    Asked <- MCAsked
    Ids = 2
    Again = FALSE
    MaxStarts = 3
    MaxFailures = 1
    Chunks = {1, 2, 3}
    Senders = {s1, s2}
    MaxFiles = 3
    MaxLost = 2
    MaxCut = 1
    AsksFirst = TRUE
    MaxCrashes = 1
    SharePaths = {"p", "q"}
    Within <- MCWithin
    Containers = {"q"}
    People = {"ann", "ben", "cat"}
    Logins = {"sam"}
    Uids = {1, 2, 3}
    ShareStarts <- MCShareStarts
    Wishes <- MCWishes
    Grants <- MCGrants
    MaxCalls = 2
    MaxShareUpsets = 1
    MaxClients = 1
    UidReuse = FALSE
INVARIANTS Restrained     
PROPERTIES Arrives OwnerKnows
CHECK_DEADLOCK FALSE
