SPECIFICATION hopSpec
CONSTANTS
    Machines <- MCMachines
    Slots = 2
    MaxEntries = 3
    MaxFiles = 3
    MaxLooks = 2
    Hosts <- MCHosts
    Upgraded <- MCUpgraded
    Restarted <- MCRestarted
    Faults <- MCFaults
    Unkept <- MCUnkept
    maxPerCode = 2
    Plans = {"a", "b"}
    Runs = {"r"}
    Scenes <- MCScenes
    Together = {{"timers"}}
    Actives = {{"daily", "upgrades"}}
    NewKernel = TRUE
    MaxKills = 1
    MaxBoots = 2
CHECK_DEADLOCK FALSE
INVARIANTS ReportHolds VerdictHolds RunbookHolds
PROPERTIES FollowsTheWay
