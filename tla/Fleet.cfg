SPECIFICATION FSpec
CONSTANTS Slots = {1, 2, 3}
          Requests = {r1, r2}
          MaxKeys = 2
          MaxOps = 5
          MaxBreaks = 1
          MaxInFlight = 1
          OfflineAfter = 2
          StartGrace = 2
          RotateMayFail = FALSE
          Relays = {"a", "b"}
          Own = "own"
          JoinCodes <- MCJoinCodes
          MaxFleets = 3
          MaxCalls = 3
          MaxFails = 1
          MaxCrashes = 1
          MaxOwn = 1
          MaxDamage = 1
          Watched = {}
CHECK_DEADLOCK FALSE
INVARIANTS OnlyCurrentKey RelayInOrder
PROPERTIES NobodyWaits OfflineLongEnough OwnerNetKept
