SPECIFICATION PlanSpec
CONSTANTS
    Facts <- MCFacts
    MaxNames = 4
    Boxes <- MCBoxes
    Asks = {a1, a2}
    MaxStarts = 2
    MaxDeaths = 1
    MaxModule = 1
CHECK_DEADLOCK FALSE
INVARIANTS OnePlan 
PROPERTIES EndsTold
