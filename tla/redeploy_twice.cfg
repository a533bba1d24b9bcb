SPECIFICATION DgtSpec
CONSTANTS
    MaxGrids = 3
    LadderCap = 2
    FlipCap = 1
    RedeployWorlds = {{"crash", "new_geometry"}}
    RedeployBudget = 1
INVARIANTS
    RedeployedOnce
CHECK_DEADLOCK FALSE
