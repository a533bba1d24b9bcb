SPECIFICATION PaperSpec
CONSTANTS
    PaperWorlds = {{"operator"}}
    TopPrice = 4
    MaxMoves = 2
    MaxBoundaries = 1
    MaxShifts = 1
PROPERTIES
    SettledIsKept
CHECK_DEADLOCK FALSE
