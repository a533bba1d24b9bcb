SPECIFICATION FairSpec
CONSTANTS
    r1 = r1
    r2 = r2
    r3 = r3
    r4 = r4
    o1 = o1
    o2 = o2
    s1 = s1
    s2 = s2
    d1 = d1
    d2 = d2
    NoOrder = NoOrder
    NoRow = NoRow
    Rows = {r1, r2}
    Orders = {o1}
    Symbols = {s1}
    Deployers = {d1}
    ManualDeployers = {}
    Faults <- ClientFaults
    MaxActiveGridBots = 2
    MaxIntents = 1
    MaxCommands = 0
    MaxCrashes = 1
PROPERTIES
    StopReachesTerminal
    LiveGridIsSupervised
