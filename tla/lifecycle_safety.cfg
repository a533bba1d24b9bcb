SPECIFICATION Spec
CONSTANTS
    r1 = r1
    r2 = r2
    r3 = r3
    r4 = r4
    o1 = o1
    o2 = o2
    s1 = s1
    s2 = s2
    d1 = d1
    d2 = d2
    NoOrder = NoOrder
    NoRow = NoRow
    Rows = {r1, r2, r3}
    Orders = {o1, o2}
    Symbols = {s1}
    Deployers = {d1}
    ManualDeployers = {}
    Faults <- HonestFaults
    MaxActiveGridBots = 2
    MaxIntents = 2
    MaxCommands = 1
    MaxCrashes = 0
SYMMETRY Interchangeable
INVARIANTS
    TerminalMeansFlat
    FailedWasNeverCreated
PROPERTIES
    KeepsGridContract
    BoundStopIsDurable
