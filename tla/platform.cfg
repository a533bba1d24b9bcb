SPECIFICATION MCSpec
CONSTANTS
    Parts = {"entries", "settings", "paper", "scan"}
    r1 = r1
    r2 = r2
    r3 = r3
    s1 = s1
    s2 = s2
    d1 = d1
    d2 = d2
    p1 = p1
    Nobody = Nobody
    Rows = {r1, r2, r3}
    Symbols = {s1, s2}
    Fleets = {"REAL", "PAPER"}
    Deployers = {d1, d2}
    Pourers = {p1}
    Forms = {1, 2}
    Tokenless = {2}
    Policies <- MCPolicies
    Plans <- MCPlans
    Pours = {1}
    MaxWrites = 3
    PaperWorlds = {{"crash", "pour", "redeploy", "recenter"}, {"crash", "exit", "autoclose", "redeploy", "recenter"}, {"operator", "redeploy"}, {"operator", "recenter"}}
    TopPrice = 4
    MaxMoves = 3
    MaxBoundaries = 1
    MaxShifts = 1
    Tapes <- MCTapes
    Modes <- MCModes
    ScanCap = 2
    VolQuota = 1
    MaxSymbols = 2
    HandCap = 2
    AuditCap = 1
    ScanWorlds = {{}, {"fetch", "panic"}, {"cancel"}, {"write", "universe"}, {"silence", "write"}, {"unreadable"}, {"crash"}}
    ScanBudget = 1
INVARIANTS
    PlatformTypeOK
    ScanIsWhole
    HandedIsVetted
PROPERTIES
    EntryKeepsLimits
    StaleWritersYield
    PaperHistoryHolds
CHECK_DEADLOCK FALSE
