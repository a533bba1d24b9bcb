SPECIFICATION MCSpec
CONSTANTS
    Parts = {"pass", "manage", "radar", "settings", "client"}
    p1 = p1
    p2 = p2
    s1 = s1
    s2 = s2
    Passes = {p1, p2}
    Symbols = {s1, s2}
    MaxActiveBots = 1
    PassBetas = {"flat"}
    MarketMoods <- MCMoods
    PassFacts = {"risk", "losing", "noFunds", "testPending", "duplicateUnreadable"}
    PriceTop = 5
    MaxLoss = 2
    Target = 2
    MaxAdjustments = 1
    Grace = 1
    ReArm = 2
    ClockTop = 3
    ManageFaults = {"intent_write", "cancel_lost", "card_unconfirmed", "card_write"}
    CooldownFloor = 1
    CooldownCap = 2
    AutocloseCooldown = 2
    DwellTicks = 2
    MaxShiftsPerBot = 1
    RadarGrids <- MCGrids
    OthersCap = 1
    MissedCap = 1
    RadarFaults = {"event_lost", "refused", "uncounted", "unread", "restart"}
    Writers = {"console", "mcp", "worker"}
    Worker = "worker"
    Forms <- MCForms
    Patches <- MCPatches
    Suggestions <- MCSuggestions
    SettingsWorlds = {{}, {"tune", "fault", "unpin"}, {"overlap", "tune", "unpin"}}
    MaxWrites = 3
    Callers = {"orders", "reads"}
    Capacity = 2
    RefillRate = 1
    Weights = {1, 2}
    Cooldown = 2
    ClientTop = 3
    MaxCalls = 2
SYMMETRY MCSymmetry
INVARIANTS
    TradingTypeOK
    DirectionsAreBacked
    PassWithinSlots
    LossIsNeverHeld
    RequestsAreHonest
PROPERTIES
    CarriedIsBacked
    RadarKeepsItsGates
    SettingsHold
CHECK_DEADLOCK FALSE
