SPECIFICATION MCSpec
CONSTANTS
    Parts = {"pour", "dgt", "outbox", "settle", "stream", "replay"}
    PourWorlds = {{"write", "mark_lost", "crash", "unknown", "unreported", "operator"}, {"write", "lag", "unknown", "unreported"}, {"mark_lost", "crash", "garbled"}}
    PourBudget = 2
    MaxGrids = 3
    LadderCap = 1
    FlipCap = 1
    RedeployBudget = 1
    RedeployWorlds = {{"crash", "unknown", "mark_lost"}, {"new_geometry", "unknown"}, {"disabled", "queue_lost", "late"}, {"scanner", "event_lost"}, {"mark_lost", "late", "count_error"}}
    Dispatchers = {1, 2}
    MaxMessages = 2
    MaxUpdates = 1
    MaxFailures = 2
    OutboxWorlds = {{"lost_answer", "crash"}, {"refused", "rejected", "reply"}, {"limited", "write", "poll"}}
    OutboxBudget = 2
    SettleWorlds = {{"cancel", "detail", "list", "write"}, {"crash", "outcome"}}
    SettleBudget = 1
    WireCap = 2
    MinWindows = 2
    StreamWorlds = {{"loss", "drop"}, {"crossed", "symbols"}, {"one_sided", "spread"}}
    StreamBudget = 2
    MaxDecisions = 2
    MaxEpisodes = 2
    MaxExperiments = 2
    ReplayPasses = {1, 2}
    BatchSize = 1
    ReplayWorlds = {{}, {"journal", "abandon"}, {"permanent", "write"}, {"stall"}, {"prune"}}
    ReplayBudget = 1
INVARIANTS
    RecoveryTypeOK
    TrancheOnce
    RedeploysAreBounded
    ChannelIsFaithful
    SettledOnce
    ReadyIsEarned
    ReplayIsExact
PROPERTIES
    FullTrancheIsManaged
    IntentEnds
    OutboxDrains
    PendingFinalEnds
    BookRecovers
    ExperimentEnds
CHECK_DEADLOCK FALSE
