SPECIFICATION SettleSpec
CONSTANTS
    SettleWorlds = {{"cancel"}}
    SettleBudget = 1
INVARIANTS
    LossNeedsItsWitness
CHECK_DEADLOCK FALSE
