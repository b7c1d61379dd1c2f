SPECIFICATION LiveSpec
CONSTANTS
    MaxOps = 2
    MaxPnl = 1
    MaxDay = 1
    MaxCrashes = 1
    MaxChanges = 2
    Rooms = {2}
    Share = 3
    Trigger = 1
    Step = 1
    Minimum = 1
    SingleLimit = 2
    DailyLimit = 2
    CatchUp = 2
    Routes = {"spot", "forward", "perps"}
    None = None
INVARIANTS PostedOnce OutcomeTrue BooksBalance TakenWithinEntitlement DailyLimitKept PauseExplained
PROPERTY Settles
