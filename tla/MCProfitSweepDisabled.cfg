SPECIFICATION Spec
CONSTANTS
    MaxOps = 2
    MaxPnl = 1
    MaxDay = 1
    MaxCrashes = 0
    MaxChanges = 2
    Rooms = {2}
    Share = 3
    Trigger = 1
    Step = 1
    Minimum = 1
    SingleLimit = 2
    DailyLimit = 2
    CatchUp = 2
    Routes = {"forward"}
    None = None
INVARIANT LiveAsChosen
