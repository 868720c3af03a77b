SPECIFICATION Spec
CONSTANTS
    None = None
    Refused = Refused
    StaleRun = 3
    LiquidityWindow = 5
    Floor = 1
    Names = {one, two, still}
    VenueOf <- VenueOfValue
    Movers = {one, two}
    Weekend = {2, 3}
    Days = 2
    MinRows = 1
    Horizon = 6
    MaxMoves = 3
    MaxHolidays = 1
    MaxMute = 1
    MaxRuns <- MaxRunsValue
    one = one
    two = two
    still = still
INVARIANTS
    AnsweredRightOrRefused
    WindowProvesItsDates
    NoHaltIsOrdered
    GapIsNeverUnderstated
SYMMETRY Alike
CHECK_DEADLOCK FALSE
