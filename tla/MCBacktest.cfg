SPECIFICATION Spec
CONSTANTS
    None = None
    Raised = Raised
    Width = 2
    Scale = 20
    Unit = 5250
    Plans <- PlansValue
    Prices = {1, 2}
    Opening <- OpeningValue
    MaxRows = 6
    Cost = 1
    Tenth = 3
    Splits = 2
    Horizon = 1
    Embargo = 1
    Dust = 1
    Percentile = 95
    AdvMax = 60000
    StabilityTenth = 7
INVARIANTS
    BacktestIsLive
    ScanIsHonest
    TrainNeverSeesTest
    ApprovedEarned
CHECK_DEADLOCK FALSE
