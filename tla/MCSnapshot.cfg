SPECIFICATION Spec
CONSTANTS
    None = None
    Torn = Torn
    Asked <- AskedValue
    MarketOf <- MarketOfValue
    Vendors <- VendorsValue
    Shapes <- ShapesValue
    MinRows = 3
    MinCoverage = 75
    Years = {3, 4}
    FactorFiles <- FactorFilesValue
    Universes <- UniversesValue
    MaxRuns <- MaxRunsValue
INVARIANTS
    SameReadSameClaim
    OnePanelOneVendor
    NobodyStartsLate
    FactorsPriceEveryBar
CHECK_DEADLOCK FALSE
