\* Three companies and an ETF, two questions a week, two failures that end a
\* run, and one company Yahoo cannot be had for: the pool can be longer than
\* what the budget leaves it.
CONSTANTS
    Symbols = {1, 2, 3, 4}
    Etfs = {4}
    Declared = {4}
    Budget = 2
    GiveUpAfter = 2
    MaxStuck = 1
    MaxChanges = 1
SPECIFICATION BackfillSpec
INVARIANT PoolWasAnswered
PROPERTIES SectorsOutliveOutages EverybodyGetsAnAnswer PoolIsAskedAgain
CHECK_DEADLOCK FALSE
