\* Every split of a span of up to six days, an honest and a leaky source.
CONSTANTS
    Leak = Leak
    SplitError = SplitError
    MinWindowDays = 1
    Start = 1
    LastEnd = 6
    Embargo = {0, 1}
    Lookback = 1
    ScoreEvery = 2
    Horizon = 1
    MaxRows = 2
SPECIFICATION Spec
INVARIANTS WindowsKeepApart NoLookAhead TrainNeverSeesTest ResultsAreAudited
CHECK_DEADLOCK FALSE
