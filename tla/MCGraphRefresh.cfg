\* Three refreshes that race, a worker crash anywhere.
SPECIFICATION RefreshSpec
CONSTANTS
    Edge = {e1}
    Horizon = 3
    MaxMargin = 1
    Id = {1, 2, 3}
    None = None
    Verdict <- Extracted
    Triggers = {"bootstrap", "nightly"}
    Lag = 0
    RetireAge = 2
    MaxCrash = 1
CHECK_DEADLOCK FALSE
INVARIANT OutcomeIsExplained
