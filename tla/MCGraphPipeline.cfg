\* As-of times that trail, stand still or move back, ties of knowledge time, decay and retirement.
SPECIFICATION Spec
CONSTANTS
    Edge = {e1}
    Horizon = 4
    MaxMargin = 2
    Id = {1, 2, 3}
    None = None
    Verdict <- Long
    Triggers = {"bootstrap", "event"}
    Lag = 1
    RetireAge = 3
CHECK_DEADLOCK FALSE
INVARIANTS HistoryKept EligibleIsEarned NightlyRetires UpdatesSucceedUntilRetirement
