CONSTANTS
    router = router
    r1 = r1  r2 = r2
    Router = router
    Request = {r1, r2}
    Caller = {router, r1, r2}
    Nobody = nobody
    Formula = {f1, f2, f3}
    TrialLimit <- MCTrialLimit
    Together <- MCTogether
    MaxCandidates = 2
    LastDay = 2
    DailyCap = 3
    Missing = {"research"}
    MaxSteps = 6
    MaxLLMCalls = 5
    MaxResume = 1
SPECIFICATION Spec
CHECK_DEADLOCK FALSE
INVARIANTS BudgetsHold GateIsPassed TrialsAreCounted AnsweredIsRecorded
PROPERTIES AllowanceSpec CallersEnd
