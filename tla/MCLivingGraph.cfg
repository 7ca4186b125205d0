CONSTANTS
    o1 = o1  o2 = o2  o3 = o3
    ab = ab  ac = ac
    Obs = {o1, o2, o3}
    Available <- MCAvailable
    Run = {r1, r2}
    Calls <- MCCalls
    Error = {"unavailable"}
    LastTime = 2
    MaxFault = 1
    MaxBegun = 2
    Entities <- MCEntities
    Mentioned <- MCMentioned
    Textual = {o1, o3}
    Edge = {ab, ac}
    Pair <- MCPair
    Seed = {ab}
    None = none
    MaxWork = 4
SPECIFICATION Spec
CHECK_DEADLOCK FALSE
INVARIANTS IntakeIsAccounted NoHindsight ReadersAgree RetiredIsFinal
