\* Five observations from three hosts, two tiers, fresh or one half-life old; every
\* graph over eight links with two losses; price files of five days, ledgers of four.
SPECIFICATION DecisionsSpec
CONSTANTS
    Host = {h1, h2, h3}
    Tier = {"primary", "discovery"}
    MaxAge = 1
    MaxGather = 5
    n0 = n0  n1 = n1  n2 = n2  n3 = n3  n4 = n4
    Node = {n0, n1, n2, n3, n4}
    Shock = n0
    Links <- MCLinks
    MaxLoss = 1
    MaxHops = 3
    NoPath = nopath
    Tick = 2
    LastDay = 5
    GraphDay = 4
    MinPeriods = 2
SYMMETRY Symmetry
CHECK_DEADLOCK FALSE
INVARIANTS ConflictIsReviewed StrongestPaths AcceptedIsUnseen GraphRunsStarve
PROPERTIES VerdictFollowsEvidence
