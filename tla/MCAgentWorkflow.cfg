SPECIFICATION BuildSpec
CONSTANTS
    Attempt = {a1, a2, a3}
    Path = {p1, p2}
    Nobody = nobody
    MaxCrash = 2
    a1 = a1
    a2 = a2
    a3 = a3
    p1 = p1
    p2 = p2
SYMMETRY Symmetry
INVARIANTS ReviewedIsPublished OnlyCrashesLoseCommands
CHECK_DEADLOCK FALSE
