SPECIFICATION Spec
CONSTANTS
    Thread = {t1, t2}
    Id = {i1}
    Fresh = {f}
    Content = {c1, c2, c3}
    Unstorable = {}
    MaxVersion = 2
    MaxRestart = 0
    t1 = t1
    t2 = t2
    i1 = i1
    f = f
    c1 = c1
    c2 = c2
    c3 = c3
SYMMETRY Symmetry
INVARIANT NothingAnsweredIsLost
CHECK_DEADLOCK FALSE
