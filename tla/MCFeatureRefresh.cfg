\* Three refreshes, two snapshots of the workspace (one without
\* an instrument) and one that is not its own.
CONSTANTS
    exposure = exposure
    close = close
    j1 = j1  j2 = j2  j3 = j3
    Catalog <- MCCatalog
    RequiresGraph = {exposure}
    Computed = {exposure}
    Graph = {g1, g2, g3}
    Foreign = {g3}
    Bare = {g2}
    Job = {j1, j2, j3}
    Name = {n1}
    None = None
    MaxFailure = 2
SPECIFICATION Spec
SYMMETRY MCSymmetry
CHECK_DEADLOCK FALSE
INVARIANTS ReadyIsBacked StrategyIsGrounded
PROPERTIES OnlyPinsFail SuccessBindsAll
