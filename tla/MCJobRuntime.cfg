\* Two racing API requests, two keys, a kind without a handler, one crash or database error; no reports.
SPECIFICATION Spec
CONSTANTS
    Job = {j1, j2}
    Key = {k1, k2}
    Body = {work, unknown}
    Runnable = {work}
    Client = {c1, c2}
    Steps = 0
    MaxFailure = 1
    Nil = Nil
SYMMETRY Symmetry
INVARIANT AcceptedIsDispatched
PROPERTY LifecycleSpec
