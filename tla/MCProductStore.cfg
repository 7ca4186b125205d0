\* Two requests and the worker, three versions, a content that cannot be stored and two
\* restarts of anything.
SPECIFICATION Spec
CONSTANTS
    Thread = {t1, t2}
    Id = {i1}
    Fresh = {f}
    Content = {c1, c2, c3, bad}
    Unstorable = {bad}
    MaxVersion = 3
    MaxRestart = 2
SYMMETRY Symmetry
INVARIANTS AnsweredIsStored LockIsAtomic BootstrapIsDurable WorkspaceChain
PROPERTY WritesFailForCause
CHECK_DEADLOCK FALSE
