\* Two requests race on a plan of two among four instruments.
SPECIFICATION Spec
CONSTANTS
    Thread = {t1, t2}
    Instrument = {i1, i2, i3, i4}
    Target = 2
    Nil = Nil
    MaxLock = 2
SYMMETRY Symmetry
INVARIANTS StoredWasShown LockedIsStored OneLock
