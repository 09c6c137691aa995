SPECIFICATION Spec
CONSTANTS
    Threads = {t1, t2}
    Handles = {h1, h2}
    NoHandle = NoHandle
    MaxRegistrations = 2
SYMMETRY Symmetry
INVARIANTS HandlesOwnedOnce MessageOfFailedCall ClosureAlive
