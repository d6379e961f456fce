CONSTANTS
    Objects = {e1, e2}
    Threads = {t1, t2}
    MaxEnclaves = 2
    MaxFiles = 1
    None = None
    Faults = {}
SPECIFICATION Spec
SYMMETRY Sym
INVARIANTS
    RefsInv
    NoDangling
    Reachable
    FreedClean
CHECK_DEADLOCK FALSE
