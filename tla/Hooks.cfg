SPECIFICATION Spec
CONSTANTS
    Threads = {t1, t2}
    Devices = {d1, d2, d3}
    Slots = 2
    Attempts = 1
    None = None
SYMMETRY Symmetry
INVARIANTS
    TypeOK
    HooksEndInOriginals
\* The process ends.
CHECK_DEADLOCK FALSE
