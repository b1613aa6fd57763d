SPECIFICATION FairSpec
CONSTANTS
    Threads = {t1, t2}
    NoThread = NoThread
    Links = {l1, l2}
    NoLink = NoLink
    Inputs <- MCInputs
    MaxEvents = 2
    MaxCalls = 2
INVARIANTS
    TypeOK
    AppliedInOrder
    CallsInOrder
    ReportedIsApplied
PROPERTIES
    LockIsLeft
